------------------------ MODULE Microservices_proofs ------------------------
(***************************************************************************)
(* Microservices for any messages, patterns, connections and instances:    *)
(* over each of the three transports a request keeps its promise to the    *)
(* caller, no entry of a pending map is without a timer, and the servers   *)
(* keep account of the channels and messages they hold.                    *)
(***************************************************************************)
EXTENDS Microservices, SequenceTheorems, FiniteSetTheorems, TLAPS

-----------------------------------------------------------------------------
(***************************************************************************)
(* The table of requests, whatever the transport                           *)
(***************************************************************************)
ReqStates == {"idle", "waiting", "answered", "failed", "sent"}

TableOK ==
    /\ req \in [Messages -> ReqStates] /\ answer \in [Calls -> Calls \cup {NoAnswer}]
    /\ served \in [Messages -> Nat]
    /\ pending \subseteq Calls /\ timers \subseteq Calls
    /\ pending \subseteq timers /\ \A r \in pending : req[r] # "idle"

\* A request whose sending failed on a dead channel after it was entered.
EnteredInVain(p) ==
    /\ First(p)
    /\ req' = [req EXCEPT ![p] = "failed"]
    /\ pending' = pending \cup {p} /\ timers' = timers \cup {p}
    /\ UNCHANGED answer

\* Only a request that waits and was served is ever answered.
Answerable(id, mine, ok) == id \in pending \cap mine => req[id] = "waiting" /\ (ok => served[id] > 0)

\* What a step of any transport does to the table.
Moves ==
    \/ \E r \in Calls : Entered(r) \/ Refused(r) \/ TimedOut(r)
    \/ \E r \in Emits : Sent(r)
    \/ \E p \in Pushes : EnteredInVain(p)
    \/ \E id \in Messages, mine \in {Sends, Pushes}, ok \in BOOLEAN :
          Answerable(id, mine, ok) /\ Replied(id, mine, ok)
    \/ RejectPending(Sends)
    \/ \E mine \in {Sends, Pushes} : Forgotten(mine)

TableStep ==
    \/ Moves /\ UNCHANGED served
    \/ \E r \in Messages : req[r] # "idle" /\ Ran(r) /\ UNCHANGED table
    \/ UNCHANGED <<table, served>>

\* Nothing is unsent or unserved again, and what stays in the map stays as it is.
Onward ==
    \A r \in Messages :
        /\ req[r] # "idle" => req'[r] # "idle"
        /\ served[r] > 0 => served'[r] > 0
        /\ r \in pending /\ r \in pending' => req'[r] = req[r]
        /\ r \in pending' /\ r \notin pending => req[r] = "idle"

LEMMA TableInitOK == TableInit => TableOK
BY DEF TableInit, TableOK, ReqStates

\* How a settler changes the table.
LEMMA SettledKept ==
    ASSUME TableOK, NEW S \in SUBSET Calls, NEW outcome \in {"answered", "failed"}, NEW by,
           outcome = "answered" => by \in Calls,
           Settled(S, outcome, by), pending' \subseteq pending \ S, UNCHANGED served
    PROVE  TableOK' /\ Onward
<1>1. req' \in [Messages -> ReqStates] /\ answer' \in [Calls -> Calls \cup {NoAnswer}]
  BY DEF Settled, TableOK, ReqStates
<1>2. timers' = timers \ S
  BY DEF Settled
<1>3. Onward
  BY DEF Onward, Settled, TableOK, Messages
<1>4. TableOK'
  <2>1. \A r \in pending' : req'[r] # "idle"
    BY <1>3 DEF Onward, TableOK, Messages
  <2> QED BY <1>1, <1>2, <2>1 DEF TableOK
<1> QED BY <1>3, <1>4

\* The types of the table, its timers, and that it only moves on.
LEMMA TableKept ==
    ASSUME TableOK, TableStep
    PROVE  TableOK' /\ Onward
<1>t. /\ Calls \subseteq Messages /\ Emits \subseteq Messages
      /\ Pushes \subseteq Calls /\ Sends \subseteq Calls
  BY DEF Messages, Calls
<1>1. ASSUME NEW r \in Messages, req' = [req EXCEPT ![r] = "waiting"] \/ req' = [req EXCEPT ![r] = "failed"]
                                 \/ req' = [req EXCEPT ![r] = "sent"],
             First(r), UNCHANGED <<answer, served>>,
             \/ UNCHANGED <<pending, timers>>
             \/ r \in Calls /\ pending' = pending \cup {r} /\ timers' = timers \cup {r}
      PROVE  TableOK' /\ Onward
  <2>1. req' \in [Messages -> ReqStates]
    BY <1>1 DEF TableOK, ReqStates
  <2>2. req[r] = "idle" /\ req'[r] # "idle" /\ \A q \in Messages \ {r} : req'[q] = req[q]
    BY <1>1 DEF TableOK, First
  <2>3. r \notin pending
    BY <2>2 DEF TableOK
  <2>4. Onward
    BY <1>1, <2>2, <2>3 DEF Onward
  <2>5. TableOK'
    BY <1>1, <1>t, <2>1, <2>2 DEF TableOK
  <2> QED BY <2>4, <2>5
<1>2. ASSUME NEW r \in Calls, Entered(r) \/ Refused(r), UNCHANGED served PROVE TableOK' /\ Onward
  BY <1>1, <1>2, <1>t DEF Entered, Refused
<1>3. ASSUME NEW r \in Emits, Sent(r), UNCHANGED served PROVE TableOK' /\ Onward
  BY <1>1, <1>3, <1>t DEF Sent
<1>4. ASSUME NEW p \in Pushes, EnteredInVain(p), UNCHANGED served PROVE TableOK' /\ Onward
  BY <1>1, <1>4, <1>t DEF EnteredInVain, First
<1>5. ASSUME NEW r \in Calls, TimedOut(r), UNCHANGED served PROVE TableOK' /\ Onward
  BY <1>5, SettledKept DEF TimedOut
<1>6. ASSUME NEW id \in Messages, NEW mine \in {Sends, Pushes}, NEW ok \in BOOLEAN,
             Replied(id, mine, ok), UNCHANGED served
      PROVE  TableOK' /\ Onward
  <2>1. Matching(id, mine) \in SUBSET Calls
    BY DEF Matching, TableOK
  <2>2. CASE id \in pending \cap mine
    <3>1. id \in Calls
      BY <2>2 DEF TableOK
    <3> QED BY <1>6, <2>1, <3>1, SettledKept DEF Replied
  <2>3. CASE id \notin pending \cap mine
    <3>1. Matching(id, mine) = {}
      BY <2>3 DEF Matching
    <3> QED BY <1>6, <3>1 DEF Replied, Settled, TableOK, Onward
  <2> QED BY <2>2, <2>3
<1>7. ASSUME RejectPending(Sends), UNCHANGED served PROVE TableOK' /\ Onward
  <2>1. pending \cap Sends \in SUBSET Calls /\ pending \ Sends \subseteq pending \ (pending \cap Sends)
    BY DEF TableOK
  <2> QED BY <1>7, <2>1, SettledKept DEF RejectPending
<1>8. ASSUME NEW mine \in {Sends, Pushes}, Forgotten(mine), UNCHANGED served PROVE TableOK' /\ Onward
  BY <1>8 DEF Forgotten, TableOK, Onward
<1>9. ASSUME NEW r \in Messages, Ran(r), UNCHANGED table PROVE TableOK' /\ Onward
  BY <1>9 DEF Ran, table, TableOK, Onward
<1>10. CASE UNCHANGED <<table, served>>
  BY <1>10 DEF table, TableOK, Onward
<1> QED BY <1>2, <1>3, <1>4, <1>5, <1>6, <1>7, <1>8, <1>9, <1>10 DEF TableStep, Moves

\* Requests that fail, each for itself or all at once, and steps nobody sees.
LEMMA PromiseFails ==
    ASSUME NEW S \in SUBSET Calls, \A r \in S : req[r] \in {"idle", "waiting"},
           \A r \in Calls : req'[r] = IF r \in S THEN "failed" ELSE req[r],
           answer' = answer, served' = served
    PROVE  Promise!Next
<1>1. Promise!Fail(S)
  BY DEF Promise!Fail
<1> QED BY <1>1 DEF Promise!Next

LEMMA PromiseStutters ==
    ASSUME \A r \in Calls : req'[r] = req[r] /\ served'[r] = served[r], answer' = answer
    PROVE  UNCHANGED Promise!vars
BY DEF Promise!vars

LEMMA PromiseSettles ==
    ASSUME TableOK, NEW S \in SUBSET Calls, NEW by, Settled(S, "failed", by), UNCHANGED served
    PROVE  Promise!Next
<1> DEFINE T == {r \in S : req[r] = "waiting"}
<1>1. T \in SUBSET Calls /\ \A r \in T : req[r] \in {"idle", "waiting"}
  OBVIOUS
<1>2. \A r \in Calls : req'[r] = IF r \in T THEN "failed" ELSE req[r]
  BY DEF Settled, Messages
<1>3. answer' = answer
  BY DEF Settled, TableOK
<1> HIDE DEF T
<1> QED BY <1>1, <1>2, <1>3, PromiseFails

\* Each of these keeps the promise of a request to its caller.
LEMMA PromiseKept ==
    ASSUME RequestTableAssumption, TableOK, TableStep
    PROVE  [Promise!Next]_(Promise!vars)
<1>t. /\ Calls \subseteq Messages /\ Emits \cap Calls = {} /\ Sends \subseteq Calls
      /\ Pushes \subseteq Calls /\ req \in [Messages -> ReqStates]
      /\ answer \in [Calls -> Calls \cup {NoAnswer}] /\ served \in [Messages -> Nat]
  BY DEF RequestTableAssumption, Messages, Calls, TableOK
<1>1. ASSUME NEW r \in Calls, Entered(r), UNCHANGED served PROVE Promise!Next
  <2>1. Promise!Send(r)
    BY <1>1, <1>t DEF Entered, First, Promise!Send
  <2> QED BY <2>1 DEF Promise!Next
<1>2. ASSUME NEW r \in Calls, Refused(r) \/ EnteredInVain(r), UNCHANGED served PROVE Promise!Next
  <2>1. /\ req[r] = "idle" /\ answer' = answer
        /\ \A q \in Calls : req'[q] = IF q \in {r} THEN "failed" ELSE req[q]
    BY <1>2, <1>t DEF Refused, EnteredInVain, First
  <2> QED BY <2>1, <1>2, PromiseFails
<1>3. ASSUME NEW r \in Calls, TimedOut(r), UNCHANGED served PROVE Promise!Next
  BY <1>3, PromiseSettles DEF TimedOut
<1>4. ASSUME NEW r \in Emits, Sent(r), UNCHANGED served PROVE UNCHANGED Promise!vars
  BY <1>4, <1>t, PromiseStutters DEF Sent
<1>5. ASSUME NEW id \in Messages, NEW mine \in {Sends, Pushes}, NEW ok \in BOOLEAN,
             Answerable(id, mine, ok), Replied(id, mine, ok), UNCHANGED served
      PROVE  [Promise!Next]_(Promise!vars)
  <2>1. CASE id \notin pending \cap mine
    <3>1. Matching(id, mine) = {}
      BY <2>1 DEF Matching
    <3> QED BY <1>5, <1>t, <3>1, PromiseStutters DEF Replied, Settled
  <2>2. CASE id \in pending \cap mine /\ ~ok
    <3>1. Matching(id, mine) \in SUBSET Calls
      BY <1>t DEF Matching, TableOK
    <3> QED BY <1>5, <2>2, <3>1, PromiseSettles DEF Replied
  <2>3. CASE id \in pending \cap mine /\ ok
    <3>1. Matching(id, mine) = {id} /\ id \in Calls
      BY <2>3 DEF Matching, TableOK
    <3>2. req[id] = "waiting" /\ served[id] > 0
      BY <1>5, <2>3 DEF Answerable
    <3>3. Settled({id}, "answered", id)
      BY <1>5, <2>3, <3>1 DEF Replied
    <3>4. \A r \in Calls : req'[r] = IF r = id THEN "answered" ELSE req[r]
      BY <1>t, <3>2, <3>3 DEF Settled
    <3>5. answer' = [answer EXCEPT ![id] = id]
      BY <1>t, <3>1, <3>3 DEF Settled
    <3>6. Promise!Answer(id)
      BY <1>5, <1>t, <3>1, <3>2, <3>4, <3>5 DEF Promise!Answer
    <3> QED BY <3>1, <3>6 DEF Promise!Next
  <2> QED BY <2>1, <2>2, <2>3
<1>6. ASSUME RejectPending(Sends), UNCHANGED served PROVE Promise!Next
  <2>1. pending \cap Sends \in SUBSET Calls
    BY <1>t
  <2> QED BY <1>6, <2>1, PromiseSettles DEF RejectPending
<1>7. ASSUME NEW mine \in {Sends, Pushes}, Forgotten(mine), UNCHANGED served
      PROVE  UNCHANGED Promise!vars
  BY <1>7, PromiseStutters DEF Forgotten
<1>8. ASSUME NEW r \in Messages, req[r] # "idle", Ran(r), UNCHANGED table
      PROVE  [Promise!Next]_(Promise!vars)
  <2>1. UNCHANGED <<req, answer>> /\ served' = [served EXCEPT ![r] = @ + 1]
    BY <1>8 DEF table, Ran
  <2>2. CASE r \in Calls
    <3>1. Promise!Serve({r})
      BY <1>8, <1>t, <2>1, <2>2 DEF Promise!Serve
    <3> QED BY <2>2, <3>1 DEF Promise!Next
  <2>3. CASE r \notin Calls
    BY <1>t, <2>1, <2>3, PromiseStutters
  <2> QED BY <2>2, <2>3
<1>9. CASE UNCHANGED <<table, served>>
  BY <1>9, PromiseStutters DEF table
<1> QED BY <1>t, <1>1, <1>2, <1>3, <1>4, <1>5, <1>6, <1>7, <1>8, <1>9 DEF TableStep, Moves

LEMMA PromiseInit == TableInit => Promise!Init
BY DEF TableInit, Promise!Init, Messages

-----------------------------------------------------------------------------
(***************************************************************************)
(* TCP: the frames on the wires belong to messages that were sent, and     *)
(* replies to requests that were served.                                   *)
(***************************************************************************)
Frames == [id : Messages, reply : BOOLEAN, ok : BOOLEAN]
UpFrames == {f \in Frames : req[f.id] # "idle" /\ (f.id \in Pushes => served[f.id] > 0)}
DownFrames == {f \in Frames : req[f.id] # "idle" /\ (f.reply => served[f.id] > 0)}
Handlings == {x \in Messages \X Conns : req[x[1]] # "idle"}

TcpWires ==
    /\ up \in [Conns -> Seq(UpFrames)] /\ down \in [Conns -> Seq(DownFrames)]
    /\ running \subseteq Handlings

\* A request of the client waits exactly as long as it is in the map with its
\* timer, and not without a connection.
TcpSends ==
    /\ \A r \in pending : Waiting(r)
    /\ \A r \in Sends : Waiting(r) => r \in pending /\ isConnected
    /\ timers \cap Sends \subseteq pending

TcpOK == TcpWires /\ TcpSends

LEMMA FramesKept ==
    ASSUME Onward
    PROVE  /\ UpFrames \subseteq UpFrames' /\ DownFrames \subseteq DownFrames'
           /\ Handlings \subseteq Handlings'
           /\ Seq(UpFrames) \subseteq Seq(UpFrames') /\ Seq(DownFrames) \subseteq Seq(DownFrames')
<1>1. UpFrames \subseteq UpFrames' /\ DownFrames \subseteq DownFrames' /\ Handlings \subseteq Handlings'
  BY DEF UpFrames, DownFrames, Handlings, Frames, Onward
<1>2. \A S, T : S \subseteq T => Seq(S) \subseteq Seq(T)
  OBVIOUS
<1> QED BY <1>1, <1>2

\* A frame put on a wire, or taken from it.
LEMMA WirePut ==
    ASSUME NEW S, NEW T, NEW wire \in [Conns -> Seq(S)], S \subseteq T, NEW c, NEW f \in T
    PROVE  Tcp!Put(wire, c, f) \in [Conns -> Seq(T)]
<1>1. Seq(S) \subseteq Seq(T)
  OBVIOUS
<1>2. wire \in [Conns -> Seq(T)]
  BY <1>1
<1>3. \A s \in Seq(T) : Append(s, f) \in Seq(T)
  OBVIOUS
<1>4. [wire EXCEPT ![c] = Append(@, f)] \in [Conns -> Seq(T)]
  BY <1>2, <1>3
<1> QED BY <1>2, <1>4 DEF Tcp!Put

LEMMA WireTake ==
    ASSUME NEW S, NEW T, NEW wire \in [Conns -> Seq(S)], S \subseteq T, NEW c \in Conns, wire[c] # <<>>
    PROVE  [wire EXCEPT ![c] = Tail(@)] \in [Conns -> Seq(T)] /\ Head(wire[c]) \in S
<1>1. Seq(S) \subseteq Seq(T)
  OBVIOUS
<1>2. wire \in [Conns -> Seq(T)] /\ wire[c] \in Seq(S)
  BY <1>1
<1>3. \A s \in Seq(S) : s # <<>> => Tail(s) \in Seq(S) /\ Head(s) \in S
  OBVIOUS
<1> QED BY <1>1, <1>2, <1>3

\* What the map loses is settled; what enters it waits on a connection.
LEMMA TcpSendsKept ==
    ASSUME RequestTableAssumption, TableOK, TcpSends, TableOK',
           \/ \E r \in Calls : Entered(r) /\ (r \in Sends => isConnected) /\ isConnected' = isConnected
           \/ \E r \in Calls : (Refused(r) \/ TimedOut(r)) /\ isConnected' = isConnected
           \/ \E r \in Emits : Sent(r) /\ isConnected' = isConnected
           \/ \E id \in Messages, mine \in {Sends, Pushes}, ok \in BOOLEAN :
                 Replied(id, mine, ok) /\ isConnected' = isConnected
           \/ Forgotten(Pushes) /\ isConnected' = isConnected
           \/ UNCHANGED table /\ (isConnected => isConnected')
           \/ RejectPending(Sends)
    PROVE  TcpSends'
<1>t. /\ Calls \subseteq Messages /\ Emits \cap Calls = {} /\ Sends \subseteq Calls
      /\ Pushes \subseteq Calls /\ Sends \cap Pushes = {} /\ req \in [Messages -> ReqStates]
      /\ pending \subseteq Calls
  BY DEF RequestTableAssumption, Messages, Calls, TableOK
<1>1. ASSUME NEW r \in Calls, Entered(r), r \in Sends => isConnected, isConnected' = isConnected PROVE TcpSends'
  BY <1>1, <1>t DEF Entered, First, TcpSends, Waiting
<1>2. ASSUME NEW r \in Calls, Refused(r), isConnected' = isConnected PROVE TcpSends'
  BY <1>2, <1>t DEF Refused, First, TcpSends, Waiting
<1>3. ASSUME NEW r \in Calls, TimedOut(r), isConnected' = isConnected PROVE TcpSends'
  BY <1>3, <1>t DEF TimedOut, Settled, TcpSends, Waiting
<1>4. ASSUME NEW r \in Emits, Sent(r), isConnected' = isConnected PROVE TcpSends'
  BY <1>4, <1>t DEF Sent, First, TcpSends, Waiting
<1>5. ASSUME NEW id \in Messages, NEW mine, NEW ok \in BOOLEAN, Replied(id, mine, ok),
             isConnected' = isConnected
      PROVE  TcpSends'
  <2>1. PICK S : S = Matching(id, mine) /\ S \subseteq pending
    BY DEF Matching
  <2>2. PICK outcome \in {"answered", "failed"} : Settled(S, outcome, id) /\ pending' = pending \ S
    BY <2>1, <1>5 DEF Replied
  <2> QED BY <2>1, <2>2, <1>5, <1>t DEF Settled, TcpSends, Waiting
<1>6. ASSUME Forgotten(Pushes), isConnected' = isConnected PROVE TcpSends'
  BY <1>6, <1>t DEF Forgotten, TcpSends, Waiting
<1>7. CASE UNCHANGED table /\ (isConnected => isConnected')
  BY <1>7 DEF table, TcpSends, Waiting
<1>8. CASE RejectPending(Sends)
  BY <1>8, <1>t DEF RejectPending, Settled, TcpSends, Waiting
<1> QED BY <1>1, <1>2, <1>3, <1>4, <1>5, <1>6, <1>7, <1>8

LEMMA TcpTable ==
    /\ \A r : /\ Tcp!Entered(r) <=> Entered(r)
              /\ Tcp!Refused(r) <=> Refused(r)
              /\ Tcp!Sent(r) <=> Sent(r)
              /\ Tcp!TimedOut(r) <=> TimedOut(r)
              /\ Tcp!Ran(r) <=> Ran(r)
    /\ \A id, mine, ok : Tcp!Replied(id, mine, ok) <=> Replied(id, mine, ok)
    /\ \A mine : Tcp!RejectPending(mine) <=> RejectPending(mine)
    /\ \A mine : Tcp!Forgotten(mine) <=> Forgotten(mine)
    /\ Tcp!Messages = Messages /\ Tcp!Calls = Calls /\ Tcp!table = table
<1>1. Tcp!Messages = Messages /\ Tcp!Calls = Calls /\ Tcp!table = table
  BY DEF Tcp!Messages, Messages, Tcp!Calls, Calls, Tcp!table, table
<1>2. \A r : Tcp!First(r) <=> First(r)
  <2>1. \A S : Tcp!Cardinality(S) = Cardinality(S)
    BY DEF Tcp!Cardinality, Cardinality
  <2> QED BY <1>1, <2>1 DEF Tcp!First, First
<1>3. \A S, outcome, by : Tcp!Settled(S, outcome, by) <=> Settled(S, outcome, by)
  BY <1>1 DEF Tcp!Settled, Settled
<1>4. \A id, mine : Tcp!Matching(id, mine) = Matching(id, mine)
  BY DEF Tcp!Matching, Matching
<1>5. \A r : /\ Tcp!Entered(r) <=> Entered(r)
             /\ Tcp!Refused(r) <=> Refused(r)
             /\ Tcp!Sent(r) <=> Sent(r)
  BY <1>2 DEF Tcp!Entered, Entered, Tcp!Refused, Refused, Tcp!Sent, Sent
<1>6. \A r : (Tcp!TimedOut(r) <=> TimedOut(r)) /\ (Tcp!Ran(r) <=> Ran(r))
  BY <1>3 DEF Tcp!TimedOut, TimedOut, Tcp!Ran, Ran
<1>7. \A id, mine, ok : Tcp!Replied(id, mine, ok) <=> Replied(id, mine, ok)
  BY <1>3, <1>4 DEF Tcp!Replied, Replied
<1>8. \A mine : Tcp!RejectPending(mine) <=> RejectPending(mine)
  BY <1>3 DEF Tcp!RejectPending, RejectPending
<1>9. \A mine : Tcp!Forgotten(mine) <=> Forgotten(mine)
  BY DEF Tcp!Forgotten, Forgotten
<1> QED BY <1>1, <1>5, <1>6, <1>7, <1>8, <1>9

\* Steps that neither touch the table nor the wires.
LEMMA TcpQuiet ==
    ASSUME TableOK, TcpOK, UNCHANGED <<up, down, running, table, served>>, isConnected => isConnected'
    PROVE  TableStep /\ TcpOK'
<1>1. TableStep
  BY DEF TableStep
<1>2. TcpSends'
  BY DEF table, TcpOK, TcpSends, Waiting
<1>3. Onward
  BY <1>1, TableKept
<1>4. TcpWires'
  BY <1>3, FramesKept DEF TcpOK, TcpWires
<1> QED BY <1>1, <1>2, <1>4 DEF TcpOK


\* Steps that lose connections or requests, but touch no wire.
LEMMA TcpRejects ==
    ASSUME RequestTableAssumption, TableOK, TcpOK, UNCHANGED <<up, down, running, served>>,
           RejectPending(Sends) \/ (Forgotten(Pushes) /\ isConnected' = isConnected)
    PROVE  TableStep /\ TcpOK'
<1>1. TableStep
  BY DEF TableStep, Moves
<1>2. TableOK' /\ Onward
  BY <1>1, TableKept
<1>3. TcpSends'
  BY <1>2, TcpSendsKept DEF TcpOK
<1>4. TcpWires'
  BY <1>2, FramesKept DEF TcpOK, TcpWires
<1> QED BY <1>1, <1>3, <1>4 DEF TcpOK

\* A frame of a request goes out with its entry, or without one.
LEMMA TcpSendStep ==
    ASSUME RequestTableAssumption, TableOK, TcpOK, NEW r \in Messages, UNCHANGED <<running, served, isConnected>>,
           NEW c, NEW f \in Frames, f.id = r,
           \/ r \in Calls /\ Entered(r) /\ (r \in Sends => isConnected)
           \/ r \in Emits /\ Sent(r),
           \/ r \notin Pushes /\ up' = Tcp!Put(up, c, f) /\ UNCHANGED down
           \/ ~f.reply /\ down' = Tcp!Put(down, c, f) /\ UNCHANGED up
    PROVE  TableStep /\ TcpOK'
<1>1. TableStep
  BY DEF TableStep, Moves
<1>2. TableOK' /\ Onward
  BY <1>1, TableKept
<1>3. TcpSends'
  BY <1>2, TcpSendsKept DEF TcpOK
<1>4. req'[r] # "idle"
  BY DEF Entered, Sent, First, TableOK
<1>5. TcpWires'
  <2>1. running' \subseteq Handlings'
    BY <1>2, FramesKept DEF TcpOK, TcpWires
  <2>2. CASE r \notin Pushes /\ up' = Tcp!Put(up, c, f) /\ UNCHANGED down
    <3>1. f \in UpFrames'
      BY <1>4, <2>2 DEF UpFrames
    <3>2. up \in [Conns -> Seq(UpFrames)] /\ UpFrames \subseteq UpFrames'
      BY <1>2, FramesKept DEF TcpOK, TcpWires
    <3>3. Tcp!Put(up, c, f) \in [Conns -> Seq(UpFrames')]
      BY <3>1, <3>2, WirePut
    <3>4. down' \in [Conns -> Seq(DownFrames')]
      BY <1>2, <2>2, FramesKept DEF TcpOK, TcpWires
    <3> QED BY <2>1, <2>2, <3>3, <3>4 DEF TcpWires
  <2>3. CASE ~f.reply /\ down' = Tcp!Put(down, c, f) /\ UNCHANGED up
    <3>1. f \in DownFrames'
      BY <1>4, <2>3 DEF DownFrames
    <3>2. down \in [Conns -> Seq(DownFrames)] /\ DownFrames \subseteq DownFrames'
      BY <1>2, FramesKept DEF TcpOK, TcpWires
    <3>3. Tcp!Put(down, c, f) \in [Conns -> Seq(DownFrames')]
      BY <3>1, <3>2, WirePut
    <3>4. up' \in [Conns -> Seq(UpFrames')]
      BY <1>2, <2>3, FramesKept DEF TcpOK, TcpWires
    <3> QED BY <2>1, <2>3, <3>3, <3>4 DEF TcpWires
  <2> QED BY <2>2, <2>3
<1> QED BY <1>1, <1>3, <1>5 DEF TcpOK

\* TcpServer takes a frame.
LEMMA TcpServerData ==
    ASSUME RequestTableAssumption, TableOK, TcpOK, NEW c \in Conns, Tcp!ServerData(c)
    PROVE  TableStep /\ TcpOK'
<1> DEFINE f == Head(up[c])
<1>1. /\ up[c] # <<>> /\ up' = [up EXCEPT ![c] = Tail(@)] /\ UNCHANGED <<isConnected, down>>
  BY DEF Tcp!ServerData
<1>2. up \in [Conns -> Seq(UpFrames)] /\ running \subseteq Handlings
  BY DEF TcpOK, TcpWires
<1>3. f \in UpFrames
  BY <1>1, <1>2, WireTake
<1>4. f.id \in Messages /\ req[f.id] # "idle" /\ (f.id \in Pushes => served[f.id] > 0)
  BY <1>3 DEF UpFrames, Frames
<1>5. \/ f.id \in pending \cap Pushes /\ Replied(f.id, Pushes, TRUE) /\ UNCHANGED <<running, served>>
      \/ running' = running \cup {<<f.id, c>>} /\ UNCHANGED <<table, served>>
      \/ Ran(f.id) /\ UNCHANGED <<table, running>>
      \/ UNCHANGED <<table, running, served>>
  <2>1. Tcp!Replied(f.id, Pushes, TRUE) <=> Replied(f.id, Pushes, TRUE)
    BY TcpTable
  <2>2. Tcp!Ran(f.id) <=> Ran(f.id)
    BY TcpTable
  <2>3. UNCHANGED Tcp!table <=> UNCHANGED table
    BY DEF Tcp!table, table
  <2> QED BY <2>1, <2>2, <2>3 DEF Tcp!ServerData
<1>6. TableStep
  <2>1. CASE f.id \in pending \cap Pushes /\ Replied(f.id, Pushes, TRUE) /\ UNCHANGED <<running, served>>
    <3>1. Waiting(f.id)
      BY <2>1 DEF TcpOK, TcpSends
    <3>2. Answerable(f.id, Pushes, TRUE)
      BY <1>4, <2>1, <3>1 DEF Answerable, Waiting
    <3> QED BY <1>4, <2>1, <3>2 DEF TableStep, Moves
  <2> QED BY <1>4, <1>5, <2>1 DEF TableStep
<1>7. TableOK' /\ Onward
  BY <1>6, TableKept
<1>8. TcpSends'
  <2>1. CASE f.id \in pending \cap Pushes /\ Replied(f.id, Pushes, TRUE) /\ UNCHANGED <<running, served>>
    BY <1>1, <1>4, <1>7, <2>1, TcpSendsKept DEF TcpOK
  <2>2. CASE UNCHANGED table
    BY <1>1, <1>7, <2>2, TcpSendsKept DEF TcpOK
  <2> QED BY <1>5, <2>1, <2>2
<1>9. TcpWires'
  <2>1. up' \in [Conns -> Seq(UpFrames')]
    BY <1>1, <1>2, <1>7, FramesKept, WireTake
  <2>2. down' \in [Conns -> Seq(DownFrames')]
    BY <1>1, <1>7, FramesKept DEF TcpOK, TcpWires
  <2>3. running' \subseteq Handlings'
    <3>1. <<f.id, c>> \in Handlings
      BY <1>4 DEF Handlings
    <3>2. running' \subseteq Handlings
      BY <1>2, <1>5, <3>1
    <3> QED BY <1>7, <3>2, FramesKept
  <2> QED BY <2>1, <2>2, <2>3 DEF TcpWires
<1> QED BY <1>6, <1>8, <1>9 DEF TcpOK


\* A handler is through, or the peer of a server's request: one reply goes out.
LEMMA TcpRuns ==
    ASSUME TableOK, TcpOK, UNCHANGED <<table, isConnected>>, NEW c \in Conns, NEW r \in Messages,
           NEW f \in Frames, f.reply, f.id = r, req[r] # "idle", Ran(r),
           \/ /\ running' \subseteq running /\ UNCHANGED up
              /\ down' = Tcp!Put(down, c, f)
           \/ /\ down[c] # <<>> /\ down' = [down EXCEPT ![c] = Tail(@)] /\ UNCHANGED running
              /\ up' = Tcp!Put(up, c, f)
    PROVE  TableStep /\ TcpOK'
<1>1. TableStep
  BY DEF TableStep
<1>2. TableOK' /\ Onward
  BY <1>1, TableKept
<1>3. TcpSends'
  BY DEF table, TcpOK, TcpSends, Waiting
<1>4. req'[r] # "idle" /\ served'[r] > 0
  BY DEF Ran, TableOK, table
<1>5. f \in UpFrames' /\ f \in DownFrames'
  BY <1>4 DEF UpFrames, DownFrames
<1>6. /\ up \in [Conns -> Seq(UpFrames)] /\ down \in [Conns -> Seq(DownFrames)]
      /\ running \subseteq Handlings'
      /\ UpFrames \subseteq UpFrames' /\ DownFrames \subseteq DownFrames'
  BY <1>2, FramesKept DEF TcpOK, TcpWires
<1>7. Tcp!Put(up, c, f) \in [Conns -> Seq(UpFrames')] /\ Tcp!Put(down, c, f) \in [Conns -> Seq(DownFrames')]
  BY <1>5, <1>6, WirePut
<1>8. down[c] # <<>> => [down EXCEPT ![c] = Tail(@)] \in [Conns -> Seq(DownFrames')]
  BY <1>6, WireTake
<1>9. UNCHANGED up => up' \in [Conns -> Seq(UpFrames')]
  BY <1>2, FramesKept DEF TcpOK, TcpWires
<1>10. TcpWires'
  BY <1>6, <1>7, <1>8, <1>9 DEF TcpWires
<1> QED BY <1>1, <1>3, <1>10 DEF TcpOK

\* TcpClient takes a frame.
LEMMA TcpClientData ==
    ASSUME RequestTableAssumption, TableOK, TcpOK, NEW c \in Conns, Tcp!Data(c)
    PROVE  TableStep /\ TcpOK'
<1> DEFINE f == Head(down[c])
<1>1. /\ down[c] # <<>> /\ down' = [down EXCEPT ![c] = Tail(@)]
      /\ UNCHANGED <<isConnected, up, running, served>>
  BY DEF Tcp!Data
<1>2. down \in [Conns -> Seq(DownFrames)] /\ running \subseteq Handlings
  BY DEF TcpOK, TcpWires
<1>3. f \in DownFrames
  BY <1>1, <1>2, WireTake
<1>4. f.id \in Messages /\ req[f.id] # "idle" /\ (f.reply => served[f.id] > 0) /\ f.ok \in BOOLEAN
  BY <1>3 DEF DownFrames, Frames
<1>5. (f.reply /\ Replied(f.id, Sends, f.ok)) \/ UNCHANGED table
  <2>1. Tcp!Replied(f.id, Sends, f.ok) <=> Replied(f.id, Sends, f.ok)
    BY TcpTable
  <2>2. UNCHANGED Tcp!table <=> UNCHANGED table
    BY DEF Tcp!table, table
  <2> QED BY <2>1, <2>2 DEF Tcp!Data
<1>6. TableStep
  <2>1. CASE f.reply /\ Replied(f.id, Sends, f.ok)
    <3>1. Answerable(f.id, Sends, f.ok)
      BY <1>4, <2>1 DEF Answerable, Waiting, TcpOK, TcpSends
    <3> QED BY <1>1, <1>4, <2>1, <3>1 DEF TableStep, Moves
  <2> QED BY <1>1, <1>5, <2>1 DEF TableStep
<1>7. TableOK' /\ Onward
  BY <1>6, TableKept
<1>8. TcpSends'
  BY <1>1, <1>4, <1>5, <1>7, TcpSendsKept DEF TcpOK
<1>9. TcpWires'
  <2>1. down' \in [Conns -> Seq(DownFrames')]
    BY <1>1, <1>2, <1>7, FramesKept, WireTake
  <2>2. up' \in [Conns -> Seq(UpFrames')]
    BY <1>1, <1>7, FramesKept DEF TcpOK, TcpWires
  <2>3. running' \subseteq Handlings'
    BY <1>1, <1>2, <1>7, FramesKept
  <2> QED BY <2>1, <2>2, <2>3 DEF TcpWires
<1> QED BY <1>6, <1>8, <1>9 DEF TcpOK

\* A timer, or a request that is refused.
LEMMA TcpSettles ==
    ASSUME RequestTableAssumption, TableOK, TcpOK, NEW r \in Calls, Refused(r) \/ TimedOut(r),
           UNCHANGED <<up, down, running, served, isConnected>>
    PROVE  TableStep /\ TcpOK'
<1>1. TableStep
  BY DEF TableStep, Moves
<1>2. TableOK' /\ Onward
  BY <1>1, TableKept
<1>3. TcpSends'
  BY <1>2, TcpSendsKept DEF TcpOK
<1>4. TcpWires'
  BY <1>2, FramesKept DEF TcpOK, TcpWires
<1> QED BY <1>1, <1>3, <1>4 DEF TcpOK

LEMMA TcpStep ==
    ASSUME RequestTableAssumption, TableOK, TcpOK, Tcp!Next
    PROVE  TableStep /\ TcpOK'
<1> USE TcpTable
<1>t. /\ UNCHANGED Tcp!table <=> UNCHANGED table
      /\ Calls \subseteq Messages /\ Emits \subseteq Messages /\ Pushes \subseteq Calls /\ Sends \subseteq Calls
      /\ Sends \cap Pushes = {} /\ Emits \cap Pushes = {}
  BY DEF Tcp!table, table, RequestTableAssumption, Messages, Calls
<1>f. \A r \in Messages, reply, ok \in BOOLEAN : Tcp!Frame(r, reply, ok) \in Frames
  BY DEF Tcp!Frame, Frames
<1>1. ASSUME NEW c, NEW outcome,
             \/ Tcp!Listen \/ Tcp!ListenSettles(outcome) \/ Tcp!Accept(c) \/ Tcp!ServerSocketClosed(c)
             \/ Tcp!Connect(c) \/ Tcp!Connected(c) \/ Tcp!Chunk(c) \/ Tcp!Break(c)
      PROVE  TableStep /\ TcpOK'
  <2>1. UNCHANGED <<up, down, running, served>> /\ UNCHANGED Tcp!table
    BY <1>1 DEF Tcp!Listen, Tcp!Accept, Tcp!ServerSocketClosed, Tcp!Connect, Tcp!Connected,
                Tcp!Chunk, Tcp!Break, Tcp!ListenSettles
  <2>2. isConnected => isConnected'
    BY <1>1 DEF Tcp!Listen, Tcp!Accept, Tcp!ServerSocketClosed, Tcp!Connect, Tcp!Connected,
                Tcp!Chunk, Tcp!Break, Tcp!ListenSettles
  <2> QED BY <2>1, <2>2, <1>t, TcpQuiet
<1>2. ASSUME \/ Tcp!CloseServer \/ Tcp!CloseClient
             \/ \E c \in Conns : Tcp!ConnectFails(c) \/ Tcp!SocketError(c) \/ Tcp!SocketClosed(c)
      PROVE  TableStep /\ TcpOK'
  <2>1. /\ UNCHANGED <<up, down, running, served>>
        /\ RejectPending(Sends) \/ (Forgotten(Pushes) /\ isConnected' = isConnected)
    BY <1>2 DEF Tcp!CloseServer, Tcp!CloseClient, Tcp!ConnectFails, Tcp!SocketError, Tcp!SocketClosed,
                Tcp!RejectsOnClose
  <2> QED BY <2>1, TcpRejects
<1>3. ASSUME NEW c \in Conns, Tcp!ServerData(c) PROVE TableStep /\ TcpOK'
  BY <1>3, TcpServerData
<1>4. ASSUME NEW c \in Conns, Tcp!Data(c) PROVE TableStep /\ TcpOK'
  BY <1>4, TcpClientData
<1>5. ASSUME NEW r \in Messages, NEW c \in Conns, NEW ok \in BOOLEAN, Tcp!HandlerDone(r, c, ok)
      PROVE  TableStep /\ TcpOK'
  <2>1. Ran(r) /\ UNCHANGED <<table, isConnected, up>> /\ running' \subseteq running
    BY <1>5, <1>t DEF Tcp!HandlerDone
  <2>2. down' = Tcp!Put(down, c, Tcp!Frame(r, TRUE, ok)) /\ <<r, c>> \in running
    BY <1>5 DEF Tcp!HandlerDone
  <2>3. req[r] # "idle"
    BY <2>2 DEF TcpOK, TcpWires, Handlings
  <2>4. PICK f : f = Tcp!Frame(r, TRUE, ok)
    OBVIOUS
  <2>5. f \in Frames /\ f.reply /\ f.id = r
    BY <2>4, <1>f DEF Tcp!Frame
  <2> QED BY <2>1, <2>2, <2>3, <2>4, <2>5, TcpRuns
<1>6. ASSUME NEW c \in Conns, Tcp!PeerAnswers(c) PROVE TableStep /\ TcpOK'
  <2>1. PICK r : r = Head(down[c]).id
    OBVIOUS
  <2>2. /\ down[c] # <<>> /\ down' = [down EXCEPT ![c] = Tail(@)]
        /\ up' = Tcp!Put(up, c, Tcp!Frame(r, TRUE, TRUE)) /\ UNCHANGED <<isConnected, running>>
    BY <1>6, <2>1 DEF Tcp!PeerAnswers
  <2>3. Ran(r) /\ UNCHANGED table
    BY <1>6, <1>t, <2>1 DEF Tcp!PeerAnswers
  <2>4. Head(down[c]) \in DownFrames
    BY <2>2, WireTake DEF TcpOK, TcpWires
  <2>5. r \in Messages /\ req[r] # "idle"
    BY <2>1, <2>4 DEF DownFrames, Frames
  <2>6. PICK f : f = Tcp!Frame(r, TRUE, TRUE)
    OBVIOUS
  <2>7. f \in Frames /\ f.reply /\ f.id = r
    BY <2>5, <2>6, <1>f DEF Tcp!Frame
  <2> QED BY <2>2, <2>3, <2>5, <2>6, <2>7, TcpRuns
<1>7. ASSUME NEW r \in Messages, Tcp!Push(r) PROVE TableStep /\ TcpOK'
  <2>1. /\ r \in Pushes /\ UNCHANGED <<up, running, served, isConnected>>
        /\ \/ Refused(r) /\ UNCHANGED down
           \/ Entered(r) /\ down' = Tcp!Put(down, Tcp!Lowest(sockets), Tcp!Frame(r, FALSE, TRUE))
    BY <1>7 DEF Tcp!Push
  <2>2. CASE Refused(r) /\ UNCHANGED down
    BY <1>t, <2>1, <2>2, TcpSettles
  <2>3. CASE Entered(r) /\ down' = Tcp!Put(down, Tcp!Lowest(sockets), Tcp!Frame(r, FALSE, TRUE))
    <3>1. PICK f : f = Tcp!Frame(r, FALSE, TRUE)
      OBVIOUS
    <3>2. f \in Frames /\ ~f.reply /\ f.id = r
      BY <3>1, <1>f DEF Tcp!Frame
    <3> QED BY <1>t, <2>1, <2>3, <3>1, <3>2, TcpSendStep
  <2> QED BY <2>1, <2>2, <2>3
<1>8. ASSUME NEW r \in Messages, Tcp!Send(r) \/ Tcp!Emit(r) PROVE TableStep /\ TcpOK'
  <2>1. /\ UNCHANGED <<down, running, served, isConnected>>
        /\ \/ r \in Calls /\ Refused(r) /\ UNCHANGED up
           \/ /\ (r \in Sends /\ isConnected /\ Entered(r)) \/ (r \in Emits /\ Sent(r))
              /\ \E c \in Tcp!Current : up' = Tcp!Put(up, c, Tcp!Frame(r, FALSE, TRUE))
    <3>1. CASE Tcp!Send(r)
      BY <3>1, <1>t DEF Tcp!Send
    <3>2. CASE Tcp!Emit(r)
      BY <3>2, <1>t DEF Tcp!Emit
    <3> QED BY <1>8, <3>1, <3>2
  <2>2. CASE r \in Calls /\ Refused(r) /\ UNCHANGED up
    BY <2>1, <2>2, TcpSettles
  <2>3. ASSUME NEW c \in Tcp!Current, up' = Tcp!Put(up, c, Tcp!Frame(r, FALSE, TRUE)),
               (r \in Sends /\ isConnected /\ Entered(r)) \/ (r \in Emits /\ Sent(r))
        PROVE  TableStep /\ TcpOK'
    <3>1. PICK f : f = Tcp!Frame(r, FALSE, TRUE)
      OBVIOUS
    <3>2. f \in Frames /\ ~f.reply /\ f.id = r
      BY <3>1, <1>f DEF Tcp!Frame
    <3>3. r \notin Pushes
      BY <1>t, <2>3
    <3> QED BY <1>t, <2>1, <2>3, <3>1, <3>2, <3>3, TcpSendStep
  <2> QED BY <2>1, <2>2, <2>3
<1>9. ASSUME NEW r \in Calls, Tcp!Timeout(r) PROVE TableStep /\ TcpOK'
  BY <1>9, TcpSettles DEF Tcp!Timeout, Tcp!tcpVars
<1> QED BY <1>1, <1>2, <1>3, <1>4, <1>5, <1>6, <1>7, <1>8, <1>9 DEF Tcp!Next, Tcp!Progress


-----------------------------------------------------------------------------
(***************************************************************************)
(* Redis: what is published belongs to messages that were sent, replies to *)
(* messages that were served; the client only subscribes to reply          *)
(* channels; and the server counts the waiters of each reply channel.      *)
(***************************************************************************)
Channels == Redis!Patterns \X {"request", "reply"}
ReplyChannels == Redis!Patterns \X {"reply"}
Commands == [op : {"subscribe", "unsubscribe"}, channel : Channels]
ReplyCommands == [op : {"subscribe", "unsubscribe"}, channel : ReplyChannels]

Notes == {m \in [channel : Channels, id : Messages, ok : BOOLEAN] :
            /\ req[m.id] # "idle"
            /\ m.channel = Redis!Request(m.id) \/ m.channel = Redis!Reply(Pattern[m.id])
            /\ m.channel = Redis!Reply(Pattern[m.id]) => served[m.id] > 0}
ReplyNotes == {m \in Notes : m.channel \in ReplyChannels}
Known == {r \in Messages : req[r] # "idle"}

RedisMail ==
    /\ bus \subseteq Notes /\ handling \subseteq Known
    /\ inbox \in [Redis!Sides -> SUBSET Notes] /\ inbox["client"] \subseteq ReplyNotes

RedisSubs ==
    /\ pipe \in [Redis!Sides -> Seq(Commands)] /\ pipe["client"] \in Seq(ReplyCommands)
    /\ subs \in [Redis!Sides -> SUBSET Channels] /\ subs["client"] \subseteq ReplyChannels

Waiters(p) == {r \in pending \cap Pushes : Pattern[r] = p}

\* What Subscribed says of a command queue s and the channels S Redis holds.
Told(s, S, ch) ==
    IF \A k \in DOMAIN s : s[k].channel # ch THEN ch \in S
    ELSE \E k \in DOMAIN s : /\ s[k].channel = ch /\ s[k].op = "subscribe"
                             /\ \A j \in DOMAIN s : s[j].channel = ch => j <= k

\* Before listen() and until close(), reply channels are held for the waiters.
RedisRefs ==
    /\ refs \in [Redis!Patterns -> Nat]
    /\ \A r \in pending : Waiting(r)
    /\ redisServer # "closed" => timers \cap Pushes \subseteq pending
    /\ redisServer # "closed" =>
          \A p \in Redis!Patterns :
              /\ refs[p] = Cardinality(Waiters(p))
              /\ Told(pipe["server"], subs["server"], Redis!Reply(p)) <=> refs[p] > 0

RedisOK == RedisMail /\ RedisSubs /\ RedisRefs

LEMMA RedisTable ==
    /\ \A r : /\ Redis!Entered(r) <=> Entered(r)
              /\ Redis!Refused(r) <=> Refused(r)
              /\ Redis!Sent(r) <=> Sent(r)
              /\ Redis!TimedOut(r) <=> TimedOut(r)
              /\ Redis!Ran(r) <=> Ran(r)
    /\ \A id, mine, ok : Redis!Replied(id, mine, ok) <=> Replied(id, mine, ok)
    /\ \A mine : Redis!Forgotten(mine) <=> Forgotten(mine)
    /\ Redis!Messages = Messages /\ Redis!Calls = Calls
    /\ UNCHANGED Redis!table <=> UNCHANGED table
<1>1. Redis!Messages = Messages /\ Redis!Calls = Calls /\ (UNCHANGED Redis!table <=> UNCHANGED table)
  BY DEF Redis!Messages, Messages, Redis!Calls, Calls, Redis!table, table
<1>2. \A r : Redis!First(r) <=> First(r)
  <2>1. \A S : Redis!Cardinality(S) = Cardinality(S)
    BY DEF Redis!Cardinality, Cardinality
  <2> QED BY <1>1, <2>1 DEF Redis!First, First
<1>3. \A S, outcome, by : Redis!Settled(S, outcome, by) <=> Settled(S, outcome, by)
  BY <1>1 DEF Redis!Settled, Settled
<1>4. \A id, mine : Redis!Matching(id, mine) = Matching(id, mine)
  BY DEF Redis!Matching, Matching
<1>5. \A r : /\ Redis!Entered(r) <=> Entered(r)
             /\ Redis!Refused(r) <=> Refused(r)
             /\ Redis!Sent(r) <=> Sent(r)
  BY <1>2 DEF Redis!Entered, Entered, Redis!Refused, Refused, Redis!Sent, Sent
<1>6. \A r : (Redis!TimedOut(r) <=> TimedOut(r)) /\ (Redis!Ran(r) <=> Ran(r))
  BY <1>3 DEF Redis!TimedOut, TimedOut, Redis!Ran, Ran
<1>7. \A id, mine, ok : Redis!Replied(id, mine, ok) <=> Replied(id, mine, ok)
  BY <1>3, <1>4 DEF Redis!Replied, Replied
<1>8. \A mine : Redis!Forgotten(mine) <=> Forgotten(mine)
  BY DEF Redis!Forgotten, Forgotten
<1> QED BY <1>1, <1>5, <1>6, <1>7, <1>8

\* The commands of an (un)subscribe queue: one appended, several of other
\* channels appended, and the first one done.
LEMMA ToldAppend ==
    ASSUME NEW s \in Seq(Commands), NEW c \in Commands, NEW S, NEW ch
    PROVE  /\ s \o <<c>> \in Seq(Commands)
           /\ Told(s \o <<c>>, S, ch) <=> IF c.channel = ch THEN c.op = "subscribe" ELSE Told(s, S, ch)
<1>1. PICK n \in Nat : n = Len(s) /\ DOMAIN s = 1 .. n
  OBVIOUS
<1>2. PICK t : t = Append(s, c) /\ t = s \o <<c>>
  BY AppendIsConcat
<1>3. t \in Seq(Commands) /\ DOMAIN t = 1 .. n + 1 /\ t[n + 1] = c /\ \A i \in 1 .. n : t[i] = s[i]
  BY <1>1, <1>2, AppendProperties, LenProperties
<1>4. Told(t, S, ch) <=> IF c.channel = ch THEN c.op = "subscribe" ELSE Told(s, S, ch)
  <2>1. CASE c.channel = ch
    BY <1>1, <1>3, <2>1 DEF Told
  <2>2. CASE c.channel # ch
    <3>1. (\A k \in DOMAIN t : t[k].channel # ch) <=> \A k \in DOMAIN s : s[k].channel # ch
      BY <1>1, <1>3, <2>2
    <3>2. ASSUME NEW k
          PROVE  /\ k \in DOMAIN t /\ t[k].channel = ch <=> k \in DOMAIN s /\ s[k].channel = ch
                 /\ k \in DOMAIN s => t[k] = s[k]
      BY <1>1, <1>3, <2>2
    <3> QED BY <2>2, <3>1, <3>2 DEF Told
  <2> QED BY <2>1, <2>2
<1> QED BY <1>2, <1>3, <1>4

LEMMA ToldOthers ==
    ASSUME NEW s \in Seq(Commands), NEW t \in Seq(Commands), NEW S, NEW ch,
           \A i \in DOMAIN t : t[i].channel # ch
    PROVE  Told(s \o t, S, ch) <=> Told(s, S, ch)
<1>1. PICK n \in Nat, m \in Nat : n = Len(s) /\ m = Len(t) /\ DOMAIN s = 1 .. n /\ DOMAIN t = 1 .. m
  OBVIOUS
<1>2. PICK u : u = s \o t
  OBVIOUS
<1>3. /\ DOMAIN u = 1 .. n + m /\ \A i \in 1 .. n : u[i] = s[i]
      /\ \A i \in 1 .. n + m : i > n => i - n \in 1 .. m /\ u[i] = t[i - n]
  BY <1>1, <1>2, ConcatProperties, LenProperties
<1>4. ASSUME NEW k
      PROVE  /\ k \in DOMAIN u /\ u[k].channel = ch <=> k \in DOMAIN s /\ s[k].channel = ch
             /\ k \in DOMAIN s => u[k] = s[k]
  <2>1. k \in DOMAIN s => k \in DOMAIN u /\ u[k] = s[k]
    BY <1>1, <1>3
  <2>2. k \in DOMAIN u /\ k \notin DOMAIN s => k - n \in DOMAIN t /\ u[k] = t[k - n]
    BY <1>1, <1>3
  <2> QED BY <2>1, <2>2
<1> QED BY <1>2, <1>4 DEF Told

LEMMA ToldDone ==
    ASSUME NEW s \in Seq(Commands), s # <<>>, NEW S, NEW ch, NEW T,
           T = IF Head(s).op = "subscribe" THEN S \cup {Head(s).channel} ELSE S \ {Head(s).channel}
    PROVE  Told(Tail(s), T, ch) <=> Told(s, S, ch)
<1>1. PICK n \in Nat : n = Len(s) /\ DOMAIN s = 1 .. n /\ n > 0
  OBVIOUS
<1>2. PICK t : t = Tail(s)
  OBVIOUS
<1>3. DOMAIN t = 1 .. n - 1 /\ \A i \in 1 .. n - 1 : t[i] = s[i + 1]
  BY <1>1, <1>2, HeadTailProperties, LenProperties
<1>4. PICK c \in Commands : c = s[1] /\ c = Head(s)
  BY <1>1
<1>5. \A i \in 1 .. n : i = 1 \/ (i - 1 \in 1 .. n - 1 /\ s[i] = t[i - 1])
  BY <1>1, <1>3
<1>6. CASE \E k \in DOMAIN t : t[k].channel = ch
  <2>1. \E k \in DOMAIN s : s[k].channel = ch
    BY <1>1, <1>3, <1>6
  <2>2. ASSUME Told(t, T, ch) PROVE Told(s, S, ch)
    <3>1. PICK k \in DOMAIN t : /\ t[k].channel = ch /\ t[k].op = "subscribe"
                                /\ \A j \in DOMAIN t : t[j].channel = ch => j <= k
      BY <1>6, <2>2 DEF Told
    <3>2. k + 1 \in DOMAIN s /\ s[k + 1] = t[k]
      BY <1>1, <1>3
    <3>3. ASSUME NEW j \in DOMAIN s, s[j].channel = ch PROVE j <= k + 1
      <4>1. j = 1 \/ (j - 1 \in DOMAIN t /\ t[j - 1].channel = ch)
        BY <1>1, <1>3, <1>5, <3>3
      <4>2. k \in 1 .. n - 1 /\ (j = 1 \/ j - 1 <= k)
        BY <1>3, <3>1, <4>1
      <4> QED BY <1>1, <4>2
    <3> QED BY <2>1, <3>1, <3>2, <3>3 DEF Told
  <2>3. ASSUME Told(s, S, ch) PROVE Told(t, T, ch)
    <3>1. PICK k \in DOMAIN s : /\ s[k].channel = ch /\ s[k].op = "subscribe"
                                /\ \A j \in DOMAIN s : s[j].channel = ch => j <= k
      BY <2>1, <2>3 DEF Told
    <3>2. PICK i \in DOMAIN t : t[i].channel = ch
      BY <1>6
    <3>3. k # 1
      BY <1>1, <1>3, <3>1, <3>2
    <3>4. k - 1 \in DOMAIN t /\ t[k - 1] = s[k]
      BY <1>1, <1>3, <1>5, <3>3
    <3>5. ASSUME NEW j \in DOMAIN t, t[j].channel = ch PROVE j <= k - 1
      <4>1. j \in 1 .. n - 1 /\ k \in 1 .. n /\ j + 1 \in DOMAIN s /\ s[j + 1].channel = ch
        BY <1>1, <1>3, <3>5
      <4>2. j + 1 <= k
        BY <3>1, <4>1
      <4> QED BY <4>1, <4>2
    <3> QED BY <1>6, <3>1, <3>4, <3>5 DEF Told
  <2> QED BY <1>2, <2>2, <2>3
<1>7. CASE \A k \in DOMAIN t : t[k].channel # ch
  <2>1. Told(t, T, ch) <=> ch \in T
    BY <1>7 DEF Told
  <2>2. \A k \in DOMAIN s : s[k].channel = ch => k = 1
    BY <1>1, <1>3, <1>5, <1>7
  <2>3. Told(s, S, ch) <=> IF c.channel = ch THEN c.op = "subscribe" ELSE ch \in S
    BY <1>1, <1>4, <2>2 DEF Told
  <2> QED BY <1>2, <1>4, <2>1, <2>3
<1> QED BY <1>6, <1>7


LEMMA RedisNames ==
    /\ \A r \in Messages : Pattern[r] \in Redis!Patterns /\ Redis!Request(r) \in Channels
    /\ \A p \in Redis!Patterns : Redis!Reply(p) \in ReplyChannels
    /\ ReplyChannels \subseteq Channels /\ ReplyCommands \subseteq Commands
    /\ Seq(ReplyCommands) \subseteq Seq(Commands)
    /\ \A p, q : <<p, "request">> # Redis!Reply(q)
    /\ \A p, q : Redis!Reply(p) = Redis!Reply(q) => p = q
    /\ \A p \in Redis!Patterns, op \in {"subscribe", "unsubscribe"} :
          LET c == Redis!Command(op, Redis!Reply(p))
          IN  c \in ReplyCommands /\ c \in Commands /\ c.op = op /\ c.channel = Redis!Reply(p)
<1>1. \A r \in Messages : Pattern[r] \in Redis!Patterns
  BY DEF Redis!Patterns, Redis!Messages, Redis!Calls, Messages, Calls
<1>2. \A p \in Redis!Patterns : Redis!Reply(p) \in ReplyChannels
  BY DEF ReplyChannels, Redis!Reply
<1>3. \A r \in Messages : Redis!Request(r) \in Channels
  BY <1>1 DEF Channels, Redis!Request
<1>4. ReplyChannels \subseteq Channels /\ ReplyCommands \subseteq Commands
  BY DEF ReplyChannels, Channels, ReplyCommands, Commands
<1>5. Seq(ReplyCommands) \subseteq Seq(Commands)
  BY <1>4
<1>6. /\ \A p, q : <<p, "request">> # Redis!Reply(q)
      /\ \A p, q : Redis!Reply(p) = Redis!Reply(q) => p = q
  BY DEF Redis!Reply
<1>7. ASSUME NEW p \in Redis!Patterns, NEW op \in {"subscribe", "unsubscribe"}
      PROVE  LET c == Redis!Command(op, Redis!Reply(p))
             IN  c \in ReplyCommands /\ c \in Commands /\ c.op = op /\ c.channel = Redis!Reply(p)
  BY <1>2, <1>4 DEF Redis!Command, ReplyCommands
<1> QED BY <1>1, <1>2, <1>3, <1>4, <1>5, <1>6, <1>7

\* Requests that enter the map wait, and those that stay in it go on waiting.
LEMMA PendingWait ==
    ASSUME TableOK, TableStep, \A r \in pending : Waiting(r),
           \A r \in pending' \ pending : req'[r] = "waiting"
    PROVE  \A r \in pending' : req'[r] = "waiting"
<1>1. Onward /\ Calls \subseteq Messages
  BY TableKept DEF Messages
<1>2. pending' \subseteq Calls
  BY TableKept DEF TableOK
<1> QED BY <1>1, <1>2 DEF Onward, Waiting, TableOK

LEMMA RedisMailKept ==
    ASSUME RedisMail, Onward, bus' \subseteq bus \cup Notes', handling' \subseteq handling \cup Known',
           inbox' \in [Redis!Sides -> SUBSET Notes], inbox'["client"] \subseteq ReplyNotes
    PROVE  RedisMail'
<1>1. Notes \subseteq Notes' /\ Known \subseteq Known'
  BY DEF Notes, Known, Onward
<1>2. ReplyNotes \subseteq ReplyNotes'
  BY <1>1 DEF ReplyNotes
<1> QED BY <1>1, <1>2 DEF RedisMail

\* Messages that are read leave the inbox.
LEMMA RedisMailRead ==
    ASSUME RedisMail, NEW side, NEW m, inbox' = [inbox EXCEPT ![side] = @ \ {m}]
    PROVE  inbox' \in [Redis!Sides -> SUBSET Notes] /\ inbox'["client"] \subseteq ReplyNotes
BY DEF RedisMail, Redis!Sides

LEMMA RedisIssued ==
    ASSUME RedisSubs, NEW side \in Redis!Sides, NEW cs \in Seq(Commands), Redis!Issue(side, cs),
           side = "client" => cs \in Seq(ReplyCommands), UNCHANGED subs
    PROVE  /\ RedisSubs' /\ pipe'[side] = pipe[side] \o cs
           /\ \A other \in Redis!Sides : other # side => pipe'[other] = pipe[other]
<1>1. pipe' = [pipe EXCEPT ![side] = pipe[side] \o cs]
  BY DEF Redis!Issue
<1>2. pipe[side] \o cs \in Seq(Commands)
  BY ConcatProperties DEF RedisSubs
<1>3. side = "client" => pipe[side] \o cs \in Seq(ReplyCommands)
  BY ConcatProperties DEF RedisSubs
<1>4. pipe' \in [Redis!Sides -> Seq(Commands)]
  BY <1>1, <1>2 DEF RedisSubs
<1>5. /\ pipe'[side] = pipe[side] \o cs
      /\ \A other \in Redis!Sides : other # side => pipe'[other] = pipe[other]
  BY <1>1 DEF RedisSubs
<1>6. pipe'["client"] \in Seq(ReplyCommands)
  BY <1>3, <1>5 DEF RedisSubs, Redis!Sides
<1> QED BY <1>4, <1>5, <1>6 DEF RedisSubs

LEMMA RedisIssuedNothing ==
    ASSUME RedisSubs, NEW side \in Redis!Sides, Redis!Issue(side, <<>>)
    PROVE  pipe' = pipe
<1>1. pipe[side] \o <<>> = pipe[side]
  BY ConcatEmptySeq DEF RedisSubs
<1> QED BY <1>1 DEF Redis!Issue, RedisSubs

\* Nothing happens to the requests of the server.
LEMMA RedisRefsKept ==
    ASSUME RedisRefs, \A r \in pending' : req'[r] = "waiting",
           pending' \cap Pushes = pending \cap Pushes, timers' \cap Pushes = timers \cap Pushes,
           refs' = refs, redisServer = "closed" => redisServer' = "closed",
           redisServer' # "closed" =>
              \A p \in Redis!Patterns : Told(pipe'["server"], subs'["server"], Redis!Reply(p))
                                        <=> Told(pipe["server"], subs["server"], Redis!Reply(p))
    PROVE  RedisRefs'
<1>1. \A p : Waiters(p)' = Waiters(p)
  BY DEF Waiters
<1>2. redisServer' # "closed" => timers' \cap Pushes \subseteq pending'
  BY DEF RedisRefs
<1> QED BY <1>1, <1>2 DEF RedisRefs, Waiting

LEMMA WaitersFinite ==
    ASSUME RequestTableAssumption, TableOK, NEW p
    PROVE  IsFiniteSet(Waiters(p))
<1>1. IsFiniteSet(Messages) /\ Waiters(p) \subseteq Messages
  BY DEF RequestTableAssumption, Waiters, TableOK, Messages
<1> QED BY <1>1, FS_Subset

\* One more request of the server waits on a reply channel.
LEMMA RedisAcquires ==
    ASSUME RequestTableAssumption, TableOK, RedisSubs, RedisRefs, NEW r \in Pushes, Entered(r),
           redisServer # "closed", UNCHANGED <<redisServer, subs>>, Redis!Acquired(Pattern[r]),
           \A q \in pending' : req'[q] = "waiting"
    PROVE  RedisSubs' /\ RedisRefs'
<1> DEFINE p == Pattern[r]
<1>1. r \in Messages /\ p \in Redis!Patterns
  BY RedisNames DEF Messages, Calls
<1>2. PICK c : c = Redis!Command("subscribe", Redis!Reply(p))
  OBVIOUS
<1>3. c \in Commands /\ c.op = "subscribe" /\ c.channel = Redis!Reply(p)
  BY <1>1, <1>2, RedisNames
<1>4. refs' = [refs EXCEPT ![p] = @ + 1] /\ refs \in [Redis!Patterns -> Nat]
  BY DEF Redis!Acquired, RedisRefs
<1>5. Redis!Issue("server", IF refs[p] = 0 THEN <<c>> ELSE <<>>)
  BY <1>2 DEF Redis!Acquired
<1>6. RedisSubs' /\ \A q \in Redis!Patterns :
          Told(pipe'["server"], subs'["server"], Redis!Reply(q))
              <=> q = p \/ Told(pipe["server"], subs["server"], Redis!Reply(q))
  <2>1. CASE refs[p] = 0
    <3>1. <<c>> \in Seq(Commands) /\ "server" \in Redis!Sides
      BY <1>3 DEF Redis!Sides
    <3>2. RedisSubs' /\ pipe'["server"] = pipe["server"] \o <<c>> /\ pipe["server"] \in Seq(Commands)
      BY <1>5, <2>1, <3>1, RedisIssued DEF RedisSubs
    <3>3. ASSUME NEW q \in Redis!Patterns
          PROVE  Told(pipe'["server"], subs'["server"], Redis!Reply(q))
                    <=> q = p \/ Told(pipe["server"], subs["server"], Redis!Reply(q))
      BY <1>3, <3>2, ToldAppend, RedisNames
    <3> QED BY <3>2, <3>3
  <2>2. CASE refs[p] # 0
    <3>1. pipe' = pipe
      BY <1>5, <2>2, RedisIssuedNothing DEF Redis!Sides
    <3>2. RedisSubs'
      BY <3>1 DEF RedisSubs
    <3>3. Told(pipe["server"], subs["server"], Redis!Reply(p))
      BY <1>1, <1>4, <2>2 DEF RedisRefs
    <3> QED BY <3>1, <3>2, <3>3
  <2> QED BY <2>1, <2>2
<1>7. r \notin pending /\ pending' = pending \cup {r} /\ timers' = timers \cup {r}
  BY DEF Entered, First, TableOK
<1>8. Cardinality(Waiters(p)') = Cardinality(Waiters(p)) + 1
  <2>1. Waiters(p)' = Waiters(p) \cup {r} /\ r \notin Waiters(p)
    BY <1>7 DEF Waiters
  <2> QED BY <2>1, WaitersFinite, FS_AddElement
<1>9. \A q : q # p => Waiters(q)' = Waiters(q)
  BY <1>7 DEF Waiters
<1>10. \A q \in Redis!Patterns : refs'[q] = Cardinality(Waiters(q)')
  BY <1>1, <1>4, <1>8, <1>9 DEF RedisRefs
<1>11. refs' \in [Redis!Patterns -> Nat] /\ refs'[p] > 0 /\ \A q \in Redis!Patterns : q # p => refs'[q] = refs[q]
  BY <1>1, <1>4
<1>12. timers' \cap Pushes \subseteq pending'
  BY <1>7 DEF RedisRefs
<1>13. \A q \in Redis!Patterns : Told(pipe'["server"], subs'["server"], Redis!Reply(q)) <=> refs'[q] > 0
  <2> HIDE DEF p
  <2> QED BY <1>6, <1>11 DEF RedisRefs
<1> QED BY <1>6, <1>10, <1>11, <1>12, <1>13 DEF RedisRefs, Waiting


\* A request of the server that waited no longer does: with the last one on its
\* channel the subscription goes.
LEMMA RedisReleases ==
    ASSUME RequestTableAssumption, TableOK, RedisSubs, RedisRefs, NEW r \in Pushes,
           redisServer # "closed" => r \in pending,
           pending' = pending \ {r}, timers' = timers \ {r},
           UNCHANGED <<redisServer, subs>>, Redis!Released(Pattern[r]),
           \A q \in pending' : req'[q] = "waiting"
    PROVE  RedisSubs' /\ RedisRefs'
<1> DEFINE p == Pattern[r]
<1>1. r \in Messages /\ p \in Redis!Patterns
  BY RedisNames DEF Messages, Calls
<1>2. PICK c : c = Redis!Command("unsubscribe", Redis!Reply(p))
  OBVIOUS
<1>3. c \in Commands /\ c.op # "subscribe" /\ c.channel = Redis!Reply(p)
  BY <1>1, <1>2, RedisNames
<1>4. /\ refs' = [refs EXCEPT ![p] = IF refs[p] <= 1 THEN 0 ELSE @ - 1]
      /\ refs \in [Redis!Patterns -> Nat]
  BY DEF Redis!Released, Redis!Last, RedisRefs
<1>5. refs' \in [Redis!Patterns -> Nat] /\ \A q \in Redis!Patterns : q # p => refs'[q] = refs[q]
  BY <1>1, <1>4
<1>6. Redis!Issue("server", IF refs[p] <= 1 /\ redisServer # "closed" THEN <<c>> ELSE <<>>)
  BY <1>2 DEF Redis!Released, Redis!Last
<1>7. RedisSubs' /\ \A q \in Redis!Patterns :
          Told(pipe'["server"], subs'["server"], Redis!Reply(q))
              <=> /\ ~(q = p /\ refs[p] <= 1 /\ redisServer # "closed")
                  /\ Told(pipe["server"], subs["server"], Redis!Reply(q))
  <2>1. CASE refs[p] <= 1 /\ redisServer # "closed"
    <3>1. <<c>> \in Seq(Commands) /\ "server" \in Redis!Sides
      BY <1>3 DEF Redis!Sides
    <3>2. RedisSubs' /\ pipe'["server"] = pipe["server"] \o <<c>> /\ pipe["server"] \in Seq(Commands)
      BY <1>6, <2>1, <3>1, RedisIssued DEF RedisSubs
    <3>3. ASSUME NEW q \in Redis!Patterns
          PROVE  Told(pipe'["server"], subs'["server"], Redis!Reply(q))
                    <=> q # p /\ Told(pipe["server"], subs["server"], Redis!Reply(q))
      BY <1>3, <3>2, ToldAppend, RedisNames
    <3> QED BY <2>1, <3>2, <3>3
  <2>2. CASE ~(refs[p] <= 1 /\ redisServer # "closed")
    <3>1. pipe' = pipe
      BY <1>6, <2>2, RedisIssuedNothing DEF Redis!Sides
    <3>2. RedisSubs'
      BY <3>1 DEF RedisSubs
    <3> QED BY <2>2, <3>1, <3>2
  <2> QED BY <2>1, <2>2
<1>8. ASSUME redisServer # "closed"
      PROVE  /\ timers' \cap Pushes \subseteq pending'
             /\ \A q \in Redis!Patterns :
                   /\ refs'[q] = Cardinality(Waiters(q)')
                   /\ Told(pipe'["server"], subs'["server"], Redis!Reply(q)) <=> refs'[q] > 0
  <2>1. /\ \A q \in Redis!Patterns : /\ refs[q] = Cardinality(Waiters(q))
                                     /\ Told(pipe["server"], subs["server"], Redis!Reply(q)) <=> refs[q] > 0
        /\ timers \cap Pushes \subseteq pending /\ r \in pending
    BY <1>8 DEF RedisRefs
  <2>2. Waiters(p)' = Waiters(p) \ {r} /\ r \in Waiters(p)
    BY <2>1 DEF Waiters
  <2>3. Cardinality(Waiters(p)') = Cardinality(Waiters(p)) - 1
    BY <2>2, WaitersFinite, FS_RemoveElement
  <2>4. refs[p] \in Nat /\ refs[p] # 0
    <3>1. Cardinality(Waiters(p)) # 0
      BY <2>2, WaitersFinite, FS_EmptySet
    <3> QED BY <1>1, <1>4, <2>1, <3>1
  <2>5. refs'[p] = refs[p] - 1
    BY <1>1, <1>4, <2>4
  <2>6. \A q : q # p => Waiters(q)' = Waiters(q)
    BY DEF Waiters
  <2>7. ASSUME NEW q \in Redis!Patterns
        PROVE  /\ refs'[q] = Cardinality(Waiters(q)')
               /\ Told(pipe'["server"], subs'["server"], Redis!Reply(q)) <=> refs'[q] > 0
    <3>1. CASE q = p
      <4>1. refs'[q] = Cardinality(Waiters(q)')
        BY <2>1, <2>3, <2>5, <3>1
      <4>2. Told(pipe["server"], subs["server"], Redis!Reply(q)) /\ (refs[p] <= 1 <=> ~(refs'[q] > 0))
        BY <2>1, <2>4, <2>5, <3>1
      <4> QED BY <1>7, <1>8, <3>1, <4>1, <4>2
    <3>2. CASE q # p
      BY <1>5, <1>7, <2>1, <2>6, <3>2
    <3> QED BY <3>1, <3>2
  <2>8. timers' \cap Pushes \subseteq pending'
    BY <2>1
  <2> QED BY <2>7, <2>8
<1> QED BY <1>5, <1>7, <1>8 DEF RedisRefs, Waiting

\* Steps that touch neither the subscriptions nor the requests.
LEMMA RedisQuiet ==
    ASSUME TableOK, RedisOK, UNCHANGED <<table, pipe, subs, refs>>,
           redisServer = "closed" => redisServer' = "closed"
    PROVE  RedisSubs' /\ RedisRefs'
<1>1. RedisSubs'
  BY DEF RedisOK, RedisSubs
<1>2. /\ RedisRefs /\ \A r \in pending' : req'[r] = "waiting"
      /\ pending' = pending /\ timers' = timers /\ req' = req
  BY DEF table, RedisOK, RedisRefs, Waiting
<1>3. RedisRefs'
  BY <1>2, RedisRefsKept
<1> QED BY <1>1, <1>3


\* Connections that come and go, messages that are delivered, handlers that are through.
LEMMA RedisDelivers ==
    ASSUME TableOK, RedisOK, UNCHANGED <<table, pipe, subs, refs>>,
           redisServer = "closed" => redisServer' = "closed",
           \/ UNCHANGED <<served, bus, inbox, handling>>
           \/ \E ok \in BOOLEAN, r \in Messages : Redis!HandlerDone(r, ok)
           \/ \E m \in bus, repeated \in BOOLEAN : Redis!Publish(m, repeated)
    PROVE  TableStep /\ RedisOK'
<1>1. RedisSubs' /\ RedisRefs'
  BY RedisQuiet
<1>2. CASE UNCHANGED <<served, bus, inbox, handling>>
  <2>1. TableStep
    BY <1>2 DEF TableStep
  <2>2. Onward
    BY <2>1, TableKept
  <2>3. RedisMail'
    BY <1>2, <2>2, RedisMailKept DEF RedisOK, RedisMail
  <2> QED BY <1>1, <2>1, <2>3 DEF RedisOK
<1>3. ASSUME NEW ok \in BOOLEAN, NEW r \in Messages, Redis!HandlerDone(r, ok) PROVE TableStep /\ RedisOK'
  <2>1. r \in handling /\ handling' \subseteq handling /\ Ran(r) /\ UNCHANGED inbox
    BY <1>3, RedisTable DEF Redis!HandlerDone
  <2>2. req[r] # "idle"
    BY <2>1 DEF RedisOK, RedisMail, Known
  <2>3. TableStep
    BY <2>1, <2>2 DEF TableStep
  <2>4. Onward
    BY <2>3, TableKept
  <2>5. Pattern[r] \in Redis!Patterns /\ Redis!Reply(Pattern[r]) \in Channels
    BY RedisNames
  <2>6. PICK m : m = Redis!Note(Redis!Reply(Pattern[r]), r, ok)
    OBVIOUS
  <2>7. m \in [channel : Channels, id : Messages, ok : BOOLEAN] /\ m.id = r
    BY <2>5, <2>6 DEF Redis!Note
  <2>8. m.channel = Redis!Reply(Pattern[r])
    BY <2>6 DEF Redis!Note
  <2>9. req'[r] # "idle" /\ served'[r] > 0
    BY <2>1, <2>2, <2>4 DEF Onward, Ran, TableOK
  <2>10. m \in Notes'
    BY <2>7, <2>8, <2>9 DEF Notes
  <2>11. bus' \subseteq bus \cup Notes'
    BY <1>3, <2>6, <2>10 DEF Redis!HandlerDone
  <2>12. RedisMail'
    BY <2>1, <2>4, <2>11, RedisMailKept DEF RedisOK, RedisMail
  <2> QED BY <1>1, <2>3, <2>12 DEF RedisOK
<1>4. ASSUME NEW m \in bus, NEW repeated \in BOOLEAN, Redis!Publish(m, repeated)
      PROVE  TableStep /\ RedisOK'
  <2>1. TableStep
    BY <1>4 DEF TableStep, Redis!Publish
  <2>2. Onward
    BY <2>1, TableKept
  <2>3. /\ bus' \subseteq bus /\ UNCHANGED handling
        /\ inbox' = [side \in Redis!Sides |-> IF side \in Redis!Reaches(m) THEN inbox[side] \cup {m}
                                              ELSE inbox[side]]
    BY <1>4 DEF Redis!Publish
  <2>4. m \in Notes /\ inbox \in [Redis!Sides -> SUBSET Notes] /\ inbox["client"] \subseteq ReplyNotes
    BY DEF RedisOK, RedisMail
  <2>5. inbox' \in [Redis!Sides -> SUBSET Notes]
    BY <2>3, <2>4
  <2>6. inbox'["client"] \subseteq ReplyNotes
    <3>1. "client" \in Redis!Reaches(m) => m \in ReplyNotes
      BY <2>4 DEF Redis!Reaches, ReplyNotes, RedisOK, RedisSubs
    <3> QED BY <2>3, <2>4, <3>1 DEF Redis!Sides
  <2>7. RedisMail'
    BY <2>2, <2>3, <2>5, <2>6, RedisMailKept DEF RedisOK
  <2> QED BY <1>1, <2>1, <2>7 DEF RedisOK
<1> QED BY <1>2, <1>3, <1>4

\* listen() subscribes to the channels of requests, which are not those of replies.
LEMMA RedisServerReady ==
    ASSUME RequestTableAssumption, TableOK, RedisOK, Redis!ServerReady
    PROVE  TableStep /\ RedisOK'
<1>1. UNCHANGED <<table, served, subs, bus, inbox, handling, refs>> /\ redisServer # "closed"
  BY RedisTable DEF Redis!ServerReady
<1>2. TableStep
  BY <1>1 DEF TableStep
<1>3. Onward
  BY <1>2, TableKept
<1>4. PICK o \in Redis!Orders(Redis!Handled) :
          Redis!Issue("server", [i \in DOMAIN o |-> Redis!Command("subscribe", <<o[i], "request">>)])
  BY DEF Redis!ServerReady
<1>5. PICK cs : cs = [i \in DOMAIN o |-> Redis!Command("subscribe", <<o[i], "request">>)]
  OBVIOUS
<1>6. PICK n \in Nat : DOMAIN o = 1 .. n /\ \A i \in 1 .. n : o[i] \in Redis!Patterns
  <2>1. Redis!Handled \subseteq {Pattern[r] : r \in Messages} /\ IsFiniteSet(Messages)
    BY RedisTable DEF Redis!Handled, Redis!Patterns, RequestTableAssumption
  <2>2. IsFiniteSet({Pattern[r] : r \in Messages})
    <3>1. PICK T : T = {Pattern[r] : r \in Messages}
      OBVIOUS
    <3>2. [r \in Messages |-> Pattern[r]] \in Surjection(Messages, T)
      BY <3>1 DEF Surjection
    <3> QED BY <2>1, <3>1, <3>2, FS_Surjection
  <2>3. Redis!Cardinality(Redis!Handled) = Cardinality(Redis!Handled)
    BY DEF Redis!Cardinality, Cardinality
  <2>4. Cardinality(Redis!Handled) \in Nat
    BY <2>1, <2>2, FS_Subset, FS_CardinalityType
  <2>5. o \in [1 .. Cardinality(Redis!Handled) -> Redis!Handled]
    BY <2>3 DEF Redis!Orders
  <2>6. Redis!Handled \subseteq Redis!Patterns
    BY DEF Redis!Handled
  <2> QED BY <2>4, <2>5, <2>6
<1>7. \A i \in 1 .. n : /\ Redis!Command("subscribe", <<o[i], "request">>) \in Commands
                        /\ Redis!Command("subscribe", <<o[i], "request">>).channel = <<o[i], "request">>
  BY <1>6 DEF Redis!Command, Commands, Channels
<1>8. cs \in Seq(Commands) /\ \A i \in DOMAIN cs : cs[i].channel = <<o[i], "request">>
  BY <1>5, <1>6, <1>7
<1>9. RedisSubs' /\ pipe'["server"] = pipe["server"] \o cs /\ pipe["server"] \in Seq(Commands)
  BY <1>1, <1>4, <1>5, <1>8, RedisIssued DEF Redis!Sides, RedisOK, RedisSubs
<1>10. ASSUME NEW p \in Redis!Patterns
       PROVE  Told(pipe'["server"], subs'["server"], Redis!Reply(p))
                 <=> Told(pipe["server"], subs["server"], Redis!Reply(p))
  <2>1. \A q : <<q, "request">> # Redis!Reply(p)
    BY DEF Redis!Reply
  <2>2. \A i \in DOMAIN cs : cs[i].channel # Redis!Reply(p)
    BY <1>8, <2>1
  <2> QED BY <1>1, <1>8, <1>9, <2>2, ToldOthers
<1>11. RedisRefs'
  BY <1>1, <1>10, RedisRefsKept DEF table, RedisOK, RedisRefs, Waiting
<1>12. RedisMail'
  BY <1>1, <1>3, RedisMailKept DEF RedisOK, RedisMail
<1> QED BY <1>2, <1>9, <1>11, <1>12 DEF RedisOK

\* Redis does the first command of a side.
LEMMA RedisObeys ==
    ASSUME TableOK, RedisOK, NEW side \in Redis!Sides, Redis!Obey(side)
    PROVE  TableStep /\ RedisOK'
<1>1. UNCHANGED <<table, served, bus, inbox, handling, refs, redisServer>>
  BY RedisTable DEF Redis!Obey
<1>2. TableStep
  BY <1>1 DEF TableStep
<1>3. Onward
  BY <1>2, TableKept
<1>4. RedisMail'
  BY <1>1, <1>3, RedisMailKept DEF RedisOK, RedisMail
<1>5. /\ pipe \in [Redis!Sides -> Seq(Commands)] /\ pipe["client"] \in Seq(ReplyCommands)
      /\ subs \in [Redis!Sides -> SUBSET Channels] /\ subs["client"] \subseteq ReplyChannels
      /\ "client" \in Redis!Sides /\ "server" \in Redis!Sides
  BY DEF RedisOK, RedisSubs, Redis!Sides
<1>6. PICK s, c, T : /\ s = pipe[side] /\ c = Head(s)
                     /\ T = IF c.op = "subscribe" THEN subs[side] \cup {c.channel} ELSE subs[side] \ {c.channel}
  OBVIOUS
<1>7. /\ s # <<>> /\ pipe' = [pipe EXCEPT ![side] = Tail(s)]
      /\ subs' = [subs EXCEPT ![side] = T]
  BY <1>5, <1>6 DEF Redis!Obey
<1>8. s \in Seq(Commands) /\ Tail(s) \in Seq(Commands) /\ c \in Commands
  BY <1>5, <1>6, <1>7, HeadTailProperties
<1>9. side = "client" => Tail(s) \in Seq(ReplyCommands) /\ c \in ReplyCommands
  BY <1>5, <1>6, <1>7, HeadTailProperties
<1>10. c.channel \in Channels /\ (side = "client" => c.channel \in ReplyChannels)
  BY <1>8, <1>9 DEF Commands, ReplyCommands
<1>11. RedisSubs'
  BY <1>5, <1>6, <1>7, <1>8, <1>9, <1>10 DEF RedisSubs
<1>12. ASSUME NEW p \in Redis!Patterns
       PROVE  Told(pipe'["server"], subs'["server"], Redis!Reply(p))
                 <=> Told(pipe["server"], subs["server"], Redis!Reply(p))
  <2>1. CASE side = "server"
    <3>1. pipe'["server"] = Tail(s) /\ subs'["server"] = T
      BY <1>5, <1>7, <2>1
    <3> QED BY <1>6, <1>7, <1>8, <2>1, <3>1, ToldDone
  <2>2. CASE side # "server"
    BY <1>5, <1>7, <2>2
  <2> QED BY <2>1, <2>2
<1>13. RedisRefs'
  BY <1>1, <1>12, RedisRefsKept DEF table, RedisOK, RedisRefs, Waiting
<1> QED BY <1>2, <1>4, <1>11, <1>13 DEF RedisOK


\* A message that is sent is published on the channel of its requests.
LEMMA RedisPublished ==
    ASSUME TableOK, RedisMail, TableStep, NEW r \in Messages, req'[r] # "idle", NEW m,
           m = Redis!Note(Redis!Request(r), r, TRUE), bus' \subseteq bus \cup {m}, UNCHANGED <<inbox, handling>>
    PROVE  RedisMail'
<1>1. Onward
  BY TableKept
<1>2. m \in [channel : Channels, id : Messages, ok : BOOLEAN] /\ m.id = r /\ m.channel = Redis!Request(r)
  BY RedisNames DEF Redis!Note
<1>3. Redis!Request(r) # Redis!Reply(Pattern[r])
  BY DEF Redis!Request, Redis!Reply
<1>4. m \in Notes'
  BY <1>2, <1>3 DEF Notes
<1> QED BY <1>1, <1>4, RedisMailKept DEF RedisMail

\* Requests and events that are refused or sent without being entered, and
\* timers and replies of the client's requests.
LEMMA RedisOwnRequests ==
    ASSUME RequestTableAssumption, TableOK, RedisOK, TableStep,
           UNCHANGED <<redisServer, refs>>, \A p \in Redis!Patterns :
               Told(pipe'["server"], subs'["server"], Redis!Reply(p))
                   <=> Told(pipe["server"], subs["server"], Redis!Reply(p)),
           \/ \E r \in Calls : Refused(r)
           \/ \E r \in Sends : Entered(r) \/ TimedOut(r)
           \/ \E r \in Emits : Sent(r)
           \/ Forgotten(Sends)
           \/ \E id \in Messages, ok \in BOOLEAN : Replied(id, Sends, ok)
           \/ UNCHANGED table
    PROVE  RedisRefs'
<1>t. Sends \cap Pushes = {} /\ pending \subseteq Calls /\ timers \subseteq Calls /\ Sends \subseteq Calls
      /\ Sends \subseteq Messages /\ req \in [Messages -> ReqStates]
  BY DEF RequestTableAssumption, TableOK, Calls, Messages
<1>1. pending' \cap Pushes = pending \cap Pushes /\ timers' \cap Pushes = timers \cap Pushes
  <2>1. CASE \E id \in Messages, ok \in BOOLEAN : Replied(id, Sends, ok)
    BY <1>t, <2>1 DEF Replied, Matching, Settled
  <2>2. CASE \E r \in Sends : Entered(r) \/ TimedOut(r)
    BY <1>t, <2>2 DEF Entered, TimedOut, Settled
  <2> QED BY <1>t, <2>1, <2>2 DEF Refused, Sent, Forgotten, table
<1>2. \A r \in pending' \ pending : req'[r] = "waiting"
  <2>1. CASE \E id \in Messages, ok \in BOOLEAN : Replied(id, Sends, ok)
    BY <2>1 DEF Replied
  <2>2. CASE \E r \in Sends : Entered(r) \/ TimedOut(r)
    BY <1>t, <2>2 DEF Entered, TimedOut
  <2> QED BY <1>t, <2>1, <2>2 DEF Refused, Sent, Forgotten, table
<1>3. \A r \in pending' : req'[r] = "waiting"
  BY <1>2, PendingWait DEF RedisOK, RedisRefs
<1> QED BY <1>1, <1>3, RedisRefsKept DEF RedisOK

LEMMA RedisPushes ==
    ASSUME RequestTableAssumption, TableOK, RedisOK, NEW r \in Messages, Redis!Push(r)
    PROVE  TableStep /\ RedisOK'
<1>1. /\ r \in Pushes /\ r \in Calls /\ UNCHANGED <<redisServer, handling, served, subs, inbox>>
      /\ \/ Refused(r) /\ UNCHANGED <<refs, pipe, bus>>
         \/ /\ redisServer # "closed" /\ Entered(r) /\ Redis!Acquired(Pattern[r])
            /\ bus' = bus \cup {Redis!Note(Redis!Request(r), r, TRUE)}
  <2>1. (Redis!Refused(r) <=> Refused(r)) /\ (Redis!Entered(r) <=> Entered(r))
    BY RedisTable
  <2> QED BY <2>1 DEF Redis!Push, Redis!broker, Calls
<1>2. TableStep
  BY <1>1 DEF TableStep, Moves
<1>3. RedisMail'
  <2>1. req'[r] # "idle"
    BY <1>1 DEF Refused, Entered, First, TableOK
  <2>2. PICK m : m = Redis!Note(Redis!Request(r), r, TRUE)
    OBVIOUS
  <2>3. bus' \subseteq bus \cup {m} /\ UNCHANGED <<inbox, handling>>
    BY <1>1, <2>2
  <2> QED BY <1>2, <2>1, <2>2, <2>3, RedisPublished DEF RedisOK
<1>4. CASE Refused(r) /\ UNCHANGED <<refs, pipe, bus>>
  <2>1. RedisRefs'
    BY <1>1, <1>2, <1>4, RedisOwnRequests
  <2>2. RedisSubs'
    BY <1>1, <1>4 DEF RedisOK, RedisSubs
  <2> QED BY <1>2, <1>3, <2>1, <2>2 DEF RedisOK
<1>5. CASE redisServer # "closed" /\ Entered(r) /\ Redis!Acquired(Pattern[r])
  <2>1. \A q \in pending' : req'[q] = "waiting"
    <3>1. \A q \in pending' \ pending : req'[q] = "waiting"
      BY <1>5 DEF Entered, TableOK
    <3> QED BY <1>2, <3>1, PendingWait DEF RedisOK, RedisRefs
  <2>2. RedisSubs' /\ RedisRefs'
    BY <1>1, <1>5, <2>1, RedisAcquires DEF RedisOK
  <2> QED BY <1>2, <1>3, <2>2 DEF RedisOK
<1> QED BY <1>1, <1>4, <1>5

LEMMA RedisSends ==
    ASSUME RequestTableAssumption, TableOK, RedisOK, NEW r \in Messages, Redis!Send(r) \/ Redis!Emit(r)
    PROVE  TableStep /\ RedisOK'
<1> DEFINE cs == IF Pattern[r] \in replyChannels THEN <<>>
                 ELSE <<Redis!Command("subscribe", Redis!Reply(Pattern[r]))>>
<1>1. /\ UNCHANGED <<redisServer, refs, handling, served, subs, inbox>>
      /\ \/ r \in Calls /\ Refused(r) /\ UNCHANGED <<pipe, bus>>
         \/ /\ r \in Sends /\ Entered(r) /\ Redis!Issue("client", cs)
            /\ bus' = bus \cup {Redis!Note(Redis!Request(r), r, TRUE)}
         \/ /\ r \in Emits /\ Sent(r) /\ UNCHANGED pipe
            /\ bus' = bus \cup {Redis!Note(Redis!Request(r), r, TRUE)}
  <2>1. (Redis!Refused(r) <=> Refused(r)) /\ (Redis!Entered(r) <=> Entered(r)) /\ (Redis!Sent(r) <=> Sent(r))
    BY RedisTable
  <2>2. CASE Redis!Send(r)
    BY <2>1, <2>2 DEF Redis!Send, Calls
  <2>3. CASE Redis!Emit(r)
    BY <2>1, <2>3 DEF Redis!Emit
  <2> QED BY <2>2, <2>3
<1>2. TableStep
  BY <1>1 DEF TableStep, Moves, Calls
<1>3. RedisMail'
  <2>1. req'[r] # "idle"
    BY <1>1 DEF Refused, Entered, Sent, First, TableOK
  <2>2. PICK m : m = Redis!Note(Redis!Request(r), r, TRUE)
    OBVIOUS
  <2>3. bus' \subseteq bus \cup {m} /\ UNCHANGED <<inbox, handling>>
    BY <1>1, <2>2
  <2> QED BY <1>2, <2>1, <2>2, <2>3, RedisPublished DEF RedisOK
<1>4. RedisSubs' /\ pipe'["server"] = pipe["server"]
  <2>1. CASE UNCHANGED pipe
    BY <1>1, <2>1 DEF RedisOK, RedisSubs
  <2>2. CASE Redis!Issue("client", cs)
    <3>1. Redis!Command("subscribe", Redis!Reply(Pattern[r])) \in ReplyCommands
      BY RedisNames
    <3>2. cs \in Seq(ReplyCommands) /\ cs \in Seq(Commands)
      BY <3>1, RedisNames
    <3> HIDE DEF cs
    <3>3. "client" \in Redis!Sides /\ "server" \in Redis!Sides
      BY DEF Redis!Sides
    <3> QED BY <1>1, <2>2, <3>2, <3>3, RedisIssued DEF RedisOK
  <2> QED BY <1>1, <2>1, <2>2
<1>5. RedisRefs'
  <2>1. \/ \E q \in Calls : Refused(q)
        \/ \E q \in Sends : Entered(q)
        \/ \E q \in Emits : Sent(q)
    BY <1>1
  <2> QED BY <1>1, <1>2, <1>4, <2>1, RedisOwnRequests
<1> QED BY <1>2, <1>3, <1>4, <1>5 DEF RedisOK

LEMMA RedisTimeout ==
    ASSUME RequestTableAssumption, TableOK, RedisOK, NEW r \in Calls, Redis!Timeout(r)
    PROVE  TableStep /\ RedisOK'
<1>1. /\ TimedOut(r) /\ UNCHANGED <<redisServer, subs, bus, inbox, handling, served>>
      /\ r \in Pushes => Redis!Released(Pattern[r])
      /\ r \notin Pushes => UNCHANGED <<refs, pipe>>
  BY RedisTable DEF Redis!Timeout
<1>2. TableStep
  BY <1>1 DEF TableStep, Moves
<1>3. Onward
  BY <1>2, TableKept
<1>4. RedisMail'
  BY <1>1, <1>3, RedisMailKept DEF RedisOK, RedisMail
<1>5. CASE r \in Pushes
  <2>1. \A q \in pending' : req'[q] = "waiting"
    BY <1>1, <1>2, PendingWait DEF RedisOK, RedisRefs, TimedOut
  <2>2. redisServer # "closed" => r \in pending
    BY <1>1, <1>5 DEF TimedOut, RedisOK, RedisRefs
  <2>3. RedisSubs' /\ RedisRefs'
    BY <1>1, <1>5, <2>1, <2>2, RedisReleases DEF RedisOK, TimedOut, Settled
  <2> QED BY <1>2, <1>4, <2>3 DEF RedisOK
<1>6. CASE r \notin Pushes
  <2>1. RedisSubs'
    BY <1>1, <1>6 DEF RedisOK, RedisSubs
  <2>2. r \in Sends
    BY <1>6 DEF Calls
  <2>3. RedisRefs'
    BY <1>1, <1>2, <1>6, <2>2, RedisOwnRequests
  <2> QED BY <1>2, <1>4, <2>1, <2>3 DEF RedisOK
<1> QED BY <1>5, <1>6


\* RedisServer and RedisClient take a message.
LEMMA RedisServerMessage ==
    ASSUME RequestTableAssumption, TableOK, RedisOK, NEW m, Redis!ServerMessage(m)
    PROVE  TableStep /\ RedisOK'
<1>1. /\ m \in inbox["server"] /\ inbox' = [inbox EXCEPT !["server"] = @ \ {m}]
      /\ UNCHANGED <<redisServer, subs, bus>>
  BY DEF Redis!ServerMessage
<1>2. m \in Notes
  BY <1>1 DEF RedisOK, RedisMail, Redis!Sides
<1>3. /\ m.id \in Messages /\ m.ok \in BOOLEAN /\ req[m.id] # "idle"
      /\ m.channel = Redis!Reply(Pattern[m.id]) => served[m.id] > 0
  BY <1>2 DEF Notes
<1>4. \/ /\ m.channel = Redis!Reply(Pattern[m.id]) /\ m.id \in pending \cap Pushes
         /\ Replied(m.id, Pushes, m.ok) /\ Redis!Released(Pattern[m.id])
         /\ UNCHANGED <<handling, served>>
      \/ UNCHANGED <<table, refs, pipe, handling, served>>
      \/ handling' = handling \cup {m.id} /\ UNCHANGED <<table, refs, pipe, served>>
      \/ Ran(m.id) /\ UNCHANGED <<table, refs, pipe, handling>>
  <2>1. /\ Redis!Replied(m.id, Pushes, m.ok) <=> Replied(m.id, Pushes, m.ok)
        /\ Redis!Ran(m.id) <=> Ran(m.id)
        /\ UNCHANGED Redis!table <=> UNCHANGED table
    BY RedisTable
  <2> QED BY <2>1 DEF Redis!ServerMessage
<1>5. TableStep
  <2>1. CASE /\ m.channel = Redis!Reply(Pattern[m.id]) /\ m.id \in pending \cap Pushes
             /\ Replied(m.id, Pushes, m.ok) /\ UNCHANGED <<handling, served>>
    <3>1. Answerable(m.id, Pushes, m.ok)
      BY <1>3, <2>1 DEF Answerable, RedisOK, RedisRefs, Waiting
    <3> QED BY <1>3, <2>1, <3>1 DEF TableStep, Moves
  <2> QED BY <1>3, <1>4, <2>1 DEF TableStep
<1>6. Onward
  BY <1>5, TableKept
<1>7. RedisMail'
  <2>1. handling' \subseteq handling \cup Known
    BY <1>3, <1>4 DEF Known
  <2>2. Known \subseteq Known'
    BY <1>6 DEF Known, Onward
  <2> QED BY <1>1, <1>6, <2>1, <2>2, RedisMailRead, RedisMailKept DEF RedisOK
<1>8. RedisSubs' /\ RedisRefs'
  <2>1. CASE /\ m.id \in pending \cap Pushes /\ Replied(m.id, Pushes, m.ok)
             /\ Redis!Released(Pattern[m.id])
    <3>1. pending' = pending \ {m.id} /\ timers' = timers \ {m.id}
      BY <2>1 DEF Replied, Matching, Settled
    <3>2. \A q \in pending' : req'[q] = "waiting"
      BY <1>5, <3>1, PendingWait DEF RedisOK, RedisRefs
    <3> QED BY <1>1, <2>1, <3>1, <3>2, RedisReleases DEF RedisOK
  <2>2. CASE UNCHANGED <<table, refs, pipe>>
    BY <1>1, <2>2, RedisQuiet
  <2> QED BY <1>4, <2>1, <2>2
<1> QED BY <1>5, <1>7, <1>8 DEF RedisOK

LEMMA RedisClientMessage ==
    ASSUME RequestTableAssumption, TableOK, RedisOK, NEW m, Redis!ClientMessage(m)
    PROVE  TableStep /\ RedisOK'
<1>1. /\ m \in inbox["client"] /\ inbox' = [inbox EXCEPT !["client"] = @ \ {m}]
      /\ UNCHANGED <<redisServer, subs, pipe, refs, bus, handling, served>>
      /\ Replied(m.id, Sends, m.ok)
  BY RedisTable DEF Redis!ClientMessage
<1>2. m \in Notes /\ m.channel \in ReplyChannels
  BY <1>1 DEF RedisOK, RedisMail, ReplyNotes
<1>3. m.channel # Redis!Request(m.id)
  BY <1>2 DEF ReplyChannels, Redis!Request
<1>4. m.id \in Messages /\ m.ok \in BOOLEAN /\ served[m.id] > 0
  BY <1>2, <1>3 DEF Notes
<1>5. TableStep
  <2>1. Answerable(m.id, Sends, m.ok)
    BY <1>4 DEF Answerable, RedisOK, RedisRefs, Waiting
  <2> QED BY <1>1, <1>4, <2>1 DEF TableStep, Moves
<1>6. Onward
  BY <1>5, TableKept
<1>7. RedisMail'
  BY <1>1, <1>6, RedisMailRead, RedisMailKept DEF RedisOK
<1>8. RedisRefs'
  BY <1>1, <1>4, <1>5, RedisOwnRequests
<1>9. RedisSubs'
  BY <1>1 DEF RedisOK, RedisSubs
<1> QED BY <1>5, <1>7, <1>8, <1>9 DEF RedisOK

\* close() of either class.
LEMMA RedisCloses ==
    ASSUME RequestTableAssumption, TableOK, RedisOK, Redis!CloseServer \/ Redis!CloseClient
    PROVE  TableStep /\ RedisOK'
<1>1. PICK s \in Redis!Sides :
          /\ Redis!Disconnected(s) /\ UNCHANGED <<bus, handling, served>>
          /\ \/ s = "client" /\ Forgotten(Sends) /\ UNCHANGED <<redisServer, refs>>
             \/ /\ s = "server" /\ Forgotten(Pushes) /\ redisServer' = "closed"
                /\ refs' = [p \in Redis!Patterns |-> 0]
  BY RedisTable DEF Redis!CloseServer, Redis!CloseClient, Redis!Sides
<1>2. TableStep
  BY <1>1 DEF TableStep, Moves
<1>3. Onward
  BY <1>2, TableKept
<1>4. RedisMail'
  <2>1. inbox' = [inbox EXCEPT ![s] = {}]
    BY <1>1 DEF Redis!Disconnected
  <2>2. inbox' \in [Redis!Sides -> SUBSET Notes] /\ inbox'["client"] \subseteq ReplyNotes
    BY <2>1 DEF RedisOK, RedisMail, Redis!Sides
  <2> QED BY <1>1, <1>3, <2>2, RedisMailKept DEF RedisOK
<1>5. /\ pipe' = [pipe EXCEPT ![s] = <<>>] /\ subs' = [subs EXCEPT ![s] = {}]
      /\ pipe \in [Redis!Sides -> Seq(Commands)] /\ pipe["client"] \in Seq(ReplyCommands)
      /\ subs \in [Redis!Sides -> SUBSET Channels] /\ subs["client"] \subseteq ReplyChannels
      /\ "client" \in Redis!Sides /\ "server" \in Redis!Sides
  BY <1>1 DEF Redis!Disconnected, RedisOK, RedisSubs, Redis!Sides
<1>6. <<>> \in Seq(Commands) /\ <<>> \in Seq(ReplyCommands)
  OBVIOUS
<1>7. RedisSubs'
  BY <1>5, <1>6 DEF RedisSubs
<1>8. RedisRefs'
  <2>1. CASE s = "client" /\ Forgotten(Sends) /\ UNCHANGED <<redisServer, refs>>
    <3>1. pipe'["server"] = pipe["server"] /\ subs'["server"] = subs["server"]
      BY <1>5, <2>1
    <3> QED BY <1>2, <2>1, <3>1, RedisOwnRequests
  <2>2. CASE /\ s = "server" /\ Forgotten(Pushes) /\ redisServer' = "closed"
             /\ refs' = [p \in Redis!Patterns |-> 0]
    <3>1. refs' \in [Redis!Patterns -> Nat]
      BY <2>2
    <3>2. \A q \in pending' : req'[q] = "waiting"
      BY <1>2, <2>2, PendingWait DEF RedisOK, RedisRefs, Forgotten
    <3> QED BY <2>2, <3>1, <3>2 DEF RedisRefs, Waiting
  <2> QED BY <1>1, <2>1, <2>2
<1> QED BY <1>2, <1>4, <1>7, <1>8 DEF RedisOK

LEMMA RedisStep ==
    ASSUME RequestTableAssumption, TableOK, RedisOK, Redis!Next
    PROVE  TableStep /\ RedisOK'
<1>1. ASSUME NEW ok \in BOOLEAN, NEW side \in Redis!Sides,
             \/ Redis!Listen \/ Redis!Connect \/ Redis!ConnectSettles(ok)
             \/ Redis!Break(side) \/ Redis!Restore(side)
      PROVE  TableStep /\ RedisOK'
  <2>1. /\ UNCHANGED <<pipe, subs, refs, served, bus, inbox, handling>> /\ UNCHANGED Redis!table
        /\ redisServer = "closed" => redisServer' = "closed"
    BY <1>1 DEF Redis!Listen, Redis!Connect, Redis!ConnectSettles, Redis!Break, Redis!Restore, Redis!broker
  <2>2. UNCHANGED table
    BY <2>1, RedisTable
  <2> QED BY <2>1, <2>2, RedisDelivers
<1>2. ASSUME NEW ok \in BOOLEAN, NEW r \in Messages, Redis!HandlerDone(r, ok) PROVE TableStep /\ RedisOK'
  <2>1. UNCHANGED <<pipe, subs, refs, redisServer>> /\ UNCHANGED table
    BY <1>2, RedisTable DEF Redis!HandlerDone
  <2> QED BY <1>2, <2>1, RedisDelivers
<1>3. ASSUME NEW m \in bus, NEW repeated \in BOOLEAN, Redis!Publish(m, repeated) PROVE TableStep /\ RedisOK'
  <2>1. UNCHANGED <<pipe, subs, refs, redisServer>> /\ UNCHANGED table
    BY <1>3, RedisTable DEF Redis!Publish
  <2> QED BY <1>3, <2>1, RedisDelivers
<1>4. Redis!Messages = Messages /\ Redis!Calls = Calls /\ "server" \in Redis!Sides
  BY RedisTable DEF Redis!Sides
<1> QED BY <1>1, <1>2, <1>3, <1>4, RedisServerReady, RedisCloses, RedisObeys, RedisPushes, RedisSends,
           RedisTimeout, RedisServerMessage, RedisClientMessage
    DEF Redis!Next

LEMMA RedisInitOK == RequestTableAssumption /\ TableInit /\ Redis!Init => RedisOK
<1> SUFFICES ASSUME RequestTableAssumption, TableInit, Redis!Init PROVE RedisOK
  OBVIOUS
<1>1. RedisMail
  BY DEF Redis!Init, RedisMail, Redis!Sides
<1>2. <<>> \in Seq(Commands) /\ <<>> \in Seq(ReplyCommands)
  OBVIOUS
<1>3. RedisSubs
  BY <1>2 DEF Redis!Init, RedisSubs, Redis!Sides
<1>4. RedisRefs
  <2>1. pending = {} /\ timers = {} /\ refs = [p \in Redis!Patterns |-> 0]
        /\ pipe["server"] = <<>> /\ subs["server"] = {}
    BY DEF TableInit, Redis!Init, Redis!Sides
  <2>2. \A p : Waiters(p) = {}
    BY <2>1 DEF Waiters
  <2>3. Cardinality({}) = 0
    BY FS_EmptySet
  <2>4. \A ch : ~Told(<<>>, {}, ch)
    BY DEF Told
  <2>5. ASSUME NEW p \in Redis!Patterns
        PROVE  /\ refs[p] = Cardinality(Waiters(p))
               /\ Told(pipe["server"], subs["server"], Redis!Reply(p)) <=> refs[p] > 0
    <3>1. refs[p] = 0 /\ Cardinality(Waiters(p)) = 0
      BY <2>1, <2>2, <2>3
    <3> QED BY <2>1, <2>4, <3>1
  <2>6. refs \in [Redis!Patterns -> Nat]
    BY <2>1
  <2> QED BY <2>1, <2>5, <2>6 DEF RedisRefs
<1> QED BY <1>1, <1>3, <1>4 DEF RedisOK

\* Told is what the transport calls subscribed.
LEMMA RedisHolds == RedisOK => Redis!ReplyChannelsHeld
<1> SUFFICES ASSUME RedisOK PROVE Redis!ReplyChannelsHeld
  OBVIOUS
<1>1. \A S : Redis!Cardinality(S) = Cardinality(S)
  BY DEF Redis!Cardinality, Cardinality
<1>2. ASSUME NEW ch PROVE Redis!Subscribed("server", ch) <=> Told(pipe["server"], subs["server"], ch)
  BY DEF Redis!Subscribed, Told
<1> QED BY <1>1, <1>2 DEF Redis!ReplyChannelsHeld, RedisOK, RedisRefs, Waiters


-----------------------------------------------------------------------------
(***************************************************************************)
(* RabbitMQ: whatever is in a queue or in the hands of a handler belongs   *)
(* to a message that was sent, a request in the map that is on its way     *)
(* still waits (one that failed on a dead channel is in the map, but was   *)
(* never on its way), and only channels that are up hold deliveries.       *)
(***************************************************************************)
Places == {Pusher, "client", "nobody"}
Letters == [id : Messages, to : Places, redelivered : BOOLEAN]
Deliveries == [by : Instances, msg : Letters]
Answers == [id : Messages, to : Places, ok : BOOLEAN]
ChannelStates == {"off", "connecting", "up", "dead", "closed", "failed"}

RabbitTypes ==
    /\ queue \subseteq Letters /\ unacked \subseteq Deliveries /\ working \subseteq Deliveries
    /\ replies \subseteq Answers /\ channel \in [Instances -> ChannelStates]

Carried(r) ==
    \/ \E m \in queue : m.id = r
    \/ \E d \in unacked \cup working : d.msg.id = r
    \/ \E p \in replies : p.id = r

OnItsWay ==
    /\ \A r \in Messages : Carried(r) => req[r] # "idle"
    /\ \A r \in pending : Carried(r) => Waiting(r)
    /\ \A p \in replies : served[p.id] > 0

Held ==
    /\ unacked \subseteq working
    /\ \A d \in unacked : channel[d.by] = "up"

\* The broker will deliver the message, again if need be.
Safe(r) == (\E m \in queue : m.id = r) \/ (\E d \in unacked : d.msg.id = r)

NothingLost ==
    \A r \in Messages :
        ~noAck /\ Kind[r] # "unknown" /\ req[r] \notin {"idle", "failed"} /\ served[r] = 0 => Safe(r)

RabbitOK == RabbitTypes /\ OnItsWay /\ Held /\ NothingLost

LEMMA RabbitTable ==
    /\ \A r : /\ Rabbit!Entered(r) <=> Entered(r)
              /\ Rabbit!Refused(r) <=> Refused(r)
              /\ Rabbit!Sent(r) <=> Sent(r)
              /\ Rabbit!TimedOut(r) <=> TimedOut(r)
              /\ Rabbit!Ran(r) <=> Ran(r)
              /\ Rabbit!First(r) <=> First(r)
    /\ \A id, mine, ok : Rabbit!Replied(id, mine, ok) <=> Replied(id, mine, ok)
    /\ \A mine : Rabbit!Forgotten(mine) <=> Forgotten(mine)
    /\ Rabbit!Messages = Messages /\ Rabbit!Calls = Calls
    /\ UNCHANGED Rabbit!table <=> UNCHANGED table
<1>1. Rabbit!Messages = Messages /\ Rabbit!Calls = Calls /\ (UNCHANGED Rabbit!table <=> UNCHANGED table)
  BY DEF Rabbit!Messages, Messages, Rabbit!Calls, Calls, Rabbit!table, table
<1>2. \A r : Rabbit!First(r) <=> First(r)
  <2>1. \A S : Rabbit!Cardinality(S) = Cardinality(S)
    BY DEF Rabbit!Cardinality, Cardinality
  <2> QED BY <1>1, <2>1 DEF Rabbit!First, First
<1>3. \A S, outcome, by : Rabbit!Settled(S, outcome, by) <=> Settled(S, outcome, by)
  BY <1>1 DEF Rabbit!Settled, Settled
<1>4. \A id, mine : Rabbit!Matching(id, mine) = Matching(id, mine)
  BY DEF Rabbit!Matching, Matching
<1>5. \A r : /\ Rabbit!Entered(r) <=> Entered(r)
             /\ Rabbit!Refused(r) <=> Refused(r)
             /\ Rabbit!Sent(r) <=> Sent(r)
  BY <1>2 DEF Rabbit!Entered, Entered, Rabbit!Refused, Refused, Rabbit!Sent, Sent
<1>6. \A r : (Rabbit!TimedOut(r) <=> TimedOut(r)) /\ (Rabbit!Ran(r) <=> Ran(r))
  BY <1>3 DEF Rabbit!TimedOut, TimedOut, Rabbit!Ran, Ran
<1>7. \A id, mine, ok : Rabbit!Replied(id, mine, ok) <=> Replied(id, mine, ok)
  BY <1>3, <1>4 DEF Rabbit!Replied, Replied
<1>8. \A mine : Rabbit!Forgotten(mine) <=> Forgotten(mine)
  BY DEF Rabbit!Forgotten, Forgotten
<1> QED BY <1>1, <1>2, <1>5, <1>6, <1>7, <1>8

\* What is on its way was so before, or was just sent.
LEMMA OnItsWayKept ==
    ASSUME TableOK, TableStep, OnItsWay, RabbitTypes,
           \A r \in Messages : Carried(r)' =>
               \/ Carried(r)
               \/ req[r] = "idle" /\ req'[r] # "idle" /\ (r \in pending' => req'[r] = "waiting"),
           \A p \in replies' : p \in replies \/ (p.id \in Messages /\ served'[p.id] > 0)
    PROVE  OnItsWay'
<1>1. Onward /\ pending' \subseteq Calls /\ Calls \subseteq Messages
  BY TableKept DEF TableOK, Messages
<1>2. ASSUME NEW r \in Messages, Carried(r)'
      PROVE  req'[r] # "idle" /\ (r \in pending' => req'[r] = "waiting")
  <2>1. CASE Carried(r)
    <3>1. req[r] # "idle"
      BY <2>1 DEF OnItsWay
    <3>2. r \in pending' => r \in pending /\ req'[r] = req[r]
      BY <1>1, <3>1 DEF Onward
    <3>3. r \in pending => req[r] = "waiting"
      BY <2>1 DEF OnItsWay, Waiting
    <3> QED BY <1>1, <3>1, <3>2, <3>3 DEF Onward
  <2>2. CASE ~Carried(r)
    BY <1>2, <2>2
  <2> QED BY <2>1, <2>2
<1>3. ASSUME NEW p \in replies' PROVE served'[p.id] > 0
  <2>1. CASE p \in replies
    <3>1. p.id \in Messages /\ served[p.id] > 0
      BY <2>1 DEF RabbitTypes, Answers, OnItsWay
    <3> QED BY <1>1, <3>1 DEF Onward
  <2> QED BY <2>1
<1>4. \A r \in Messages : Carried(r)' => req'[r] # "idle"
  BY <1>2
<1>5. \A r \in pending' : Carried(r)' => req'[r] = "waiting"
  BY <1>1, <1>2
<1> QED BY <1>3, <1>4, <1>5 DEF OnItsWay, Waiting

\* What the broker will deliver it still will, or a handler has been through with it.
LEMMA NothingLostKept ==
    ASSUME TableOK, TableStep, NothingLost, UNCHANGED noAck,
           \A r \in Messages : ~noAck /\ Kind[r] # "unknown" /\ Safe(r) => Safe(r)' \/ served'[r] # 0,
           \A r \in Messages : req[r] \in {"idle", "failed"} => req'[r] \in {"idle", "failed"} \/ Safe(r)'
    PROVE  NothingLost'
<1>1. \A r \in Messages : served'[r] = 0 => served[r] = 0
  <2>1. Onward /\ TableOK /\ TableOK'
    BY TableKept
  <2>2. \A r \in Messages : served[r] \in Nat /\ served'[r] \in Nat
    BY <2>1 DEF TableOK
  <2> QED BY <2>1, <2>2 DEF Onward
<1>2. ASSUME NEW r \in Messages, ~noAck', Kind[r] # "unknown", req'[r] \notin {"idle", "failed"}, served'[r] = 0
      PROVE  Safe(r)'
  BY <1>1, <1>2 DEF NothingLost
<1> QED BY <1>2 DEF NothingLost

\* Timers, replies that arrive, and what comes to an end: nothing is sent.
LEMMA RabbitSettles ==
    ASSUME TableOK, RabbitOK, TableStep, UNCHANGED <<queue, unacked, working, noAck, served>>,
           replies' \subseteq replies, channel' \in [Instances -> ChannelStates],
           \A d \in unacked : channel[d.by] = "up" => channel'[d.by] = "up",
           \A r \in Messages : req[r] \in {"idle", "failed"} => req'[r] \in {"idle", "failed"}
    PROVE  RabbitOK'
<1>1. RabbitTypes'
  BY DEF RabbitOK, RabbitTypes
<1>2. OnItsWay'
  <2>1. \A r : Carried(r)' => Carried(r)
    BY DEF Carried
  <2> QED BY <2>1, OnItsWayKept DEF RabbitOK
<1>3. Held'
  BY DEF RabbitOK, Held
<1>4. NothingLost'
  <2>1. \A r : Safe(r) => Safe(r)'
    BY DEF Safe
  <2> QED BY <2>1, NothingLostKept DEF RabbitOK
<1> QED BY <1>1, <1>2, <1>3, <1>4 DEF RabbitOK

\* What is settled, refused or forgotten was not refused before, and is not sent.
LEMMA NothingSent ==
    ASSUME TableOK,
           \/ \E r \in Calls : Refused(r) \/ TimedOut(r)
           \/ \E p \in Pushes : EnteredInVain(p)
           \/ \E id, mine, ok : Replied(id, mine, ok)
           \/ \E mine : Forgotten(mine)
           \/ UNCHANGED table
    PROVE  \A r \in Messages : req[r] \in {"idle", "failed"} => req'[r] \in {"idle", "failed"}
BY DEF Refused, TimedOut, EnteredInVain, Replied, Forgotten, table, Settled, TableOK

\* A message goes to the work queue; what its sender was told may be anything.
LEMMA RabbitPublishes ==
    ASSUME TableOK, RabbitOK, NEW r \in Messages, NEW to \in Places,
           (r \in Calls /\ (Entered(r) \/ Refused(r))) \/ (r \in Emits /\ Sent(r)),
           queue' = queue \cup {Rabbit!Message(r, to)},
           UNCHANGED <<channel, noAck, unacked, working, replies, served>>
    PROVE  TableStep /\ RabbitOK'
<1>1. TableStep
  BY DEF TableStep, Moves
<1>2. PICK m : m = Rabbit!Message(r, to)
  OBVIOUS
<1>3. m \in Letters /\ m.id = r /\ queue' = queue \cup {m}
  BY <1>2 DEF Rabbit!Message, Letters
<1>4. /\ req[r] = "idle" /\ req'[r] # "idle" /\ (r \in pending' => req'[r] = "waiting")
      /\ \A q \in Messages : q # r => req'[q] = req[q]
  BY DEF Entered, Refused, Sent, First, TableOK
<1>5. RabbitTypes'
  BY <1>3 DEF RabbitOK, RabbitTypes
<1>6. OnItsWay'
  <2>1. \A q : Carried(q)' => Carried(q) \/ q = r
    BY <1>3 DEF Carried
  <2> QED BY <1>1, <1>4, <2>1, OnItsWayKept DEF RabbitOK
<1>7. Held'
  BY DEF RabbitOK, Held
<1>8. NothingLost'
  <2>1. (\A q : Safe(q) => Safe(q)') /\ Safe(r)'
    BY <1>3 DEF Safe
  <2> QED BY <1>1, <1>4, <2>1, NothingLostKept DEF RabbitOK
<1> QED BY <1>1, <1>5, <1>6, <1>7, <1>8 DEF RabbitOK


\* An instance takes a message from the work queue: to a handler, or back.
LEMMA RabbitConsumes ==
    ASSUME TableOK, RabbitOK, NEW s \in Instances, NEW m \in queue, Rabbit!Consume(s, m)
    PROVE  TableStep /\ RabbitOK'
<1>1. UNCHANGED <<channel, noAck, replies, table, served>> /\ channel[s] = "up"
  BY RabbitTable DEF Rabbit!Consume
<1>2. PICK d : d = Rabbit!Delivery(s, m)
  OBVIOUS
<1>3. d \in Deliveries /\ d.by = s /\ d.msg = m /\ m \in Letters /\ m.id \in Messages
  BY <1>2 DEF Rabbit!Delivery, Deliveries, RabbitOK, RabbitTypes, Letters
<1>4. \/ /\ Kind[m.id] # "unknown" /\ queue' = queue \ {m} /\ working' = working \cup {d}
         /\ unacked' = IF noAck THEN unacked ELSE unacked \cup {d}
      \/ /\ Kind[m.id] = "unknown" /\ UNCHANGED <<working, unacked>>
         /\ queue' \subseteq (queue \ {m}) \cup Rabbit!Requeued({d}) /\ queue \ {m} \subseteq queue'
  BY <1>2 DEF Rabbit!Consume
<1>5. \A x \in Rabbit!Requeued({d}) : x \in Letters /\ x.id = m.id
  BY <1>3 DEF Rabbit!Requeued, Letters
<1>6. TableStep
  BY <1>1 DEF TableStep
<1>7. RabbitTypes'
  BY <1>1, <1>3, <1>4, <1>5 DEF RabbitOK, RabbitTypes
<1>8. OnItsWay'
  <2>1. \A r : Carried(r)' => Carried(r)
    BY <1>1, <1>3, <1>4, <1>5 DEF Carried
  <2> QED BY <1>1, <1>6, <2>1, OnItsWayKept DEF RabbitOK
<1>9. Held'
  BY <1>1, <1>3, <1>4 DEF RabbitOK, Held
<1>10. NothingLost'
  <2>1. \A r \in Messages : ~noAck /\ Kind[r] # "unknown" /\ Safe(r) => Safe(r)'
    BY <1>3, <1>4 DEF Safe
  <2>2. req' = req
    BY <1>1 DEF table
  <2> QED BY <1>1, <1>6, <2>1, <2>2, NothingLostKept DEF RabbitOK
<1> QED BY <1>6, <1>7, <1>8, <1>9, <1>10 DEF RabbitOK

\* A handler is through with a delivery.
LEMMA RabbitHandles ==
    ASSUME TableOK, RabbitOK, NEW d \in working, NEW ok \in BOOLEAN, Rabbit!Done(d, ok)
    PROVE  TableStep /\ RabbitOK'
<1>1. /\ UNCHANGED <<channel, noAck, queue, table>> /\ working' = working \ {d} /\ Ran(d.msg.id)
      /\ \/ channel[d.by] = "up" /\ unacked' = unacked \ {d}
         \/ channel[d.by] # "up" /\ unacked' = unacked
      /\ \/ replies' = replies
         \/ replies' = replies \cup {[id |-> d.msg.id, to |-> d.msg.to, ok |-> ok]}
  BY RabbitTable DEF Rabbit!Done, Rabbit!Decided
<1>2. d.msg \in Letters /\ d.msg.id \in Messages /\ d.msg.to \in Places
  BY DEF RabbitOK, RabbitTypes, Deliveries, Letters
<1>3. Carried(d.msg.id) /\ req[d.msg.id] # "idle"
  BY <1>2 DEF Carried, RabbitOK, OnItsWay
<1>4. TableStep
  BY <1>1, <1>2, <1>3 DEF TableStep
<1>5. PICK a : a = [id |-> d.msg.id, to |-> d.msg.to, ok |-> ok]
  OBVIOUS
<1>6. a \in Answers /\ a.id = d.msg.id /\ replies' \subseteq replies \cup {a}
  BY <1>1, <1>2, <1>5 DEF Answers
<1>7. served'[d.msg.id] > 0
  BY <1>1, <1>2 DEF Ran, TableOK
<1>8. RabbitTypes'
  BY <1>1, <1>6 DEF RabbitOK, RabbitTypes
<1>9. OnItsWay'
  <2>1. \A r : Carried(r)' => Carried(r)
    BY <1>1, <1>3, <1>6 DEF Carried
  <2>2. \A p \in replies' : p \in replies \/ (p.id \in Messages /\ served'[p.id] > 0)
    BY <1>2, <1>6, <1>7
  <2> QED BY <1>1, <1>4, <2>1, <2>2, OnItsWayKept DEF RabbitOK
<1>10. Held'
  BY <1>1 DEF RabbitOK, Held
<1>11. NothingLost'
  <2>1. \A r : Safe(r) => Safe(r)' \/ r = d.msg.id
    BY <1>1 DEF Safe
  <2>2. req' = req /\ served'[d.msg.id] # 0
    BY <1>1, <1>7 DEF table
  <2> QED BY <1>1, <1>4, <2>1, <2>2, NothingLostKept DEF RabbitOK
<1> QED BY <1>4, <1>8, <1>9, <1>10, <1>11 DEF RabbitOK

\* A channel dies or is closed: its deliveries go back to the queue.
LEMMA RabbitEnds ==
    ASSUME TableOK, RabbitOK, NEW s \in Instances, Rabbit!ChannelDies(s) \/ Rabbit!CloseServer(s)
    PROVE  TableStep /\ RabbitOK'
<1>1. PICK state \in {"dead", "closed"} :
          /\ channel' = [channel EXCEPT ![s] = state]
          /\ queue' = queue \cup Rabbit!Requeued(Rabbit!Returned(s))
          /\ unacked' = {d \in unacked : d.by # s} /\ replies' \subseteq replies
          /\ UNCHANGED <<noAck, working, served>>
  BY DEF Rabbit!ChannelDies, Rabbit!CloseServer, Rabbit!Ended, Rabbit!Without
<1>2. Forgotten(Pushes) \/ UNCHANGED table
  BY RabbitTable DEF Rabbit!ChannelDies, Rabbit!CloseServer
<1>3. TableStep
  BY <1>1, <1>2 DEF TableStep, Moves
<1>4. \A x \in Rabbit!Requeued(Rabbit!Returned(s)) :
          x \in Letters /\ \E d \in unacked : d.msg.id = x.id
  <2>1. ASSUME NEW d \in unacked
        PROVE  [d.msg EXCEPT !.redelivered = TRUE] \in Letters /\ [d.msg EXCEPT !.redelivered = TRUE].id = d.msg.id
    <3>1. d.msg \in Letters
      BY DEF RabbitOK, RabbitTypes, Deliveries
    <3> QED BY <3>1 DEF Letters
  <2> QED BY <2>1 DEF Rabbit!Requeued, Rabbit!Returned
<1>5. \A d \in unacked : d.by = s => \E x \in queue' : x.id = d.msg.id
  <2>1. ASSUME NEW d \in unacked, d.by = s PROVE \E x \in queue' : x.id = d.msg.id
    <3>1. d.msg \in Letters
      BY DEF RabbitOK, RabbitTypes, Deliveries
    <3>2. [d.msg EXCEPT !.redelivered = TRUE] \in queue'
      BY <1>1, <2>1 DEF Rabbit!Requeued, Rabbit!Returned
    <3>3. [d.msg EXCEPT !.redelivered = TRUE].id = d.msg.id
      BY <3>1 DEF Letters
    <3> QED BY <3>2, <3>3
  <2> QED BY <2>1
<1>6. RabbitTypes'
  BY <1>1, <1>4 DEF RabbitOK, RabbitTypes, ChannelStates
<1>7. OnItsWay'
  <2>1. \A r : Carried(r)' => Carried(r)
    BY <1>1, <1>4 DEF Carried
  <2> QED BY <1>1, <1>3, <2>1, OnItsWayKept DEF RabbitOK
<1>8. Held'
  <2>1. \A d \in unacked' : d \in unacked /\ d.by # s /\ d.by \in Instances
    BY <1>1 DEF RabbitOK, RabbitTypes, Deliveries
  <2>2. \A d \in unacked' : channel'[d.by] = channel[d.by]
    BY <1>1, <2>1 DEF RabbitOK, RabbitTypes
  <2> QED BY <1>1, <2>1, <2>2 DEF RabbitOK, Held
<1>9. NothingLost'
  <2>1. \A r : Safe(r) => Safe(r)'
    BY <1>1, <1>5 DEF Safe
  <2>2. \A r \in Messages : req[r] \in {"idle", "failed"} => req'[r] \in {"idle", "failed"}
    BY <1>2, NothingSent
  <2> QED BY <1>1, <1>3, <2>1, <2>2, NothingLostKept DEF RabbitOK
<1> QED BY <1>3, <1>6, <1>7, <1>8, <1>9 DEF RabbitOK


\* Processes that start, and the client's channel that ends.
LEMMA RabbitConnects ==
    ASSUME TableOK, RabbitOK, NEW s, NEW ok \in BOOLEAN,
           \/ Rabbit!Listen(s) \/ Rabbit!ListenSettles(s, ok)
           \/ Rabbit!Connect \/ Rabbit!ConnectSettles(ok)
           \/ Rabbit!ClientDies \/ Rabbit!CloseClient
    PROVE  TableStep /\ RabbitOK'
<1>1. /\ UNCHANGED <<queue, unacked, working, noAck, served>> /\ replies' \subseteq replies
      /\ Forgotten(Sends) \/ UNCHANGED table
  <2>1. CASE Rabbit!ClientDies \/ Rabbit!CloseClient
    BY <2>1, RabbitTable DEF Rabbit!ClientDies, Rabbit!CloseClient, Rabbit!ClientEnded, Rabbit!Without
  <2>2. CASE Rabbit!Listen(s) \/ Rabbit!ListenSettles(s, ok) \/ Rabbit!Connect \/ Rabbit!ConnectSettles(ok)
    BY <2>2, RabbitTable DEF Rabbit!Listen, Rabbit!ListenSettles, Rabbit!Connect, Rabbit!ConnectSettles
  <2> QED BY <2>1, <2>2
<1>2. \/ UNCHANGED channel
      \/ \E state \in ChannelStates : channel[s] # "up" /\ channel' = [channel EXCEPT ![s] = state]
  BY DEF Rabbit!Listen, Rabbit!ListenSettles, Rabbit!Connect, Rabbit!ConnectSettles,
         Rabbit!ClientDies, Rabbit!CloseClient, Rabbit!ClientEnded, ChannelStates
<1>3. channel \in [Instances -> ChannelStates] /\ \A d \in unacked : d.by \in Instances
  BY DEF RabbitOK, RabbitTypes, Deliveries
<1>4. /\ channel' \in [Instances -> ChannelStates]
      /\ \A d \in unacked : channel[d.by] = "up" => channel'[d.by] = "up"
  BY <1>2, <1>3
<1>5. TableStep
  BY <1>1 DEF TableStep, Moves
<1>6. \A r \in Messages : req[r] \in {"idle", "failed"} => req'[r] \in {"idle", "failed"}
  BY <1>1, NothingSent
<1> QED BY <1>1, <1>4, <1>5, <1>6, RabbitSettles

\* Either side takes a reply, or a timer fires.
LEMMA RabbitReplies ==
    ASSUME TableOK, RabbitOK, NEW p \in replies, Rabbit!ReplyArrives(p)
    PROVE  TableStep /\ RabbitOK'
<1>1. /\ UNCHANGED <<channel, queue, unacked, working, noAck, served>> /\ replies' \subseteq replies
      /\ \/ \E mine \in {Sends, Pushes}, ok \in {p.ok, TRUE} : Replied(p.id, mine, ok)
         \/ UNCHANGED table
  <2>1. /\ Rabbit!Replied(p.id, Sends, p.ok) <=> Replied(p.id, Sends, p.ok)
        /\ Rabbit!Replied(p.id, Pushes, TRUE) <=> Replied(p.id, Pushes, TRUE)
        /\ UNCHANGED Rabbit!table <=> UNCHANGED table
    BY RabbitTable
  <2> QED BY <2>1 DEF Rabbit!ReplyArrives
<1>2. p.id \in Messages /\ p.ok \in BOOLEAN /\ Carried(p.id)
  BY DEF RabbitOK, RabbitTypes, Answers, Carried
<1>3. \A mine, ok : Answerable(p.id, mine, ok)
  BY <1>2 DEF Answerable, RabbitOK, OnItsWay, Waiting
<1>4. TableStep
  <2>1. CASE UNCHANGED table
    BY <1>1, <2>1 DEF TableStep
  <2>2. ASSUME NEW mine \in {Sends, Pushes}, NEW ok \in {p.ok, TRUE}, Replied(p.id, mine, ok)
        PROVE  TableStep
    BY <1>1, <1>2, <1>3, <2>2 DEF TableStep, Moves
  <2> QED BY <1>1, <2>1, <2>2
<1>5. \A r \in Messages : req[r] \in {"idle", "failed"} => req'[r] \in {"idle", "failed"}
  BY <1>1, NothingSent
<1>6. channel' \in [Instances -> ChannelStates]
  BY <1>1 DEF RabbitOK, RabbitTypes
<1> QED BY <1>1, <1>4, <1>5, <1>6, RabbitSettles

LEMMA RabbitFails ==
    ASSUME TableOK, RabbitOK, NEW r \in Calls, Refused(r) \/ TimedOut(r) \/ (r \in Pushes /\ EnteredInVain(r)),
           UNCHANGED <<channel, queue, unacked, working, replies, noAck, served>>
    PROVE  TableStep /\ RabbitOK'
<1>1. TableStep
  BY DEF TableStep, Moves
<1>2. \A q \in Messages : req[q] \in {"idle", "failed"} => req'[q] \in {"idle", "failed"}
  BY NothingSent
<1>3. channel' \in [Instances -> ChannelStates]
  BY DEF RabbitOK, RabbitTypes
<1> QED BY <1>1, <1>2, <1>3, RabbitSettles

\* sendMessage(), send() and emit().
LEMMA RabbitSends ==
    ASSUME TableOK, RabbitOK, NEW r \in Messages, NEW published \in BOOLEAN,
           Rabbit!Push(r, published) \/ Rabbit!Send(r, published) \/ Rabbit!Emit(r)
    PROVE  TableStep /\ RabbitOK'
<1>1. /\ UNCHANGED <<channel, noAck, unacked, working, replies, served>>
      /\ \/ r \in Calls /\ Refused(r) /\ UNCHANGED queue
         \/ r \in Calls /\ r \in Pushes /\ EnteredInVain(r) /\ UNCHANGED queue
         \/ /\ (r \in Calls /\ (Entered(r) \/ Refused(r))) \/ (r \in Emits /\ Sent(r))
            /\ \E to \in Places : queue' = queue \cup {Rabbit!Message(r, to)}
  <2>1. /\ Rabbit!Entered(r) <=> Entered(r)
        /\ Rabbit!Refused(r) <=> Refused(r)
        /\ Rabbit!Sent(r) <=> Sent(r)
        /\ Rabbit!First(r) <=> First(r)
    BY RabbitTable
  <2>2. CASE Rabbit!Push(r, published)
    BY <2>1, <2>2 DEF Rabbit!Push, EnteredInVain, Calls, Places
  <2>3. CASE Rabbit!Send(r, published)
    BY <2>1, <2>3 DEF Rabbit!Send, Rabbit!ClientQueue, Calls, Places
  <2>4. CASE Rabbit!Emit(r)
    BY <2>1, <2>4 DEF Rabbit!Emit, Places
  <2> QED BY <2>2, <2>3, <2>4
<1>2. CASE UNCHANGED queue /\ r \in Calls /\ (Refused(r) \/ (r \in Pushes /\ EnteredInVain(r)))
  BY <1>1, <1>2, RabbitFails
<1>3. ASSUME NEW to \in Places, queue' = queue \cup {Rabbit!Message(r, to)},
             (r \in Calls /\ (Entered(r) \/ Refused(r))) \/ (r \in Emits /\ Sent(r))
      PROVE  TableStep /\ RabbitOK'
  BY <1>1, <1>3, RabbitPublishes
<1> QED BY <1>1, <1>2, <1>3

LEMMA RabbitStep ==
    ASSUME TableOK, RabbitOK, Rabbit!Next
    PROVE  TableStep /\ RabbitOK'
<1>1. ASSUME NEW r \in Calls, Rabbit!Timeout(r) PROVE TableStep /\ RabbitOK'
  BY <1>1, RabbitTable, RabbitFails DEF Rabbit!Timeout, Rabbit!rabbitVars
<1>2. Rabbit!Messages = Messages /\ Rabbit!Calls = Calls
  BY RabbitTable
<1> QED BY <1>1, <1>2, RabbitConnects, RabbitConsumes, RabbitHandles, RabbitEnds, RabbitReplies,
           RabbitSends
    DEF Rabbit!Next


LEMMA RabbitInitOK == TableInit /\ Rabbit!Init => RabbitOK
BY DEF TableInit, Rabbit!Init, RabbitOK, RabbitTypes, ChannelStates, OnItsWay, Carried, Held, NothingLost

LEMMA RabbitHolds == RabbitOK => Rabbit!NoMessageLost /\ Rabbit!UnackedIsWorkedOn
BY RabbitTable DEF RabbitOK, Held, NothingLost, Safe, Rabbit!NoMessageLost, Rabbit!UnackedIsWorkedOn

-----------------------------------------------------------------------------
(***************************************************************************)
(* All three transports                                                    *)
(***************************************************************************)
Inv ==
    /\ RequestTableAssumption /\ TableOK
    /\ transport = "TCP" => TcpOK
    /\ transport = "REDIS" => RedisOK
    /\ transport = "RABBITMQ" => RabbitOK

LEMMA TcpInitOK == TableInit /\ Tcp!Init => TcpOK
BY DEF TableInit, Tcp!Init, TcpOK, TcpWires, TcpSends, Waiting, Calls, Messages

LEMMA InvInit == RequestTableAssumption /\ Init => Inv
BY TableInitOK, TcpInitOK, RedisInitOK, RabbitInitOK DEF Init, Inv

\* Every step of a transport is one of the table, and keeps its own account.
LEMMA InvStep ==
    ASSUME Inv, Next
    PROVE  Inv' /\ TableStep
<1>1. CASE OverTcp
  <2>1. TableStep /\ TcpOK'
    BY <1>1, TcpStep DEF Inv, OverTcp
  <2>2. transport' = "TCP"
    BY <1>1 DEF OverTcp
  <2> QED BY <2>1, <2>2, TableKept DEF Inv
<1>2. CASE OverRedis
  <2>1. TableStep /\ RedisOK'
    BY <1>2, RedisStep DEF Inv, OverRedis
  <2>2. transport' = "REDIS"
    BY <1>2 DEF OverRedis
  <2> QED BY <2>1, <2>2, TableKept DEF Inv
<1>3. CASE OverRabbit
  <2>1. TableStep /\ RabbitOK'
    BY <1>3, RabbitStep DEF Inv, OverRabbit
  <2>2. transport' = "RABBITMQ"
    BY <1>3 DEF OverRabbit
  <2> QED BY <2>1, <2>2, TableKept DEF Inv
<1> QED BY <1>1, <1>2, <1>3 DEF Next

LEMMA InvStutter ==
    ASSUME Inv, UNCHANGED vars
    PROVE  Inv' /\ UNCHANGED <<table, served>>
<1>1. UNCHANGED <<table, served>> /\ UNCHANGED transport /\ UNCHANGED tcp /\ UNCHANGED redis /\ UNCHANGED rabbit
  BY DEF vars
<1>2. TableStep
  BY <1>1 DEF TableStep
<1>3. TableOK' /\ Onward
  BY <1>2, TableKept DEF Inv
<1>4. CASE transport = "TCP"
  <2>1. TcpOK'
    BY <1>1, <1>4, TcpQuiet DEF tcp, Inv
  <2> QED BY <1>1, <1>3, <1>4, <2>1 DEF Inv
<1>5. CASE transport = "REDIS"
  <2>1. RedisOK'
    BY <1>1, <1>5, RedisDelivers DEF redis, Inv
  <2> QED BY <1>1, <1>3, <1>5, <2>1 DEF Inv
<1>6. CASE transport = "RABBITMQ"
  <2>1. \A r \in Messages : req[r] \in {"idle", "failed"} => req'[r] \in {"idle", "failed"}
    BY <1>1, NothingSent DEF Inv
  <2>2. RabbitOK'
    BY <1>1, <1>2, <1>6, <2>1, RabbitSettles DEF rabbit, Inv, RabbitOK, RabbitTypes
  <2> QED BY <1>1, <1>3, <1>6, <2>2 DEF Inv
<1> QED BY <1>1, <1>3, <1>4, <1>5, <1>6 DEF Inv

LEMMA InvAlways == Spec => []Inv
<1>1. RequestTableAssumption
  BY RequestTableAssumption
<1>2. Init => Inv
  BY <1>1, InvInit
<1>3. Inv /\ [Next]_vars => Inv'
  BY InvStep, InvStutter
<1> QED BY <1>2, <1>3, PTL DEF Spec

\* Over each transport a request settles at most once, with what a handler
\* answered to this very request or with a failure, whatever races.
THEOREM PromiseHeld == Spec => RequestSpec
<1>1. Init => Promise!Init
  BY PromiseInit DEF Init
<1>2. Inv /\ [Next]_vars => [Promise!Next]_(Promise!vars)
  <2>1. ASSUME Inv, Next PROVE [Promise!Next]_(Promise!vars)
    BY <2>1, InvStep, PromiseKept DEF Inv
  <2>2. ASSUME Inv, UNCHANGED vars PROVE UNCHANGED Promise!vars
    BY <2>2, InvStutter, PromiseStutters DEF table
  <2> QED BY <2>1, <2>2
<1> QED BY <1>1, <1>2, InvAlways, PTL DEF Spec, RequestSpec, Promise!Spec

\* No entry of a pending map is without its timer; over TCP no timer outlives
\* its entry, and none waits without a connection.
THEOREM NoRequestForgotten == Spec => []NoOrphan
<1>1. Inv => NoOrphan
  BY DEF Inv, TableOK, NoOrphan, TcpOK, TcpSends, Tcp!NoOrphanTimer, Tcp!WaitsOnLiveSocket,
         Tcp!Waiting, Waiting
<1> QED BY <1>1, InvAlways, PTL

\* RedisServer holds a reply channel exactly while one of its requests waits on
\* it; RabbitMQ loses no message, and what is unacknowledged is worked on.
THEOREM AccountKept == Spec => []ServersKeepAccount
<1>1. Inv => ServersKeepAccount
  BY RedisHolds, RabbitHolds DEF Inv, ServersKeepAccount
<1> QED BY <1>1, InvAlways, PTL

====
