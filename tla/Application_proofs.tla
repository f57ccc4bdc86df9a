------------------------- MODULE Application_proofs -------------------------
(***************************************************************************)
(* Proofs about the life of an application: that the module graph is set   *)
(* up in order, shares its instances and boots with all of them rests on   *)
(* ModuleGraph_proofs; here are the hooks and transports from the creation *)
(* to the end of close(), for any providers, any number of calls and       *)
(* applications that follow one another; the handlers the explorers        *)
(* register, for any class hierarchy, and the error hooks, for any filters.*)
(***************************************************************************)
EXTENDS ModuleGraph_proofs

(***************************************************************************)
(* Transports                                                              *)
(***************************************************************************)
Servers == [kind : Kinds, handlers : BOOLEAN, listener : BOOLEAN, socket : Nat, isListening : BOOLEAN]
Sockets == [of : Nat, state : {"opening", "open", "closed"}]
Startings == [at : {"idle", "between", "awaiting", "resolved", "rejected"},
              next : Nat \ {0}, socket : Nat, alone : BOOLEAN]
Stoppings == [at : {"idle", "closing", "resolved", "rejected"}, next : Nat \ {0}, alone : BOOLEAN]

\* A server holds a socket of its own, or none yet.
HybridTyped ==
    /\ servers \in Seq(Servers) /\ sockets \in Seq(Sockets)
    /\ starter \in [Starters -> Startings] /\ stopper \in [Stoppers -> Stoppings]
    /\ \A i \in DOMAIN sockets : sockets[i].of \in DOMAIN servers
    /\ \A n \in DOMAIN servers : servers[n].socket <= Len(sockets)
    /\ \A c \in Stoppers : stopper[c].at = "idle" => stopper[c].next = 1

\* As long as no listen() was repeated, what is live is what its server holds.
Held == ~relistened =>
    \A i \in DOMAIN sockets : Hybrid!Live(i) => servers[sockets[i].of].socket = i

\* And a close() that nobody disturbs has closed the servers it has come by, and can
\* close the others.
Closing == ~relistened =>
    \A c \in Stoppers : stopper[c].alone =>
        /\ stopper[c].at = "closing" =>
             \A i \in DOMAIN sockets : Hybrid!Live(i) =>
                 /\ sockets[i].of >= stopper[c].next
                 /\ servers[sockets[i].of].kind = "tcp" => sockets[i].state = "open"
        /\ stopper[c].at = "resolved" => \A i \in DOMAIN sockets : ~Hybrid!Live(i)

HybridInv == HybridTyped /\ Held /\ Closing

LEMMA HybridInit == ASSUME Hybrid!Init PROVE HybridInv
<1>1. servers \in Seq(Servers) /\ sockets \in Seq(Sockets) /\ DOMAIN servers = {} /\ DOMAIN sockets = {}
  BY DEF Hybrid!Init
<1>2. \A c \in Stoppers : stopper[c] = [at |-> "idle", next |-> 1, alone |-> FALSE]
  BY DEF Hybrid!Init
<1>3. stopper \in [Stoppers -> Stoppings]
  BY DEF Hybrid!Init, Stoppings
<1>4. starter \in [Starters -> Startings]
  BY DEF Hybrid!Init, Startings
<1> QED BY <1>1, <1>2, <1>3, <1>4 DEF HybridInv, HybridTyped, Held, Closing

LEMMA HybridPlaces ==
    ASSUME HybridTyped
    PROVE  /\ Len(servers) \in Nat /\ DOMAIN servers = 1 .. Len(servers)
           /\ Len(sockets) \in Nat /\ DOMAIN sockets = 1 .. Len(sockets)
           /\ \A n \in DOMAIN servers : servers[n] \in Servers
           /\ \A i \in DOMAIN sockets : sockets[i] \in Sockets
<1>1. /\ Len(servers) \in Nat /\ DOMAIN servers = 1 .. Len(servers)
      /\ Len(sockets) \in Nat /\ DOMAIN sockets = 1 .. Len(sockets)
  BY LenProperties DEF HybridTyped
<1>2. \A n \in DOMAIN servers : servers[n] \in Servers
  <2>1. servers \in Seq(Servers)
    BY DEF HybridTyped
  <2> QED BY <1>1, <2>1, ElementOfSeq
<1>3. \A i \in DOMAIN sockets : sockets[i] \in Sockets
  <2>1. sockets \in Seq(Sockets)
    BY DEF HybridTyped
  <2> QED BY <1>1, <2>1, ElementOfSeq
<1> QED BY <1>1, <1>2, <1>3

\* What happens to the sockets one by one: none opens anew, and what stays live is of a
\* server that still holds it.
LEMMA Fewer ==
    ASSUME HybridInv,
           UNCHANGED relistened,
           servers' \in Seq(Servers), Len(servers') = Len(servers),
           \A n \in DOMAIN servers : /\ servers'[n].socket = servers[n].socket
                                     /\ servers'[n].kind = servers[n].kind,
           sockets' \in Seq(Sockets), Len(sockets') = Len(sockets),
           \A i \in DOMAIN sockets : /\ sockets'[i].of = sockets[i].of
                                     /\ sockets'[i].state # sockets[i].state =>
                                          \/ sockets'[i].state = "closed"
                                          \/ sockets[i].state = "opening" /\ sockets'[i].state = "open",
           starter' \in [Starters -> Startings],
           UNCHANGED stopper
    PROVE  HybridInv'
<1>1. /\ DOMAIN servers = 1 .. Len(servers) /\ DOMAIN sockets = 1 .. Len(sockets)
      /\ DOMAIN servers' = DOMAIN servers /\ DOMAIN sockets' = DOMAIN sockets
  <2>1. /\ DOMAIN servers' = 1 .. Len(servers') /\ DOMAIN sockets' = 1 .. Len(sockets')
    BY LenProperties
  <2> QED BY <2>1, HybridPlaces DEF HybridInv
<1>2. HybridTyped'
  BY <1>1 DEF HybridInv, HybridTyped
<1>3. \A i \in DOMAIN sockets : Hybrid!Live(i)' => Hybrid!Live(i)
  BY <1>1 DEF Hybrid!Live
<1>4. Held'
  <2>1. SUFFICES ASSUME ~relistened, NEW i \in DOMAIN sockets, Hybrid!Live(i)'
                 PROVE  servers'[sockets'[i].of].socket = i
    BY <1>1 DEF Held
  <2>2. servers[sockets[i].of].socket = i /\ sockets[i].of \in DOMAIN servers
    BY <1>3, <2>1 DEF HybridInv, HybridTyped, Held
  <2> QED BY <2>2
<1>5. Closing'
  <2>1. SUFFICES ASSUME ~relistened, NEW c \in Stoppers, stopper[c].alone, NEW i \in DOMAIN sockets,
                        Hybrid!Live(i)'
                 PROVE  /\ stopper[c].at = "closing" =>
                             /\ sockets'[i].of >= stopper[c].next
                             /\ servers'[sockets'[i].of].kind = "tcp" => sockets'[i].state = "open"
                        /\ stopper[c].at # "resolved"
    BY <1>1 DEF Closing
  <2>2. Hybrid!Live(i) /\ sockets[i].of \in DOMAIN servers
    BY <1>3, <2>1 DEF HybridInv, HybridTyped
  <2>3. /\ stopper[c].at = "closing" =>
             /\ sockets[i].of >= stopper[c].next
             /\ servers[sockets[i].of].kind = "tcp" => sockets[i].state = "open"
        /\ stopper[c].at # "resolved"
    BY <2>1, <2>2 DEF HybridInv, Closing
  <2>4. sockets[i].state = "open" => sockets'[i].state = "open"
    BY <2>1 DEF Hybrid!Live
  <2> QED BY <2>2, <2>3, <2>4
<1> QED BY <1>2, <1>4, <1>5 DEF HybridInv

LEMMA OnConnect == ASSUME HybridInv, NEW k \in Kinds, Hybrid!ConnectMicroservice(k) PROVE HybridInv'
<1>1. PICK v : v = [kind |-> k, handlers |-> FALSE, listener |-> FALSE, socket |-> 0, isListening |-> FALSE]
  OBVIOUS
<1>2. v \in Servers /\ v.socket = 0
  BY <1>1 DEF Servers
<1>3. servers' = Append(servers, v) /\ UNCHANGED <<sockets, starter, stopper, relistened>>
  BY <1>1 DEF Hybrid!ConnectMicroservice
<1>4. /\ Len(servers) \in Nat /\ DOMAIN servers = 1 .. Len(servers) /\ Len(sockets) \in Nat
  BY HybridPlaces DEF HybridInv
<1>5. /\ servers' \in Seq(Servers) /\ Len(servers') = Len(servers) + 1
      /\ servers'[Len(servers) + 1] = v
      /\ \A n \in DOMAIN servers : servers'[n] = servers[n]
  <2>1. servers \in Seq(Servers)
    BY DEF HybridInv, HybridTyped
  <2> QED BY <1>2, <1>3, <1>4, <2>1, AppendProperties
<1>6. DOMAIN servers' = 1 .. Len(servers) + 1
  BY <1>5, LenProperties
<1>7. \A n \in DOMAIN servers' : n \in DOMAIN servers \/ n = Len(servers) + 1
  BY <1>4, <1>6
<1>8. DOMAIN servers \subseteq DOMAIN servers'
  BY <1>4, <1>6
<1>9. HybridTyped'
  <2>1. \A n \in DOMAIN servers' : servers'[n].socket <= Len(sockets)
    BY <1>2, <1>4, <1>5, <1>7 DEF HybridInv, HybridTyped
  <2>2. \A i \in DOMAIN sockets : sockets[i].of \in DOMAIN servers'
    BY <1>8 DEF HybridInv, HybridTyped
  <2> QED BY <1>3, <1>5, <2>1, <2>2 DEF HybridInv, HybridTyped
<1>10. \A i \in DOMAIN sockets : servers'[sockets[i].of] = servers[sockets[i].of]
  BY <1>5 DEF HybridInv, HybridTyped
<1>11. \A i \in DOMAIN sockets : Hybrid!Live(i)' = Hybrid!Live(i)
  BY <1>3 DEF Hybrid!Live
<1>12. Held' /\ Closing'
  BY <1>3, <1>10, <1>11 DEF HybridInv, Held, Closing
<1> QED BY <1>9, <1>12 DEF HybridInv

LEMMA OnStartAll == ASSUME HybridInv, NEW s \in Starters, Hybrid!StartAll(s) \/ Hybrid!Started(s)
                    PROVE  HybridInv'
<1>1. /\ UNCHANGED <<servers, sockets, stopper, relistened>>
      /\ starter' \in [Starters -> Startings]
  <2>1. starter \in [Starters -> Startings] /\ Hybrid!Stopping \in BOOLEAN
    BY DEF HybridInv, HybridTyped, Hybrid!Stopping
  <2>2. CASE Hybrid!StartAll(s)
    <3>1. PICK alone \in BOOLEAN : alone = ~Hybrid!Stopping
      BY <2>1
    <3>2. starter' = [starter EXCEPT ![s] = [starter[s] EXCEPT !.at = "between", !.alone = alone]]
      BY <2>2, <3>1 DEF Hybrid!StartAll
    <3>3. [starter[s] EXCEPT !.at = "between", !.alone = alone] \in Startings
      BY <2>1 DEF Startings
    <3> QED BY <2>1, <2>2, <3>2, <3>3 DEF Hybrid!StartAll
  <2>3. CASE Hybrid!Started(s)
    BY <2>1, <2>3 DEF Hybrid!Started, Startings
  <2> QED BY <2>2, <2>3
<1>3. servers \in Seq(Servers) /\ sockets \in Seq(Sockets)
  BY DEF HybridInv, HybridTyped
<1> QED BY <1>1, <1>3, Fewer

\* Another socket, of a server that had none or lost its own.
LEMMA OnStartMicroservice == ASSUME HybridInv, NEW s \in Starters, Hybrid!StartMicroservice(s)
                             PROVE  HybridInv'
<1>1. PICK n : n = starter[s].next
  OBVIOUS
<1>2. PICK j : j = Len(sockets) + 1
  OBVIOUS
<1>3. PICK new : new = [of |-> n, state |-> "opening"]
  OBVIOUS
<1>4. /\ Len(servers) \in Nat /\ DOMAIN servers = 1 .. Len(servers) /\ Len(sockets) \in Nat
      /\ DOMAIN sockets = 1 .. Len(sockets) /\ \A m \in DOMAIN servers : servers[m] \in Servers
  BY HybridPlaces DEF HybridInv
<1>5. /\ n <= Len(servers) /\ n \in Nat \ {0} /\ n \in DOMAIN servers
      /\ servers' = [servers EXCEPT ![n].handlers = TRUE, ![n].listener = TRUE, ![n].socket = j]
      /\ sockets' = Append(sockets, new)
      /\ relistened' = (relistened \/ Hybrid!Live(servers[n].socket))
      /\ starter' = [starter EXCEPT ![s].at = "awaiting", ![s].socket = j]
      /\ stopper' = [c \in Stoppers |-> [stopper[c] EXCEPT !.alone = FALSE]]
  <2>1. starter[s] \in Startings
    BY DEF HybridInv, HybridTyped
  <2>2. n \in Nat \ {0}
    BY <1>1, <2>1 DEF Startings
  <2> QED BY <1>1, <1>2, <1>3, <1>4, <2>2 DEF Hybrid!StartMicroservice
<1>6. PICK v : v = [servers[n] EXCEPT !.handlers = TRUE, !.listener = TRUE, !.socket = j]
  OBVIOUS
<1>7. v \in Servers /\ v.socket = j /\ v.kind = servers[n].kind /\ j \in Nat
  <2>1. servers[n] \in Servers /\ j \in Nat
    BY <1>2, <1>4, <1>5
  <2> QED BY <1>6, <2>1 DEF Servers
<1>8. servers' = [servers EXCEPT ![n] = v]
  BY <1>5, <1>6
<1>9. /\ servers' \in Seq(Servers) /\ Len(servers') = Len(servers) /\ servers'[n] = v
      /\ \A m \in DOMAIN servers : m # n => servers'[m] = servers[m]
  <2>1. servers \in Seq(Servers) /\ n \in 1 .. Len(servers)
    BY <1>4, <1>5 DEF HybridInv, HybridTyped
  <2> QED BY <1>4, <1>7, <1>8, <2>1, ExceptSeq
<1>10. DOMAIN servers' = DOMAIN servers
  BY <1>4, <1>9, LenProperties
<1>11. /\ sockets' \in Seq(Sockets) /\ Len(sockets') = j /\ sockets'[j] = new
       /\ \A i \in DOMAIN sockets : sockets'[i] = sockets[i]
  <2>1. sockets \in Seq(Sockets)
    BY DEF HybridInv, HybridTyped
  <2>2. new \in Sockets
    BY <1>3, <1>5 DEF Sockets
  <2> QED BY <1>2, <1>4, <1>5, <2>1, <2>2, AppendProperties
<1>12. DOMAIN sockets' = 1 .. j /\ \A i \in DOMAIN sockets' : i = j \/ i \in DOMAIN sockets
  <2>1. DOMAIN sockets' = 1 .. j
    BY <1>11, LenProperties
  <2> QED BY <1>2, <1>4, <2>1
<1>13. /\ stopper' \in [Stoppers -> Stoppings] /\ \A c \in Stoppers : ~stopper'[c].alone
       /\ \A c \in Stoppers : stopper'[c].at = stopper[c].at /\ stopper'[c].next = stopper[c].next
  <2>1. stopper \in [Stoppers -> Stoppings]
    BY DEF HybridInv, HybridTyped
  <2> QED BY <1>5, <2>1 DEF Stoppings
<1>14. starter' \in [Starters -> Startings]
  BY <1>5, <1>7 DEF HybridInv, HybridTyped, Startings
<1>15. HybridTyped'
  <2>1. \A m \in DOMAIN servers' : servers'[m].socket <= j
    <3>1. \A m \in DOMAIN servers : servers[m].socket \in Nat /\ servers[m].socket <= Len(sockets)
      BY <1>4 DEF HybridInv, HybridTyped, Servers
    <3>2. \A m \in DOMAIN servers : servers'[m].socket <= j
      BY <1>2, <1>4, <1>7, <1>9, <3>1
    <3> QED BY <1>10, <3>2
  <2>2. \A i \in DOMAIN sockets' : sockets'[i].of \in DOMAIN servers'
    BY <1>3, <1>5, <1>10, <1>11, <1>12 DEF HybridInv, HybridTyped
  <2> QED BY <1>9, <1>11, <1>13, <1>14, <2>1, <2>2 DEF HybridInv, HybridTyped
<1>16. Held'
  <2>1. SUFFICES ASSUME ~relistened', NEW i \in DOMAIN sockets', Hybrid!Live(i)'
                 PROVE  servers'[sockets'[i].of].socket = i
    BY DEF Held
  <2>2. CASE i = j
    BY <1>3, <1>7, <1>9, <1>11, <2>2
  <2>3. CASE i # j
    <3>1. i \in DOMAIN sockets /\ Hybrid!Live(i) /\ sockets'[i] = sockets[i]
      BY <1>11, <1>12, <2>1, <2>3 DEF Hybrid!Live
    <3>2. ~relistened /\ ~Hybrid!Live(servers[n].socket)
      BY <1>5, <2>1
    <3>3. servers[sockets[i].of].socket = i /\ sockets[i].of \in DOMAIN servers
      BY <3>1, <3>2 DEF HybridInv, HybridTyped, Held
    <3>4. sockets[i].of # n
      BY <3>1, <3>2, <3>3
    <3> QED BY <1>9, <3>1, <3>3, <3>4
  <2> QED BY <2>2, <2>3
<1>17. Closing'
  BY <1>13 DEF Closing
<1> QED BY <1>15, <1>16, <1>17 DEF HybridInv

\* The callback of a listen() sends one start on, or back.
LEMMA CalledBackTyped ==
    ASSUME starter \in [Starters -> Startings], NEW i, NEW at \in {"between", "rejected"},
           Hybrid!CalledBack(i, at)
    PROVE  starter' \in [Starters -> Startings]
<1>1. ASSUME NEW s \in Starters
      PROVE  [starter[s] EXCEPT !.at = at, !.next = @ + 1] \in Startings
  <2>1. starter[s] \in Startings
    OBVIOUS
  <2>2. starter[s].next + 1 \in Nat \ {0}
    BY <2>1 DEF Startings
  <2> QED BY <2>1, <2>2 DEF Startings
<1> QED BY <1>1 DEF Hybrid!CalledBack

LEMMA OnAnswered ==
    ASSUME HybridInv, NEW i \in DOMAIN sockets, Hybrid!Opens(i) \/ Hybrid!Refused(i)
    PROVE  HybridInv'
<1>1. /\ servers \in Seq(Servers) /\ sockets \in Seq(Sockets) /\ starter \in [Starters -> Startings]
      /\ sockets[i].of \in DOMAIN servers
  BY DEF HybridInv, HybridTyped
<1>2. /\ DOMAIN servers = 1 .. Len(servers) /\ DOMAIN sockets = 1 .. Len(sockets)
      /\ \A n \in DOMAIN servers : servers[n] \in Servers
      /\ \A j \in DOMAIN sockets : sockets[j] \in Sockets
  BY HybridPlaces DEF HybridInv
<1>3. sockets[i].state = "opening" /\ UNCHANGED <<stopper, relistened>>
  BY DEF Hybrid!Opens, Hybrid!Refused
<1>4. starter' \in [Starters -> Startings]
  BY <1>1, CalledBackTyped DEF Hybrid!Opens, Hybrid!Refused
<1>5. PICK st \in {"open", "closed"} : sockets' = [sockets EXCEPT ![i].state = st]
  BY DEF Hybrid!Opens, Hybrid!Refused
<1>6. PICK k : k = [sockets[i] EXCEPT !.state = st]
  OBVIOUS
<1>7. k \in Sockets /\ k.of = sockets[i].of /\ k.state = st
  BY <1>2, <1>6 DEF Sockets
<1>8. /\ sockets' \in Seq(Sockets) /\ Len(sockets') = Len(sockets)
      /\ \A j \in DOMAIN sockets : sockets'[j] = IF j = i THEN k ELSE sockets[j]
  <2>1. sockets' = [sockets EXCEPT ![i] = k]
    BY <1>5, <1>6
  <2> QED BY <1>1, <1>2, <1>7, <2>1, ExceptSeq
<1>9. \A j \in DOMAIN sockets : /\ sockets'[j].of = sockets[j].of
                                /\ sockets'[j].state # sockets[j].state =>
                                     \/ sockets'[j].state = "closed"
                                     \/ sockets[j].state = "opening" /\ sockets'[j].state = "open"
  BY <1>3, <1>7, <1>8
<1>10. /\ servers' \in Seq(Servers) /\ Len(servers') = Len(servers)
       /\ \A n \in DOMAIN servers : /\ servers'[n].socket = servers[n].socket
                                    /\ servers'[n].kind = servers[n].kind
  <2>1. CASE Hybrid!Refused(i)
    BY <1>1, <2>1 DEF Hybrid!Refused
  <2>2. CASE Hybrid!Opens(i)
    <3>1. PICK n \in DOMAIN servers : n = sockets[i].of
      BY <1>1
    <3>2. PICK v : v = [servers[n] EXCEPT !.isListening = TRUE]
      OBVIOUS
    <3>3. v \in Servers /\ v.socket = servers[n].socket /\ v.kind = servers[n].kind
      BY <1>2, <3>2 DEF Servers
    <3>4. servers' = [servers EXCEPT ![n] = v]
      BY <2>2, <3>1, <3>2 DEF Hybrid!Opens
    <3> QED BY <1>1, <1>2, <3>3, <3>4, ExceptSeq
  <2> QED BY <2>1, <2>2
<1> QED BY <1>3, <1>4, <1>8, <1>9, <1>10, Fewer

\* A close() sees to every server from the first on.
LEMMA OnStop ==
    ASSUME HybridInv, NEW c \in Stoppers,
           Hybrid!Close(c) \/ Hybrid!CloseFails(c) \/ Hybrid!TransportsClosed(c)
    PROVE  HybridInv'
<1>1. /\ servers \in Seq(Servers) /\ sockets \in Seq(Sockets)
      /\ starter \in [Starters -> Startings] /\ stopper \in [Stoppers -> Stoppings]
      /\ \A i \in DOMAIN sockets : sockets[i].of \in DOMAIN servers
      /\ DOMAIN servers = 1 .. Len(servers) /\ Len(servers) \in Nat
  BY HybridPlaces DEF HybridInv, HybridTyped
<1>2. UNCHANGED <<servers, sockets, relistened>> /\ starter' \in [Starters -> Startings]
  <2>1. CASE Hybrid!Close(c)
    BY <1>1, <2>1 DEF Hybrid!Close, Startings
  <2>2. CASE Hybrid!CloseFails(c) \/ Hybrid!TransportsClosed(c)
    BY <1>1, <2>2 DEF Hybrid!CloseFails, Hybrid!TransportsClosed
  <2> QED BY <2>1, <2>2
<1>3. \E at \in {"closing", "resolved", "rejected"}, alone \in BOOLEAN :
          /\ stopper' = [stopper EXCEPT ![c] = [stopper[c] EXCEPT !.at = at, !.alone = alone]]
          /\ at = "closing" => stopper[c].at = "idle" /\ (alone => Hybrid!Undisturbed)
          /\ at = "resolved" => /\ stopper[c].at = "closing" /\ stopper[c].next > Len(servers)
                                /\ alone = stopper[c].alone
  <2>1. stopper[c] \in Stoppings
    BY <1>1
  <2>2. CASE Hybrid!Close(c)
    <3>1. PICK alone \in BOOLEAN : alone = Hybrid!Undisturbed
      BY DEF Hybrid!Undisturbed
    <3>2. stopper' = [stopper EXCEPT ![c] = [stopper[c] EXCEPT !.at = "closing", !.alone = alone]]
      BY <2>2, <3>1 DEF Hybrid!Close
    <3> QED BY <2>2, <3>1, <3>2 DEF Hybrid!Close
  <2>3. CASE Hybrid!CloseFails(c) \/ Hybrid!TransportsClosed(c)
    <3>1. PICK at \in {"resolved", "rejected"} :
             /\ stopper' = [stopper EXCEPT ![c] = [stopper[c] EXCEPT !.at = at]]
             /\ at = "resolved" => stopper[c].at = "closing" /\ stopper[c].next > Len(servers)
      BY <2>3 DEF Hybrid!CloseFails, Hybrid!TransportsClosed
    <3>2. PICK alone \in BOOLEAN : alone = stopper[c].alone
      BY <2>1 DEF Stoppings
    <3>3. [stopper[c] EXCEPT !.at = at] = [stopper[c] EXCEPT !.at = at, !.alone = alone]
      BY <2>1, <3>2 DEF Stoppings
    <3> QED BY <3>1, <3>2, <3>3
  <2> QED BY <2>2, <2>3
<1>4. PICK at \in {"closing", "resolved", "rejected"}, alone \in BOOLEAN :
          /\ stopper' = [stopper EXCEPT ![c] = [stopper[c] EXCEPT !.at = at, !.alone = alone]]
          /\ at = "closing" => stopper[c].at = "idle" /\ (alone => Hybrid!Undisturbed)
          /\ at = "resolved" => /\ stopper[c].at = "closing" /\ stopper[c].next > Len(servers)
                                /\ alone = stopper[c].alone
  BY <1>3
<1>5. PICK r : r = [stopper[c] EXCEPT !.at = at, !.alone = alone]
  OBVIOUS
<1>6. /\ r \in Stoppings /\ r.at = at /\ r.alone = alone /\ r.next = stopper[c].next
      /\ stopper' \in [Stoppers -> Stoppings] /\ stopper'[c] = r
      /\ \A d \in Stoppers : d # c => stopper'[d] = stopper[d]
  <2>1. stopper[c] \in Stoppings
    BY <1>1
  <2>2. r \in Stoppings /\ r.at = at /\ r.alone = alone /\ r.next = stopper[c].next
    BY <1>5, <2>1 DEF Stoppings
  <2> QED BY <1>1, <1>4, <1>5, <2>2
<1>7. HybridTyped'
  BY <1>1, <1>2, <1>6 DEF HybridInv, HybridTyped
<1>8. Held'
  BY <1>2 DEF HybridInv, Held, Hybrid!Live
<1>9. \A i : Hybrid!Live(i)' = Hybrid!Live(i)
  BY <1>2 DEF Hybrid!Live
<1>10. Closing'
  <2>1. SUFFICES ASSUME ~relistened, NEW d \in Stoppers, stopper'[d].alone,
                        NEW i \in DOMAIN sockets, Hybrid!Live(i)
                 PROVE  /\ stopper'[d].at = "closing" =>
                             /\ sockets[i].of >= stopper'[d].next
                             /\ servers[sockets[i].of].kind = "tcp" => sockets[i].state = "open"
                        /\ stopper'[d].at # "resolved"
    BY <1>2, <1>9 DEF Closing
  <2>2. CASE d # c
    BY <1>6, <2>1, <2>2 DEF HybridInv, Closing
  <2>3. CASE d = c
    <3>1. CASE at = "closing"
      <4>1. stopper'[d].next = 1 /\ stopper'[d].at = "closing" /\ Hybrid!Undisturbed
        BY <1>4, <1>6, <2>1, <2>3, <3>1 DEF HybridInv, HybridTyped
      <4>2. sockets[i].of >= 1
        BY <1>1
      <4> QED BY <2>1, <4>1, <4>2 DEF Hybrid!Undisturbed
    <3>2. CASE at = "resolved"
      <4>1. sockets[i].of >= stopper[c].next
        BY <1>4, <1>6, <2>1, <2>3, <3>2 DEF HybridInv, Closing
      <4>2. sockets[i].of <= Len(servers) /\ sockets[i].of \in Nat /\ stopper[c].next \in Nat
        BY <1>1 DEF Stoppings
      <4> QED BY <1>1, <1>4, <3>2, <4>1, <4>2
    <3>3. CASE at = "rejected"
      BY <1>6, <2>3, <3>3
    <3> QED BY <3>1, <3>2, <3>3
  <2> QED BY <2>2, <2>3
<1> QED BY <1>7, <1>8, <1>10 DEF HybridInv

LEMMA OnCloseTransport == ASSUME HybridInv, NEW c \in Stoppers, Hybrid!CloseTransport(c)
                          PROVE  HybridInv'
<1>1. PICK n : n = stopper[c].next
  OBVIOUS
<1>2. PICK i : i = servers[n].socket
  OBVIOUS
<1>3. /\ servers \in Seq(Servers) /\ sockets \in Seq(Sockets) /\ stopper \in [Stoppers -> Stoppings]
      /\ starter \in [Starters -> Startings]
      /\ \A j \in DOMAIN sockets : sockets[j].of \in DOMAIN servers
      /\ Len(servers) \in Nat /\ DOMAIN servers = 1 .. Len(servers)
      /\ Len(sockets) \in Nat /\ DOMAIN sockets = 1 .. Len(sockets)
      /\ \A m \in DOMAIN servers : servers[m] \in Servers
      /\ \A j \in DOMAIN sockets : sockets[j] \in Sockets
  BY HybridPlaces DEF HybridInv, HybridTyped
<1>4. /\ stopper[c].at = "closing" /\ n \in Nat \ {0} /\ n \in DOMAIN servers
      /\ UNCHANGED <<starter, relistened>>
  <2>1. stopper[c] \in Stoppings
    BY <1>3
  <2>2. n \in Nat \ {0}
    BY <1>1, <2>1 DEF Stoppings
  <2> QED BY <1>1, <1>3, <2>2 DEF Hybrid!CloseTransport
<1>5. \E v \in Servers : /\ v.socket = servers[n].socket /\ v.kind = servers[n].kind
                         /\ servers' = [servers EXCEPT ![n] = v]
  <2>1. servers[n] \in Servers
    BY <1>3, <1>4
  <2>2. PICK h \in BOOLEAN : h = (servers[n].handlers /\ servers[n].kind = "custom")
    OBVIOUS
  <2>3. PICK l \in BOOLEAN : l = (servers[n].listener /\ servers[n].kind = "custom")
    OBVIOUS
  <2>4. PICK v : v = [servers[n] EXCEPT !.handlers = h, !.listener = l, !.isListening = FALSE]
    OBVIOUS
  <2>5. v \in Servers /\ v.socket = servers[n].socket /\ v.kind = servers[n].kind
    BY <2>1, <2>4 DEF Servers
  <2>6. servers' = [servers EXCEPT ![n] = v]
    BY <1>1, <2>1, <2>2, <2>3, <2>4 DEF Hybrid!CloseTransport, Servers
  <2> QED BY <2>5, <2>6
<1>6. PICK v \in Servers : /\ v.socket = servers[n].socket /\ v.kind = servers[n].kind
                           /\ servers' = [servers EXCEPT ![n] = v]
  BY <1>5
<1>7. /\ servers' \in Seq(Servers) /\ Len(servers') = Len(servers) /\ DOMAIN servers' = DOMAIN servers
      /\ \A m \in DOMAIN servers : /\ servers'[m].socket = servers[m].socket
                                   /\ servers'[m].kind = servers[m].kind
  <2>1. /\ servers' \in Seq(Servers) /\ Len(servers') = Len(servers)
        /\ \A m \in DOMAIN servers : servers'[m] = IF m = n THEN v ELSE servers[m]
    BY <1>3, <1>4, <1>6, ExceptSeq
  <2>2. DOMAIN servers' = DOMAIN servers
    BY <1>3, <2>1, LenProperties
  <2> QED BY <1>6, <2>1, <2>2
<1>8. \/ /\ Hybrid!Live(i) /\ sockets' = [sockets EXCEPT ![i].state = "closed"]
      \/ /\ Hybrid!Live(i) /\ servers[n].kind = "tcp" /\ sockets[i].state = "opening"
         /\ UNCHANGED sockets
      \/ ~Hybrid!Live(i) /\ UNCHANGED sockets
  BY <1>1, <1>2 DEF Hybrid!CloseTransport
<1>9. Hybrid!Live(i) => i \in DOMAIN sockets
  <2>1. servers[n].socket \in Nat /\ servers[n].socket <= Len(sockets)
    BY <1>3, <1>4 DEF HybridInv, HybridTyped, Servers
  <2> QED BY <1>2, <1>3, <2>1 DEF Hybrid!Live
<1>10. /\ sockets' \in Seq(Sockets) /\ Len(sockets') = Len(sockets) /\ DOMAIN sockets' = DOMAIN sockets
       /\ \A j \in DOMAIN sockets : /\ sockets'[j].of = sockets[j].of
                                    /\ sockets'[j].state # sockets[j].state => sockets'[j].state = "closed"
       /\ sockets' # sockets => sockets'[i].state = "closed"
  <2>1. CASE UNCHANGED sockets
    BY <1>3, <2>1
  <2>2. CASE Hybrid!Live(i) /\ sockets' = [sockets EXCEPT ![i].state = "closed"]
    <3>1. PICK k : k = [sockets[i] EXCEPT !.state = "closed"]
      OBVIOUS
    <3>2. k \in Sockets /\ k.of = sockets[i].of /\ k.state = "closed"
      BY <1>3, <1>9, <2>2, <3>1 DEF Sockets
    <3>3. sockets' = [sockets EXCEPT ![i] = k]
      BY <2>2, <3>1
    <3>4. /\ sockets' \in Seq(Sockets) /\ Len(sockets') = Len(sockets)
          /\ \A j \in DOMAIN sockets : sockets'[j] = IF j = i THEN k ELSE sockets[j]
      <4>1. i \in 1 .. Len(sockets) /\ sockets \in Seq(Sockets)
        BY <1>3, <1>9, <2>2
      <4>2. \A j \in 1 .. Len(sockets) : [sockets EXCEPT ![i] = k][j] = IF j = i THEN k ELSE sockets[j]
        BY <3>2, <4>1, ExceptSeq
      <4>3. [sockets EXCEPT ![i] = k] \in Seq(Sockets) /\ Len([sockets EXCEPT ![i] = k]) = Len(sockets)
        BY <3>2, <4>1, ExceptSeq
      <4> QED BY <1>3, <3>3, <4>2, <4>3
    <3>5. DOMAIN sockets' = DOMAIN sockets
      BY <1>3, <3>4, LenProperties
    <3> QED BY <1>9, <2>2, <3>2, <3>4, <3>5
  <2> QED BY <1>8, <2>1, <2>2
<1>11. PICK r : r = [stopper[c] EXCEPT !.next = n + 1]
  OBVIOUS
<1>12. /\ r \in Stoppings /\ r.at = "closing" /\ r.alone = stopper[c].alone /\ r.next = n + 1
       /\ stopper' \in [Stoppers -> Stoppings] /\ stopper'[c] = r
       /\ \A d \in Stoppers : d # c => stopper'[d] = stopper[d]
  <2>1. stopper[c] \in Stoppings /\ n + 1 \in Nat \ {0}
    BY <1>3, <1>4
  <2>2. r \in Stoppings /\ r.at = "closing" /\ r.alone = stopper[c].alone /\ r.next = n + 1
    BY <1>4, <1>11, <2>1 DEF Stoppings
  <2>3. stopper' = [stopper EXCEPT ![c] = r]
    BY <1>1, <1>11 DEF Hybrid!CloseTransport
  <2> QED BY <1>3, <2>2, <2>3
<1>13. HybridTyped'
  BY <1>3, <1>4, <1>7, <1>10, <1>12 DEF HybridInv, HybridTyped
<1>14. \A j \in DOMAIN sockets : Hybrid!Live(j)' => Hybrid!Live(j) /\ sockets'[j] = sockets[j]
  <2>1. SUFFICES ASSUME NEW j \in DOMAIN sockets, Hybrid!Live(j)'
                 PROVE  Hybrid!Live(j) /\ sockets'[j] = sockets[j]
    OBVIOUS
  <2>2. sockets'[j].state = sockets[j].state
    BY <1>10, <2>1 DEF Hybrid!Live
  <2>3. sockets'[j] \in Sockets /\ sockets[j] \in Sockets /\ sockets'[j].of = sockets[j].of
    BY <1>3, <1>10, ElementOfSeq
  <2> QED BY <2>1, <2>2, <2>3 DEF Hybrid!Live, Sockets
<1>15. Held'
  <2>1. SUFFICES ASSUME ~relistened, NEW j \in DOMAIN sockets, Hybrid!Live(j)'
                 PROVE  servers'[sockets'[j].of].socket = j
    BY <1>4, <1>10 DEF Held
  <2>2. servers[sockets[j].of].socket = j /\ sockets[j].of \in DOMAIN servers
    BY <1>3, <1>14, <2>1 DEF HybridInv, Held
  <2> QED BY <1>7, <1>10, <2>2
<1>16. Closing'
  <2>1. SUFFICES ASSUME ~relistened, NEW d \in Stoppers, stopper'[d].alone,
                        NEW j \in DOMAIN sockets, Hybrid!Live(j)'
                 PROVE  /\ stopper'[d].at = "closing" =>
                             /\ sockets'[j].of >= stopper'[d].next
                             /\ servers'[sockets'[j].of].kind = "tcp" => sockets'[j].state = "open"
                        /\ stopper'[d].at # "resolved"
    BY <1>4, <1>10 DEF Closing
  <2>2. /\ Hybrid!Live(j) /\ sockets'[j] = sockets[j] /\ sockets[j].of \in DOMAIN servers
        /\ servers'[sockets'[j].of].kind = servers[sockets[j].of].kind
    BY <1>3, <1>7, <1>14, <2>1
  <2>3. /\ stopper[d].alone
        /\ stopper'[d].at = stopper[d].at
    BY <1>4, <1>12, <2>1
  <2>4. /\ stopper[d].at = "closing" =>
             /\ sockets[j].of >= stopper[d].next
             /\ servers[sockets[j].of].kind = "tcp" => sockets[j].state = "open"
        /\ stopper[d].at # "resolved"
    BY <2>1, <2>2, <2>3 DEF HybridInv, Closing
  <2>5. CASE d # c
    BY <1>12, <2>2, <2>3, <2>4, <2>5
  <2>6. CASE d = c
    <3>1. sockets[j].of >= n /\ sockets[j].of \in Nat
      BY <1>1, <1>3, <1>4, <2>2, <2>4, <2>6
    <3>2. sockets[j].of # n
      <4>1. SUFFICES ASSUME sockets[j].of = n PROVE FALSE
        OBVIOUS
      <4>2. i = j
        BY <1>2, <2>1, <2>2, <4>1 DEF HybridInv, Held
      <4>3. UNCHANGED sockets
        BY <1>10, <2>1, <4>2 DEF Hybrid!Live
      <4>4. sockets[j].state = "opening" /\ servers[sockets[j].of].kind = "tcp"
        <5>1. sockets' # [sockets EXCEPT ![i].state = "closed"]
          <6>1. PICK k : k = [sockets[j] EXCEPT !.state = "closed"]
            OBVIOUS
          <6>2. k.state = "closed"
            BY <1>3, <6>1 DEF Sockets
          <6>3. [sockets EXCEPT ![j].state = "closed"][j] = k
            BY <1>3, <6>1
          <6>4. sockets'[j].state # "closed"
            BY <2>1 DEF Hybrid!Live
          <6> QED BY <4>2, <6>2, <6>3, <6>4
        <5> QED BY <1>8, <2>2, <4>1, <4>2, <5>1
      <4> QED BY <1>4, <2>4, <2>6, <4>4
    <3>3. sockets[j].of >= n + 1
      BY <1>4, <3>1, <3>2
    <3> QED BY <1>12, <2>2, <2>3, <2>4, <2>6, <3>3
  <2> QED BY <2>5, <2>6
<1> QED BY <1>13, <1>15, <1>16 DEF HybridInv

LEMMA HybridStep == ASSUME HybridInv, [Hybrid!Next]_hybrid PROVE HybridInv'
<1>1. CASE UNCHANGED hybrid
  <2>1. UNCHANGED <<servers, sockets, starter, stopper, relistened>>
    BY <1>1 DEF hybrid
  <2> QED BY <2>1 DEF HybridInv, HybridTyped, Held, Closing, Hybrid!Live
<1>2. ASSUME NEW k \in Kinds, Hybrid!ConnectMicroservice(k)
      PROVE  HybridInv'
  BY <1>2, OnConnect
<1>3. ASSUME NEW s \in Starters, Hybrid!StartAll(s) \/ Hybrid!StartMicroservice(s) \/ Hybrid!Started(s)
      PROVE  HybridInv'
  BY <1>3, OnStartAll, OnStartMicroservice
<1>4. ASSUME NEW i \in DOMAIN sockets, Hybrid!Opens(i) \/ Hybrid!Refused(i)
      PROVE  HybridInv'
  BY <1>4, OnAnswered
<1>5. ASSUME NEW c \in Stoppers, \/ Hybrid!Close(c) \/ Hybrid!CloseTransport(c) \/ Hybrid!CloseFails(c)
                                 \/ Hybrid!TransportsClosed(c)
      PROVE  HybridInv'
  BY <1>5, OnStop, OnCloseTransport
<1> QED BY <1>1, <1>2, <1>3, <1>4, <1>5 DEF Hybrid!Next

LEMMA HybridKeeps == HybridInv => Hybrid!NothingListens
<1> QED BY DEF HybridInv, Closing, Hybrid!NothingListens

\* What no step changes of a server that is there, and of a socket that is not closed.
Lasting ==
    /\ \A n \in DOMAIN servers : n \in DOMAIN servers' /\ servers'[n].kind = servers[n].kind
    /\ \A i \in DOMAIN sockets : i \in DOMAIN sockets' /\ sockets'[i].of = sockets[i].of

\* A step leaves every server its handlers and listener, and every open socket open, unless a
\* close() is under way, and then a custom transport its listener.
Quiet ==
    /\ \A n \in DOMAIN servers : /\ servers[n].handlers => servers'[n].handlers
                                 /\ servers[n].listener => servers'[n].listener
    /\ \A i \in DOMAIN sockets : sockets[i].state = "open" => sockets'[i].state = "open"

Custom ==
    \A n \in DOMAIN servers :
        servers[n].kind = "custom" /\ servers[n].listener => servers'[n].listener

\* A socket that becomes live belongs to a server that has a listener.
Fresher ==
    \A i \in DOMAIN sockets' : Hybrid!Live(i)' =>
        \/ i \in DOMAIN sockets /\ Hybrid!Live(i)
        \/ servers'[sockets'[i].of].listener

LEMMA ConnectLasts ==
    ASSUME HybridInv, NEW k \in Kinds, Hybrid!ConnectMicroservice(k)
    PROVE  Lasting /\ Quiet /\ Custom /\ Fresher
<1>1. PICK v : v = [kind |-> k, handlers |-> FALSE, listener |-> FALSE, socket |-> 0, isListening |-> FALSE]
  OBVIOUS
<1>2. v \in Servers
  BY <1>1 DEF Servers
<1>3. servers' = Append(servers, v) /\ UNCHANGED sockets
  BY <1>1 DEF Hybrid!ConnectMicroservice
<1>4. /\ Len(servers) \in Nat /\ DOMAIN servers = 1 .. Len(servers) /\ servers \in Seq(Servers)
  BY HybridPlaces DEF HybridInv, HybridTyped
<1>5. /\ servers' \in Seq(Servers) /\ Len(servers') = Len(servers) + 1
      /\ \A n \in DOMAIN servers : servers'[n] = servers[n]
  BY <1>2, <1>3, <1>4, AppendProperties
<1>6. DOMAIN servers' = 1 .. Len(servers) + 1
  BY <1>5, LenProperties
<1>7. DOMAIN servers \subseteq DOMAIN servers'
  BY <1>4, <1>6
<1> QED BY <1>3, <1>5, <1>7 DEF Lasting, Quiet, Custom, Fresher, Hybrid!Live

LEMMA StartLasts ==
    ASSUME HybridInv, NEW s \in Starters, Hybrid!StartMicroservice(s)
    PROVE  /\ Lasting /\ Quiet /\ Custom /\ Fresher
           /\ starter[s].next \in DOMAIN servers
           /\ servers'[starter[s].next].handlers /\ servers'[starter[s].next].listener
           /\ Len(sockets) + 1 \in DOMAIN sockets' /\ Len(sockets) + 1 \in Nat \ {0}
           /\ sockets'[Len(sockets) + 1].of = starter[s].next
<1>1. PICK n : n = starter[s].next
  OBVIOUS
<1>2. PICK j : j = Len(sockets) + 1
  OBVIOUS
<1>3. PICK new : new = [of |-> n, state |-> "opening"]
  OBVIOUS
<1>4. /\ Len(servers) \in Nat /\ DOMAIN servers = 1 .. Len(servers) /\ Len(sockets) \in Nat
      /\ DOMAIN sockets = 1 .. Len(sockets) /\ \A m \in DOMAIN servers : servers[m] \in Servers
  BY HybridPlaces DEF HybridInv
<1>5. /\ n \in Nat \ {0} /\ n \in DOMAIN servers
      /\ servers' = [servers EXCEPT ![n].handlers = TRUE, ![n].listener = TRUE, ![n].socket = j]
      /\ sockets' = Append(sockets, new)
  <2>1. starter[s] \in Startings
    BY DEF HybridInv, HybridTyped
  <2>2. n \in Nat \ {0}
    BY <1>1, <2>1 DEF Startings
  <2> QED BY <1>1, <1>2, <1>3, <1>4, <2>2 DEF Hybrid!StartMicroservice
<1>6. /\ DOMAIN servers' = DOMAIN servers
      /\ \A m \in DOMAIN servers : servers'[m].kind = servers[m].kind
      /\ \A m \in DOMAIN servers : m # n => servers'[m] = servers[m]
      /\ servers'[n].handlers /\ servers'[n].listener
  BY <1>4, <1>5 DEF Servers
<1>7. /\ sockets' \in Seq(Sockets) /\ Len(sockets') = j /\ sockets'[j] = new
      /\ \A i \in DOMAIN sockets : sockets'[i] = sockets[i]
  <2>1. sockets \in Seq(Sockets)
    BY DEF HybridInv, HybridTyped
  <2>2. new \in Sockets
    BY <1>3, <1>5 DEF Sockets
  <2> QED BY <1>2, <1>4, <1>5, <2>1, <2>2, AppendProperties
<1>8. DOMAIN sockets' = 1 .. j /\ \A i \in DOMAIN sockets' : i = j \/ i \in DOMAIN sockets
  <2>1. DOMAIN sockets' = 1 .. j
    BY <1>7, LenProperties
  <2> QED BY <1>2, <1>4, <2>1
<1>9. j \in DOMAIN sockets' /\ DOMAIN sockets \subseteq DOMAIN sockets' /\ j \in Nat \ {0}
  BY <1>2, <1>4, <1>8
<1>10. sockets'[j].of = n
  BY <1>3, <1>7
<1>11. Lasting
  BY <1>6, <1>7, <1>9 DEF Lasting
<1>12. Quiet /\ Custom
  BY <1>6, <1>7 DEF Quiet, Custom
<1>13. Fresher
  <2>1. ASSUME NEW i \in DOMAIN sockets', Hybrid!Live(i)'
        PROVE  \/ i \in DOMAIN sockets /\ Hybrid!Live(i)
               \/ servers'[sockets'[i].of].listener
    <3>1. CASE i = j
      BY <1>6, <1>10, <3>1
    <3>2. CASE i # j
      <4>1. i \in DOMAIN sockets /\ sockets'[i] = sockets[i]
        BY <1>7, <1>8, <3>2
      <4> QED BY <2>1, <4>1 DEF Hybrid!Live
    <3> QED BY <3>1, <3>2
  <2> QED BY <2>1 DEF Fresher
<1> QED BY <1>1, <1>2, <1>5, <1>6, <1>9, <1>10, <1>11, <1>12, <1>13

LEMMA AnswerLasts ==
    ASSUME HybridInv, NEW i \in DOMAIN sockets, Hybrid!Opens(i) \/ Hybrid!Refused(i)
    PROVE  /\ Lasting /\ Quiet /\ Custom /\ Fresher
           /\ Hybrid!Opens(i) => sockets'[i] = [of |-> sockets[i].of, state |-> "open"]
<1>1. /\ DOMAIN servers = 1 .. Len(servers) /\ DOMAIN sockets = 1 .. Len(sockets)
      /\ \A n \in DOMAIN servers : servers[n] \in Servers
      /\ \A j \in DOMAIN sockets : sockets[j] \in Sockets
      /\ sockets[i].of \in DOMAIN servers
  BY HybridPlaces DEF HybridInv, HybridTyped
<1>2. sockets[i].state = "opening"
  BY DEF Hybrid!Opens, Hybrid!Refused
<1>3. PICK st \in {"open", "closed"} :
          sockets' = [sockets EXCEPT ![i].state = st] /\ (Hybrid!Opens(i) => st = "open")
  BY DEF Hybrid!Opens, Hybrid!Refused
<1>4. DOMAIN sockets' = DOMAIN sockets /\ sockets'[i] = [of |-> sockets[i].of, state |-> st]
      /\ \A j \in DOMAIN sockets : j # i => sockets'[j] = sockets[j]
  BY <1>1, <1>3 DEF Sockets
<1>5. /\ DOMAIN servers' = DOMAIN servers
      /\ \A n \in DOMAIN servers : /\ servers'[n].kind = servers[n].kind
                                   /\ servers'[n].handlers = servers[n].handlers
                                   /\ servers'[n].listener = servers[n].listener
  <2>1. CASE Hybrid!Refused(i)
    BY <2>1 DEF Hybrid!Refused
  <2>2. CASE Hybrid!Opens(i)
    <3>1. PICK n \in DOMAIN servers : n = sockets[i].of
      BY <1>1
    <3>2. servers' = [servers EXCEPT ![n].isListening = TRUE]
      BY <2>2, <3>1 DEF Hybrid!Opens
    <3> QED BY <1>1, <3>2 DEF Servers
  <2> QED BY <2>1, <2>2
<1>6. 0 \notin DOMAIN sockets
  BY <1>1
<1>7. Lasting /\ Quiet /\ Custom
  BY <1>2, <1>4, <1>5 DEF Lasting, Quiet, Custom
<1>8. Fresher
  BY <1>2, <1>4, <1>6 DEF Fresher, Hybrid!Live
<1> QED BY <1>3, <1>4, <1>7, <1>8

LEMMA CloseLasts ==
    ASSUME HybridInv, NEW c \in Stoppers, Hybrid!CloseTransport(c)
    PROVE  Lasting /\ Custom /\ Fresher
<1>1. /\ DOMAIN servers = 1 .. Len(servers) /\ DOMAIN sockets = 1 .. Len(sockets)
      /\ Len(servers) \in Nat /\ Len(sockets) \in Nat
      /\ \A n \in DOMAIN servers : servers[n] \in Servers
      /\ \A j \in DOMAIN sockets : sockets[j] \in Sockets
      /\ stopper[c] \in Stoppings
  BY HybridPlaces DEF HybridInv, HybridTyped
<1>2. PICK n : n = stopper[c].next
  OBVIOUS
<1>3. PICK i : i = servers[n].socket
  OBVIOUS
<1>4. PICK b : b = (servers[n].kind = "custom")
  OBVIOUS
<1>5. n \in DOMAIN servers
  <2>1. n \in Nat \ {0}
    BY <1>1, <1>2 DEF Stoppings
  <2>2. n <= Len(servers)
    BY <1>2 DEF Hybrid!CloseTransport
  <2> QED BY <1>1, <2>1, <2>2
<1>6. i \in Nat /\ (i # 0 => i \in DOMAIN sockets)
  <2>1. i \in Nat /\ i <= Len(sockets)
    BY <1>1, <1>3, <1>5 DEF Servers, HybridInv, HybridTyped
  <2> QED BY <1>1, <2>1
<1>7. servers' = [servers EXCEPT ![n].handlers = @ /\ servers[n].kind = "custom",
                                 ![n].listener = @ /\ servers[n].kind = "custom",
                                 ![n].isListening = FALSE]
  BY <1>2 DEF Hybrid!CloseTransport
<1>8. /\ DOMAIN servers' = DOMAIN servers
      /\ \A m \in DOMAIN servers : m # n => servers'[m] = servers[m]
      /\ servers'[n].kind = servers[n].kind
  BY <1>1, <1>5, <1>7 DEF Servers
<1>9. servers[n].kind = "custom" /\ servers[n].listener => servers'[n].listener
  BY <1>1, <1>5, <1>7 DEF Servers
<1>10. UNCHANGED sockets \/ (i # 0 /\ sockets' = [sockets EXCEPT ![i].state = "closed"])
  BY <1>2, <1>3 DEF Hybrid!CloseTransport, Hybrid!Live
<1>11. /\ DOMAIN sockets' = DOMAIN sockets
       /\ \A j \in DOMAIN sockets : /\ sockets'[j].of = sockets[j].of
                                    /\ sockets'[j] = sockets[j] \/ sockets'[j].state = "closed"
  <2>1. CASE UNCHANGED sockets
    BY <2>1
  <2>2. CASE i # 0 /\ sockets' = [sockets EXCEPT ![i].state = "closed"]
    BY <1>1, <1>6, <2>2 DEF Sockets
  <2> QED BY <1>10, <2>1, <2>2
<1>12. Lasting /\ Custom
  BY <1>8, <1>9, <1>11 DEF Lasting, Custom
<1>13. Fresher
  BY <1>11 DEF Fresher, Hybrid!Live
<1> QED BY <1>12, <1>13

\* Other steps leave the transports alone.
LEMMA StillLasts ==
    ASSUME UNCHANGED <<servers, sockets>>
    PROVE  Lasting /\ Quiet /\ Custom /\ Fresher
BY DEF Lasting, Quiet, Custom, Fresher, Hybrid!Live

Heard ==
    \A i \in DOMAIN sockets :
        Hybrid!Live(i) /\ servers[sockets[i].of].kind = "custom" => servers[sockets[i].of].listener

LEMMA TransportStep ==
    ASSUME HybridInv, [Hybrid!Next]_hybrid
    PROVE  Lasting /\ Custom /\ Fresher
<1>1. CASE UNCHANGED hybrid
  BY <1>1, StillLasts DEF hybrid
<1>2. ASSUME NEW k \in Kinds, Hybrid!ConnectMicroservice(k) PROVE Lasting /\ Custom /\ Fresher
  BY <1>2, ConnectLasts
<1>3. ASSUME NEW s \in Starters,
             Hybrid!StartAll(s) \/ Hybrid!StartMicroservice(s) \/ Hybrid!Started(s)
      PROVE  Lasting /\ Custom /\ Fresher
  <2>1. CASE Hybrid!StartMicroservice(s)
    BY <2>1, StartLasts
  <2>2. CASE Hybrid!StartAll(s) \/ Hybrid!Started(s)
    <3>1. UNCHANGED <<servers, sockets>>
      BY <2>2 DEF Hybrid!StartAll, Hybrid!Started
    <3> QED BY <3>1, StillLasts
  <2> QED BY <1>3, <2>1, <2>2
<1>4. ASSUME NEW i \in DOMAIN sockets, Hybrid!Opens(i) \/ Hybrid!Refused(i)
      PROVE  Lasting /\ Custom /\ Fresher
  BY <1>4, AnswerLasts
<1>5. ASSUME NEW c \in Stoppers, \/ Hybrid!Close(c) \/ Hybrid!CloseTransport(c)
                                 \/ Hybrid!CloseFails(c) \/ Hybrid!TransportsClosed(c)
      PROVE  Lasting /\ Custom /\ Fresher
  <2>1. CASE Hybrid!CloseTransport(c)
    BY <2>1, CloseLasts
  <2>2. CASE Hybrid!Close(c) \/ Hybrid!CloseFails(c) \/ Hybrid!TransportsClosed(c)
    <3>1. UNCHANGED <<servers, sockets>>
      BY <2>2 DEF Hybrid!Close, Hybrid!CloseFails, Hybrid!TransportsClosed
    <3> QED BY <3>1, StillLasts
  <2> QED BY <1>5, <2>1, <2>2
<1> QED BY <1>1, <1>2, <1>3, <1>4, <1>5 DEF Hybrid!Next

LEMMA HeardStep ==
    ASSUME HybridInv, Heard, [Hybrid!Next]_hybrid
    PROVE  Heard'
<1>1. Lasting /\ Custom /\ Fresher
  BY TransportStep
<1>2. SUFFICES ASSUME NEW i \in DOMAIN sockets', Hybrid!Live(i)',
                      servers'[sockets'[i].of].kind = "custom",
                      ~servers'[sockets'[i].of].listener
               PROVE  FALSE
  BY DEF Heard
<1>3. i \in DOMAIN sockets /\ Hybrid!Live(i)
  BY <1>1, <1>2 DEF Fresher
<1>4. PICK n \in DOMAIN servers : n = sockets[i].of /\ n = sockets'[i].of
  BY <1>1, <1>3 DEF HybridInv, HybridTyped, Lasting
<1>5. servers[n].kind = "custom" /\ servers[n].listener
  BY <1>1, <1>2, <1>3, <1>4 DEF Lasting, Heard
<1> QED BY <1>1, <1>2, <1>4, <1>5 DEF Custom

\* What a start that is alone has got open, and the socket it waits for.
Opened(n) ==
    /\ servers[n].handlers /\ servers[n].listener
    /\ \E i \in DOMAIN sockets : sockets[i] = [of |-> n, state |-> "open"]

Getting(s) ==
    /\ starter[s].at = "idle" => starter[s].next = 1
    /\ starter[s].alone =>
        /\ ~Hybrid!Stopping
        /\ starter[s].at # "rejected" => \A n \in 1 .. starter[s].next - 1 : Opened(n)
        /\ starter[s].at = "awaiting" =>
              /\ starter[s].socket \in DOMAIN sockets
              /\ sockets[starter[s].socket].of = starter[s].next
              /\ servers[starter[s].next].handlers /\ servers[starter[s].next].listener

AllGetting == \A s \in Starters : Getting(s)

LEMMA GettingInit == ASSUME Hybrid!Init PROVE AllGetting
<1>1. ASSUME NEW s \in Starters PROVE Getting(s)
  <2>1. starter[s] = [at |-> "idle", next |-> 1, socket |-> 0, alone |-> FALSE]
    BY DEF Hybrid!Init
  <2> QED BY <2>1 DEF Getting
<1> QED BY <1>1 DEF AllGetting

\* What was open stays so while no close() is under way.
LEMMA OpenedStays ==
    ASSUME HybridInv, Lasting, Quiet, sockets' \in Seq(Sockets), NEW n, Opened(n)
    PROVE  Opened(n)'
<1>1. PICK i \in DOMAIN sockets : sockets[i] = [of |-> n, state |-> "open"]
  BY DEF Opened
<1>2. n \in DOMAIN servers
  BY <1>1 DEF HybridInv, HybridTyped
<1>3. i \in DOMAIN sockets' /\ sockets'[i].of = n /\ sockets'[i].state = "open"
  BY <1>1 DEF Lasting, Quiet
<1>4. sockets'[i] \in Sockets
  BY <1>3, LenProperties, ElementOfSeq
<1>5. sockets'[i] = [of |-> n, state |-> "open"]
  BY <1>3, <1>4 DEF Sockets
<1> QED BY <1>2, <1>3, <1>5 DEF Opened, Quiet

\* A start that does not move keeps what it has.
LEMMA GettingStays ==
    ASSUME HybridInv, Lasting, Quiet, sockets' \in Seq(Sockets), NEW s \in Starters,
           Getting(s), starter'[s] = starter[s], Hybrid!Stopping' => Hybrid!Stopping
    PROVE  Getting(s)'
<1>1. SUFFICES ASSUME starter[s].alone PROVE Getting(s)'
  BY DEF Getting
<1>2. ~Hybrid!Stopping'
  BY <1>1 DEF Getting
<1>3. ASSUME starter[s].at # "rejected", NEW n \in 1 .. starter[s].next - 1
      PROVE  Opened(n)'
  BY <1>1, <1>3, OpenedStays DEF Getting
<1>4. ASSUME starter[s].at = "awaiting"
      PROVE  /\ starter[s].socket \in DOMAIN sockets'
             /\ sockets'[starter[s].socket].of = starter[s].next
             /\ servers'[starter[s].next].handlers /\ servers'[starter[s].next].listener
  <2>1. /\ starter[s].socket \in DOMAIN sockets
        /\ sockets[starter[s].socket].of = starter[s].next
        /\ servers[starter[s].next].handlers /\ servers[starter[s].next].listener
    BY <1>1, <1>4 DEF Getting
  <2>2. starter[s].next \in DOMAIN servers
    BY <2>1 DEF HybridInv, HybridTyped
  <2> QED BY <2>1, <2>2 DEF Lasting, Quiet
<1> QED BY <1>2, <1>3, <1>4 DEF Getting

LEMMA GettingOnStart ==
    ASSUME HybridInv, HybridInv', AllGetting, NEW s \in Starters,
           Hybrid!StartAll(s) \/ Hybrid!StartMicroservice(s) \/ Hybrid!Started(s)
    PROVE  AllGetting'
<1>0. /\ starter \in [Starters -> Startings] /\ sockets' \in Seq(Sockets)
      /\ \A r \in Starters : starter[r] \in Startings
  BY DEF HybridInv, HybridTyped
<1>1. Lasting /\ Quiet
  <2>1. CASE Hybrid!StartMicroservice(s)
    BY <2>1, StartLasts
  <2>2. CASE Hybrid!StartAll(s) \/ Hybrid!Started(s)
    <3>1. UNCHANGED <<servers, sockets>>
      BY <2>2 DEF Hybrid!StartAll, Hybrid!Started
    <3> QED BY <3>1, StillLasts
  <2> QED BY <2>1, <2>2
<1>2. Hybrid!Stopping' <=> Hybrid!Stopping
  <2>1. CASE Hybrid!StartMicroservice(s)
    <3>1. \A c \in Stoppers : stopper'[c].at = stopper[c].at
      <4>1. stopper \in [Stoppers -> Stoppings]
        BY DEF HybridInv, HybridTyped
      <4> QED BY <2>1, <4>1 DEF Hybrid!StartMicroservice, Stoppings
    <3> QED BY <3>1 DEF Hybrid!Stopping
  <2>2. CASE Hybrid!StartAll(s) \/ Hybrid!Started(s)
    BY <2>2 DEF Hybrid!StartAll, Hybrid!Started, Hybrid!Stopping
  <2> QED BY <2>1, <2>2
<1>3. ASSUME NEW r \in Starters, r # s PROVE Getting(r)'
  <2>1. starter'[r] = starter[r]
    BY <1>0, <1>3 DEF Hybrid!StartAll, Hybrid!StartMicroservice, Hybrid!Started
  <2> QED BY <1>0, <1>1, <1>2, <2>1, GettingStays DEF AllGetting
<1>4. Getting(s)
  BY DEF AllGetting
<1>5. Getting(s)'
  <2>1. CASE Hybrid!StartAll(s)
    <3>1. PICK alone \in BOOLEAN : alone = ~Hybrid!Stopping
      BY DEF Hybrid!Stopping
    <3>2. /\ starter'[s].at = "between" /\ starter'[s].alone = alone
          /\ starter'[s].next = starter[s].next /\ starter[s].at = "idle"
      BY <1>0, <2>1, <3>1 DEF Hybrid!StartAll, Startings
    <3>3. starter'[s].next = 1
      BY <1>4, <3>2 DEF Getting
    <3>4. 1 .. 1 - 1 = {}
      OBVIOUS
    <3> QED BY <1>2, <3>1, <3>2, <3>3, <3>4 DEF Getting
  <2>2. CASE Hybrid!StartMicroservice(s)
    <3>1. PICK n, j : n = starter[s].next /\ j = Len(sockets) + 1
      OBVIOUS
    <3>2. /\ starter'[s].at = "awaiting" /\ starter'[s].socket = j /\ starter'[s].next = n
          /\ starter'[s].alone = starter[s].alone /\ starter[s].at = "between"
      BY <1>0, <2>2, <3>1 DEF Hybrid!StartMicroservice, Startings
    <3>3. /\ servers'[n].handlers /\ servers'[n].listener
          /\ j \in DOMAIN sockets' /\ sockets'[j].of = n
      BY <2>2, <3>1, StartLasts
    <3>4. starter[s].alone => ~Hybrid!Stopping' /\ \A m \in 1 .. n - 1 : Opened(m)'
      BY <1>0, <1>1, <1>2, <1>4, <3>1, <3>2, OpenedStays DEF Getting
    <3> QED BY <3>2, <3>3, <3>4 DEF Getting
  <2>3. CASE Hybrid!Started(s)
    <3>1. /\ starter'[s].at = "resolved" /\ starter'[s].next = starter[s].next
          /\ starter'[s].alone = starter[s].alone /\ starter[s].at = "between"
      BY <1>0, <2>3 DEF Hybrid!Started, Startings
    <3>2. starter[s].alone => ~Hybrid!Stopping' /\ \A m \in 1 .. starter[s].next - 1 : Opened(m)'
      BY <1>0, <1>1, <1>2, <1>4, <3>1, OpenedStays DEF Getting
    <3> QED BY <3>1, <3>2 DEF Getting
  <2> QED BY <2>1, <2>2, <2>3
<1> QED BY <1>3, <1>5 DEF AllGetting

LEMMA GettingOnAnswer ==
    ASSUME HybridInv, HybridInv', AllGetting, NEW i \in DOMAIN sockets,
           Hybrid!Opens(i) \/ Hybrid!Refused(i)
    PROVE  AllGetting'
<1>0. /\ starter \in [Starters -> Startings] /\ sockets' \in Seq(Sockets)
      /\ \A r \in Starters : starter[r] \in Startings
  BY DEF HybridInv, HybridTyped
<1>1. /\ Lasting /\ Quiet
      /\ Hybrid!Opens(i) => sockets'[i] = [of |-> sockets[i].of, state |-> "open"]
  BY AnswerLasts
<1>2. Hybrid!Stopping' <=> Hybrid!Stopping
  BY DEF Hybrid!Opens, Hybrid!Refused, Hybrid!Stopping
<1>3. i \in DOMAIN sockets'
  BY <1>1 DEF Lasting
<1>4. PICK at \in {"between", "rejected"} :
          /\ UNCHANGED starter \/ Hybrid!CalledBack(i, at)
          /\ at = "between" => Hybrid!Opens(i)
  BY DEF Hybrid!Opens, Hybrid!Refused
<1>5. ASSUME NEW s \in Starters PROVE Getting(s)'
  <2>1. Getting(s) /\ starter[s] \in Startings
    BY <1>0 DEF AllGetting
  <2>2. CASE starter'[s] = starter[s]
    BY <1>0, <1>1, <1>2, <2>1, <2>2, GettingStays
  <2>3. CASE starter'[s] # starter[s]
    <3>1. PICK n : n = starter[s].next
      OBVIOUS
    <3>2. /\ starter[s].at = "awaiting" /\ starter[s].socket = i
          /\ starter'[s] = [starter[s] EXCEPT !.at = at, !.next = @ + 1]
      <4>1. Hybrid!CalledBack(i, at)
        BY <1>4, <2>3
      <4>2. starter'[s] = IF starter[s].at = "awaiting" /\ starter[s].socket = i
                          THEN [starter[s] EXCEPT !.at = at, !.next = @ + 1] ELSE starter[s]
        BY <4>1 DEF Hybrid!CalledBack
      <4> QED BY <2>3, <4>2
    <3>3. /\ starter'[s].at = at /\ starter'[s].next = n + 1 /\ starter'[s].alone = starter[s].alone
          /\ n \in Nat \ {0}
      BY <2>1, <3>1, <3>2 DEF Startings
    <3>4. ASSUME starter[s].alone, at = "between", NEW m \in 1 .. (n + 1) - 1
          PROVE  Opened(m)'
      <4>1. /\ sockets[i].of = n /\ servers[n].handlers /\ servers[n].listener
            /\ \A q \in 1 .. n - 1 : Opened(q)
        BY <2>1, <3>1, <3>2, <3>4 DEF Getting
      <4>2. n \in DOMAIN servers
        BY <4>1 DEF HybridInv, HybridTyped
      <4>3. Opened(n)'
        BY <1>1, <1>3, <1>4, <3>4, <4>1, <4>2 DEF Opened, Quiet
      <4>4. m = n \/ m \in 1 .. n - 1
        BY <3>3
      <4>5. ASSUME m \in 1 .. n - 1 PROVE Opened(m)'
        BY <1>0, <1>1, <4>1, <4>5, OpenedStays
      <4> QED BY <4>3, <4>4, <4>5
    <3>5. starter[s].alone => ~Hybrid!Stopping'
      BY <1>2, <2>1 DEF Getting
    <3> QED BY <3>3, <3>4, <3>5 DEF Getting
  <2> QED BY <2>2, <2>3
<1> QED BY <1>5 DEF AllGetting

LEMMA GettingOnStop ==
    ASSUME HybridInv, AllGetting, NEW c \in Stoppers,
           \/ Hybrid!Close(c) \/ Hybrid!CloseTransport(c)
           \/ Hybrid!CloseFails(c) \/ Hybrid!TransportsClosed(c)
    PROVE  AllGetting'
<1>1. \A s \in Starters : starter[s] \in Startings /\ Getting(s)
  BY DEF HybridInv, HybridTyped, AllGetting
<1>2. ASSUME NEW s \in Starters PROVE Getting(s)'
  <2>1. CASE Hybrid!Close(c)
    <3>1. /\ starter'[s].at = starter[s].at /\ starter'[s].next = starter[s].next
          /\ starter'[s].alone = FALSE
      BY <1>1, <2>1 DEF Hybrid!Close, Startings
    <3> QED BY <1>1, <3>1 DEF Getting
  <2>2. CASE ~Hybrid!Close(c)
    <3>1. UNCHANGED starter /\ stopper[c].at = "closing"
      <4>1. CASE Hybrid!CloseTransport(c)
        BY <4>1 DEF Hybrid!CloseTransport
      <4>2. CASE Hybrid!CloseFails(c) \/ Hybrid!TransportsClosed(c)
        BY <4>2 DEF Hybrid!CloseFails, Hybrid!TransportsClosed
      <4> QED BY <2>2, <4>1, <4>2
    <3>2. ~starter[s].alone
      BY <1>1, <3>1 DEF Getting, Hybrid!Stopping
    <3> QED BY <1>1, <3>1, <3>2 DEF Getting
  <2> QED BY <2>1, <2>2
<1> QED BY <1>2 DEF AllGetting

LEMMA GettingStep ==
    ASSUME HybridInv, HybridInv', AllGetting, [Hybrid!Next]_hybrid
    PROVE  AllGetting'
<1>1. CASE UNCHANGED hybrid
  <2>1. /\ Lasting /\ Quiet /\ sockets' \in Seq(Sockets) /\ UNCHANGED <<starter, stopper>>
    BY <1>1, StillLasts DEF hybrid, HybridInv, HybridTyped
  <2> QED BY <2>1, GettingStays DEF AllGetting, Hybrid!Stopping
<1>2. ASSUME NEW k \in Kinds, Hybrid!ConnectMicroservice(k) PROVE AllGetting'
  <2>1. /\ Lasting /\ Quiet /\ sockets' \in Seq(Sockets) /\ UNCHANGED <<starter, stopper>>
    BY <1>2, ConnectLasts DEF Hybrid!ConnectMicroservice, HybridInv, HybridTyped
  <2> QED BY <2>1, GettingStays DEF AllGetting, Hybrid!Stopping
<1>3. ASSUME NEW s \in Starters,
             Hybrid!StartAll(s) \/ Hybrid!StartMicroservice(s) \/ Hybrid!Started(s)
      PROVE  AllGetting'
  BY <1>3, GettingOnStart
<1>4. ASSUME NEW i \in DOMAIN sockets, Hybrid!Opens(i) \/ Hybrid!Refused(i)
      PROVE  AllGetting'
  BY <1>4, GettingOnAnswer
<1>5. ASSUME NEW c \in Stoppers, \/ Hybrid!Close(c) \/ Hybrid!CloseTransport(c)
                                 \/ Hybrid!CloseFails(c) \/ Hybrid!TransportsClosed(c)
      PROVE  AllGetting'
  BY <1>5, GettingOnStop
<1> QED BY <1>1, <1>2, <1>3, <1>4, <1>5 DEF Hybrid!Next

LEMMA GettingKeeps == ASSUME AllGetting PROVE Hybrid!StartsAll
BY DEF AllGetting, Getting, Opened, Hybrid!StartsAll

(***************************************************************************)
(* Decorated classes and the handlers the explorers register               *)
(***************************************************************************)
LastKin == Explorer!Cardinality(Kin)
Rooted(p) == \A c \in Kin : p[c] \in 0 .. c - 1

\* Explorer!Nearest and Explorer!Ancestry of any hierarchy p.
NearestIn(p, c, f) ==
    LET N[x \in 0 .. LastKin] == IF x = 0 \/ f[x] THEN x ELSE N[p[x]] IN N[c]
AncestryIn(p, c) ==
    LET A[x \in 0 .. LastKin] == IF x = 0 THEN {} ELSE {x} \cup A[p[x]] IN A[c]

LEMMA KinRange ==
    ASSUME ApplicationAssumption
    PROVE  LastKin \in Nat /\ Kin = 1 .. LastKin /\ Kin \subseteq Nat /\ 0 \notin Kin
<1>1. LastKin \in Nat /\ Kin = 1 .. LastKin
  BY DEF ApplicationAssumption, Explorer!DiscoveryAssumption, LastKin
<1> QED BY <1>1

\* A set of numbers that is not empty has a least one.
LEMMA LeastOf ==
    ASSUME NEW T \in SUBSET Nat, T # {}
    PROVE  \E n \in T : \A m \in T : n <= m
<1>1. PICK R : R = OpToRel(<, Nat)
  OBVIOUS
<1>2. IsWellFoundedOn(R, Nat)
  BY <1>1, NatLessThanWellFounded
<1>3. \A x, y \in Nat : x < y => <<x, y>> \in R
  BY <1>1 DEF OpToRel
<1>4. \E x \in T : \A y \in T : ~ (<<y, x>> \in R)
  BY <1>2, WFMin
<1>5. PICK x \in T : \A y \in T : ~ (<<y, x>> \in R)
  BY <1>4
<1>6. \A y \in T : x <= y
  <2> SUFFICES ASSUME NEW y \in T PROVE x <= y
    OBVIOUS
  <2>1. x \in Nat /\ y \in Nat /\ ~(y < x)
    BY <1>3, <1>5
  <2> QED BY <2>1
<1> QED BY <1>5, <1>6

\* What a class inherits from its base, if it has one, holds of all classes.
LEMMA DownTheTree ==
    ASSUME ApplicationAssumption, NEW p, Rooted(p), NEW S,
           \A c \in Kin : (p[c] # 0 => p[c] \in S) => c \in S
    PROVE  Kin \subseteq S
<1>1. SUFFICES ASSUME Kin \ S # {} PROVE FALSE
  OBVIOUS
<1>2. Kin \ S \in SUBSET Nat
  BY KinRange
<1>3. PICK c \in Kin \ S : \A d \in Kin \ S : c <= d
  BY <1>1, <1>2, LeastOf
<1>4. p[c] \in 0 .. c - 1 /\ c \in Nat
  BY <1>3, KinRange DEF Rooted
<1>5. p[c] # 0 => p[c] \in Kin /\ ~(c <= p[c])
  BY <1>3, <1>4, KinRange
<1> QED BY <1>3, <1>5

\* Both recursions end, as the base of a class is declared before it.
LEMMA NearestUnfolds ==
    ASSUME ApplicationAssumption, NEW p, Rooted(p), NEW f
    PROVE  /\ NearestIn(p, 0, f) = 0
           /\ \A c \in Kin : NearestIn(p, c, f) = IF f[c] THEN c ELSE NearestIn(p, p[c], f)
<1> DEFINE Solves(g, n) == \A x \in 0 .. n : g[x] = IF x = 0 \/ f[x] THEN x ELSE g[p[x]]
           T == {n \in 0 .. LastKin : ~\E g : g = [x \in 0 .. n |-> g[x]] /\ Solves(g, n)}
<1>1. LastKin \in Nat /\ Kin = 1 .. LastKin
  BY KinRange
<1>2. T = {}
  <2>1. SUFFICES ASSUME T # {} PROVE FALSE
    OBVIOUS
  <2>2. T \in SUBSET Nat
    BY <1>1
  <2>3. PICK n \in T : \A m \in T : n <= m
    BY <2>1, <2>2, LeastOf
  <2>4. n \in 0 .. LastKin /\ n \in Nat
    BY <1>1, <2>3
  <2>5. CASE n = 0
    <3>1. PICK g : g = [x \in 0 .. n |-> 0]
      OBVIOUS
    <3>2. g = [x \in 0 .. n |-> g[x]]
      BY <3>1
    <3>3. Solves(g, n)
      BY <2>5, <3>1
    <3> QED BY <2>3, <3>2, <3>3
  <2>6. CASE n # 0
    <3>1. n - 1 \in 0 .. LastKin /\ ~(n <= n - 1)
      BY <1>1, <2>4, <2>6
    <3>2. n - 1 \notin T
      BY <2>3, <3>1
    <3>3. PICK g : g = [x \in 0 .. n - 1 |-> g[x]] /\ Solves(g, n - 1)
      BY <3>1, <3>2
    <3>4. PICK h : h = [x \in 0 .. n |-> IF x < n THEN g[x] ELSE IF f[n] THEN n ELSE g[p[n]]]
      OBVIOUS
    <3>5. h = [x \in 0 .. n |-> h[x]]
      BY <3>4
    <3>6. p[n] \in 0 .. n - 1
      BY <1>1, <2>4, <2>6 DEF Rooted
    <3>7. ASSUME NEW x \in 0 .. n PROVE h[x] = IF x = 0 \/ f[x] THEN x ELSE h[p[x]]
      <4>1. CASE x = n
        BY <2>4, <2>6, <3>4, <3>6, <4>1
      <4>2. CASE x < n
        <5>1. x \in 0 .. n - 1 /\ h[x] = g[x]
          BY <2>4, <3>4, <3>7, <4>2
        <5>2. x # 0 => p[x] \in 0 .. n - 1 /\ p[x] \in 0 .. n /\ p[x] < n
          BY <1>1, <2>4, <5>1 DEF Rooted
        <5>3. x # 0 => h[p[x]] = g[p[x]]
          BY <3>4, <5>2
        <5> QED BY <3>3, <5>1, <5>3
      <4> QED BY <2>4, <4>1, <4>2
    <3> QED BY <2>3, <3>5, <3>7
  <2> QED BY <2>5, <2>6
<1>3. PICK g : g = [x \in 0 .. LastKin |-> g[x]] /\ Solves(g, LastKin)
  <2>1. LastKin \in 0 .. LastKin
    BY <1>1
  <2>2. LastKin \notin T
    BY <1>2
  <2> QED BY <2>1, <2>2
<1>4. g = [x \in 0 .. LastKin |-> IF x = 0 \/ f[x] THEN x ELSE g[p[x]]]
  BY <1>3
<1>5. PICK r : r = CHOOSE N : N = [x \in 0 .. LastKin |-> IF x = 0 \/ f[x] THEN x ELSE N[p[x]]]
  OBVIOUS
<1>6. r = [x \in 0 .. LastKin |-> IF x = 0 \/ f[x] THEN x ELSE r[p[x]]]
  BY <1>4, <1>5
<1>7. \A c : NearestIn(p, c, f) = r[c]
  BY <1>5 DEF NearestIn
<1>8. \A x \in 0 .. LastKin : r[x] = IF x = 0 \/ f[x] THEN x ELSE r[p[x]]
  BY <1>6
<1>9. 0 \in 0 .. LastKin /\ \A c \in Kin : c \in 0 .. LastKin /\ c # 0
  BY <1>1
<1> QED BY <1>7, <1>8, <1>9

LEMMA AncestryUnfolds ==
    ASSUME ApplicationAssumption, NEW p, Rooted(p)
    PROVE  /\ AncestryIn(p, 0) = {}
           /\ \A c \in Kin : AncestryIn(p, c) = {c} \cup AncestryIn(p, p[c])
<1> DEFINE Solves(g, n) == \A x \in 0 .. n : g[x] = IF x = 0 THEN {} ELSE {x} \cup g[p[x]]
           T == {n \in 0 .. LastKin : ~\E g : g = [x \in 0 .. n |-> g[x]] /\ Solves(g, n)}
<1>1. LastKin \in Nat /\ Kin = 1 .. LastKin
  BY KinRange
<1>2. T = {}
  <2>1. SUFFICES ASSUME T # {} PROVE FALSE
    OBVIOUS
  <2>2. T \in SUBSET Nat
    BY <1>1
  <2>3. PICK n \in T : \A m \in T : n <= m
    BY <2>1, <2>2, LeastOf
  <2>4. n \in 0 .. LastKin /\ n \in Nat
    BY <1>1, <2>3
  <2>5. CASE n = 0
    <3>1. PICK g : g = [x \in 0 .. n |-> {}]
      OBVIOUS
    <3>2. g = [x \in 0 .. n |-> g[x]]
      BY <3>1
    <3>3. Solves(g, n)
      BY <2>5, <3>1
    <3> QED BY <2>3, <3>2, <3>3
  <2>6. CASE n # 0
    <3>1. n - 1 \in 0 .. LastKin /\ ~(n <= n - 1)
      BY <1>1, <2>4, <2>6
    <3>2. n - 1 \notin T
      BY <2>3, <3>1
    <3>3. PICK g : g = [x \in 0 .. n - 1 |-> g[x]] /\ Solves(g, n - 1)
      BY <3>1, <3>2
    <3>4. PICK h : h = [x \in 0 .. n |-> IF x < n THEN g[x] ELSE {n} \cup g[p[n]]]
      OBVIOUS
    <3>5. h = [x \in 0 .. n |-> h[x]]
      BY <3>4
    <3>6. p[n] \in 0 .. n - 1
      BY <1>1, <2>4, <2>6 DEF Rooted
    <3>7. ASSUME NEW x \in 0 .. n PROVE h[x] = IF x = 0 THEN {} ELSE {x} \cup h[p[x]]
      <4>1. CASE x = n
        BY <2>4, <2>6, <3>4, <3>6, <4>1
      <4>2. CASE x < n
        <5>1. x \in 0 .. n - 1 /\ h[x] = g[x]
          BY <2>4, <3>4, <3>7, <4>2
        <5>2. x # 0 => p[x] \in 0 .. n - 1 /\ p[x] \in 0 .. n /\ p[x] < n
          BY <1>1, <2>4, <5>1 DEF Rooted
        <5>3. x # 0 => h[p[x]] = g[p[x]]
          BY <3>4, <5>2
        <5> QED BY <3>3, <5>1, <5>3
      <4> QED BY <2>4, <4>1, <4>2
    <3> QED BY <2>3, <3>5, <3>7
  <2> QED BY <2>5, <2>6
<1>3. PICK g : g = [x \in 0 .. LastKin |-> g[x]] /\ Solves(g, LastKin)
  <2>1. LastKin \in 0 .. LastKin
    BY <1>1
  <2>2. LastKin \notin T
    BY <1>2
  <2> QED BY <2>1, <2>2
<1>4. g = [x \in 0 .. LastKin |-> IF x = 0 THEN {} ELSE {x} \cup g[p[x]]]
  BY <1>3
<1>5. PICK r : r = CHOOSE A : A = [x \in 0 .. LastKin |-> IF x = 0 THEN {} ELSE {x} \cup A[p[x]]]
  OBVIOUS
<1>6. r = [x \in 0 .. LastKin |-> IF x = 0 THEN {} ELSE {x} \cup r[p[x]]]
  BY <1>4, <1>5
<1>7. \A c : AncestryIn(p, c) = r[c]
  BY <1>5 DEF AncestryIn
<1>8. \A x \in 0 .. LastKin : r[x] = IF x = 0 THEN {} ELSE {x} \cup r[p[x]]
  BY <1>6
<1>9. 0 \in 0 .. LastKin /\ \A c \in Kin : c \in 0 .. LastKin /\ c # 0
  BY <1>1
<1> QED BY <1>7, <1>8, <1>9

\* A class inherits from one of its ancestors, or itself.
LEMMA NearestIs ==
    ASSUME ApplicationAssumption, NEW p, Rooted(p), NEW f, NEW c \in Kin
    PROVE  /\ NearestIn(p, c, f) \in 0 .. c
           /\ NearestIn(p, c, f) # 0 =>
                 /\ NearestIn(p, c, f) \in Kin /\ NearestIn(p, c, f) \in AncestryIn(p, c)
                 /\ f[NearestIn(p, c, f)]
<1> DEFINE S == {x \in Kin : /\ NearestIn(p, x, f) \in 0 .. x
                             /\ NearestIn(p, x, f) # 0 =>
                                   /\ NearestIn(p, x, f) \in Kin
                                   /\ NearestIn(p, x, f) \in AncestryIn(p, x)
                                   /\ f[NearestIn(p, x, f)]}
<1>1. ASSUME NEW x \in Kin, p[x] # 0 => p[x] \in S
      PROVE  x \in S
  <2>1. /\ NearestIn(p, x, f) = IF f[x] THEN x ELSE NearestIn(p, p[x], f)
        /\ NearestIn(p, 0, f) = 0
    BY NearestUnfolds
  <2>2. AncestryIn(p, x) = {x} \cup AncestryIn(p, p[x])
    BY AncestryUnfolds
  <2>3. p[x] \in 0 .. x - 1 /\ x \in Nat /\ x > 0
    BY KinRange DEF Rooted
  <2>4. CASE f[x]
    BY <2>1, <2>2, <2>3, <2>4
  <2>5. CASE ~f[x] /\ p[x] = 0
    BY <2>1, <2>3, <2>5
  <2>6. CASE ~f[x] /\ p[x] # 0
    <3>1. NearestIn(p, x, f) = NearestIn(p, p[x], f) /\ p[x] \in S
      BY <1>1, <2>1, <2>6
    <3>2. NearestIn(p, x, f) \in 0 .. x
      BY <2>3, <3>1
    <3> QED BY <2>2, <3>1, <3>2
  <2> QED BY <2>4, <2>5, <2>6
<1>2. Kin \subseteq S
  <2> HIDE DEF S
  <2> QED BY <1>1, DownTheTree
<1> QED BY <1>2

\* What comes after a class has no say in what it inherits.
LEMMA NearestSame ==
    ASSUME ApplicationAssumption, NEW p, Rooted(p), NEW f, NEW g, NEW m \in Nat,
           \A x \in Kin : x <= m => (f[x] <=> g[x]), NEW c \in Kin, c <= m
    PROVE  NearestIn(p, c, f) = NearestIn(p, c, g)
<1> DEFINE S == {x \in Kin : x <= m => NearestIn(p, x, f) = NearestIn(p, x, g)}
<1>1. ASSUME NEW x \in Kin, p[x] # 0 => p[x] \in S
      PROVE  x \in S
  <2>1. /\ NearestIn(p, x, f) = IF f[x] THEN x ELSE NearestIn(p, p[x], f)
        /\ NearestIn(p, x, g) = IF g[x] THEN x ELSE NearestIn(p, p[x], g)
        /\ NearestIn(p, 0, f) = 0 /\ NearestIn(p, 0, g) = 0
    BY NearestUnfolds
  <2>2. p[x] \in 0 .. x - 1 /\ x \in Nat
    BY KinRange DEF Rooted
  <2>3. x <= m => p[x] <= m
    BY <2>2
  <2> QED BY <1>1, <2>1, <2>3
<1>2. Kin \subseteq S
  <2> HIDE DEF S
  <2> QED BY <1>1, DownTheTree
<1> QED BY <1>2

\* Where more holds there is more to inherit.
LEMMA NearestWeaker ==
    ASSUME ApplicationAssumption, NEW p, Rooted(p), NEW f, NEW g,
           \A x \in Kin : f[x] => g[x], NEW c \in Kin, NearestIn(p, c, f) # 0
    PROVE  NearestIn(p, c, g) # 0
<1> DEFINE S == {x \in Kin : NearestIn(p, x, f) # 0 => NearestIn(p, x, g) # 0}
<1>1. ASSUME NEW x \in Kin, p[x] # 0 => p[x] \in S
      PROVE  x \in S
  <2>1. /\ NearestIn(p, x, f) = IF f[x] THEN x ELSE NearestIn(p, p[x], f)
        /\ NearestIn(p, x, g) = IF g[x] THEN x ELSE NearestIn(p, p[x], g)
        /\ NearestIn(p, 0, f) = 0 /\ x # 0
    BY NearestUnfolds, KinRange
  <2> QED BY <1>1, <2>1
<1>2. Kin \subseteq S
  <2> HIDE DEF S
  <2> QED BY <1>1, DownTheTree
<1> QED BY <1>2

\* Of an ancestor for which it holds, or of a nearer one, a class inherits.
LEMMA NearestOfAncestor ==
    ASSUME ApplicationAssumption, NEW p, Rooted(p), NEW f, NEW c \in Kin,
           NEW d \in AncestryIn(p, c), f[d]
    PROVE  NearestIn(p, c, f) # 0
<1> DEFINE S == {x \in Kin : d \in AncestryIn(p, x) => NearestIn(p, x, f) # 0}
<1>1. ASSUME NEW x \in Kin, p[x] # 0 => p[x] \in S
      PROVE  x \in S
  <2>1. NearestIn(p, x, f) = (IF f[x] THEN x ELSE NearestIn(p, p[x], f)) /\ x # 0
    BY NearestUnfolds, KinRange
  <2>2. AncestryIn(p, x) = {x} \cup AncestryIn(p, p[x]) /\ AncestryIn(p, 0) = {}
    BY AncestryUnfolds
  <2> QED BY <1>1, <2>1, <2>2
<1>2. Kin \subseteq S
  <2> HIDE DEF S
  <2> QED BY <1>1, DownTheTree
<1> QED BY <1>2

\* An ancestor's ancestors are the class's own.
LEMMA AncestryNests ==
    ASSUME ApplicationAssumption, NEW p, Rooted(p), NEW c \in Kin
    PROVE  /\ c \in AncestryIn(p, c) /\ AncestryIn(p, c) \subseteq Kin
           /\ \A d \in AncestryIn(p, c) : AncestryIn(p, d) \subseteq AncestryIn(p, c)
<1> DEFINE S == {x \in Kin : /\ AncestryIn(p, x) \subseteq Kin
                             /\ \A d \in AncestryIn(p, x) : AncestryIn(p, d) \subseteq AncestryIn(p, x)}
<1>1. \A x \in Kin : AncestryIn(p, x) = {x} \cup AncestryIn(p, p[x]) /\ AncestryIn(p, 0) = {}
  BY AncestryUnfolds
<1>2. ASSUME NEW x \in Kin, p[x] # 0 => p[x] \in S
      PROVE  x \in S
  <2>1. AncestryIn(p, p[x]) \subseteq Kin
    BY <1>1, <1>2
  <2>2. ASSUME NEW d \in AncestryIn(p, x) PROVE AncestryIn(p, d) \subseteq AncestryIn(p, x)
    <3>1. CASE d = x
      BY <3>1
    <3>2. CASE d \in AncestryIn(p, p[x])
      <4>1. p[x] \in S
        BY <1>1, <1>2, <3>2
      <4> QED BY <1>1, <3>2, <4>1
    <3> QED BY <1>1, <2>2, <3>1, <3>2
  <2>3. AncestryIn(p, x) \subseteq Kin
    BY <1>1, <2>1
  <2> QED BY <2>2, <2>3
<1>3. Kin \subseteq S
  <2> HIDE DEF S
  <2> QED BY <1>2, DownTheTree
<1> QED BY <1>1, <1>3

\* What the bodies of the classes have noted, and under which class.
Notes(c, k) == {n \in marked[c] : Explorer!Key(n) = k}
Owner(c, k) == NearestIn(parent, c, [x \in Kin |-> owns[x][k] # 0])
FoundAt(c, k) == IF Owner(c, k) = 0 THEN 0 ELSE owns[Owner(c, k)][k]

ClassesTyped ==
    /\ family \in Families /\ parent \in Hierarchies /\ content \in Contents
    /\ toDeclare \in Nat /\ toDeclare > 0
    /\ methods \in [Kin -> SUBSET Names] /\ marked \in [Kin -> SUBSET Names]
    /\ owns \in [Kin -> [Explorer!Keys -> 0 .. LastKin]]
    /\ lists \in [Kin -> [Explorer!Keys -> SUBSET (Kin \X Names)]]
    /\ \A c \in Kin : marked[c] \subseteq methods[c]
    /\ \A c \in Kin : c >= toDeclare => marked[c] = {}

\* The list begun at a class holds what it was given by the classes that push onto it: the
\* class itself and classes that derive from it.
Begun ==
    family \notin Explorer!Methods => \A c \in Kin : \A k \in Explorer!Keys :
        /\ owns[c][k] # 0 <=> Notes(c, k) # {}
        /\ owns[c][k] # 0 => /\ owns[c][k] \in AncestryIn(parent, c)
                             /\ owns[owns[c][k]][k] = owns[c][k]
        /\ lists[c][k] = {x \in Kin \X Names : x[2] \in Notes(x[1], k) /\ owns[x[1]][k] = c}
        /\ family \in Explorer!Own => owns[c][k] \in {0, c}

\* Where lists are shared, a class has that of its base, if there is one.
Sharing ==
    family \in Explorer!Shared => \A c \in Kin : \A k \in Explorer!Keys :
        owns[c][k] # 0 /\ FoundAt(parent[c], k) # 0 => owns[c][k] = FoundAt(parent[c], k)

ClassInv == ClassesTyped /\ Begun /\ Sharing

LEMMA RootedParent ==
    ASSUME ApplicationAssumption, parent \in Hierarchies
    PROVE  Rooted(parent)
BY DEF ApplicationAssumption, Explorer!DiscoveryAssumption, Rooted

LEMMA InTheHierarchy ==
    /\ \A c, f : Explorer!Nearest(c, f) = NearestIn(parent, c, f)
    /\ \A c : Explorer!Ancestry(c) = AncestryIn(parent, c)
    /\ \A c, k : Explorer!Found(c, k) = FoundAt(c, k)
<1>1. \A c, f : Explorer!Nearest(c, f) = NearestIn(parent, c, f)
  BY DEF Explorer!Nearest, NearestIn, LastKin
<1>2. \A c : Explorer!Ancestry(c) = AncestryIn(parent, c)
  BY DEF Explorer!Ancestry, AncestryIn, LastKin
<1>3. \A c, k : Explorer!Found(c, k) = FoundAt(c, k)
  BY <1>1 DEF Explorer!Found, FoundAt, Owner
<1> QED BY <1>1, <1>2, <1>3

LEMMA FamilyIs ==
    ASSUME ApplicationAssumption, ClassesTyped
    PROVE  /\ family \in Explorer!Shared \/ family \in Explorer!Own \/ family \in Explorer!Methods
           /\ family \in Explorer!Shared => family \notin Explorer!Own /\ family \notin Explorer!Methods
           /\ family \in Explorer!Own => family \notin Explorer!Methods
BY DEF ApplicationAssumption, Explorer!DiscoveryAssumption, ClassesTyped,
       Explorer!Shared, Explorer!Own, Explorer!Methods

LEMMA OwnerIs ==
    ASSUME ApplicationAssumption, ClassesTyped, NEW c \in Kin, NEW k \in Explorer!Keys
    PROVE  /\ Owner(c, k) = IF owns[c][k] # 0 THEN c ELSE Owner(parent[c], k)
           /\ Owner(c, k) \in 0 .. c
           /\ Owner(c, k) # 0 => /\ Owner(c, k) \in Kin /\ Owner(c, k) \in AncestryIn(parent, c)
                                 /\ owns[Owner(c, k)][k] # 0
           /\ Owner(0, k) = 0 /\ FoundAt(0, k) = 0
<1>1. PICK f : f = [x \in Kin |-> owns[x][k] # 0]
  OBVIOUS
<1>2. Rooted(parent)
  BY RootedParent DEF ClassesTyped
<1>3. \A d : Owner(d, k) = NearestIn(parent, d, f)
  BY <1>1 DEF Owner
<1>4. \A x \in Kin : f[x] <=> owns[x][k] # 0
  BY <1>1
<1>5. /\ NearestIn(parent, 0, f) = 0
      /\ NearestIn(parent, c, f) = IF f[c] THEN c ELSE NearestIn(parent, parent[c], f)
  BY <1>2, NearestUnfolds
<1>6. /\ NearestIn(parent, c, f) \in 0 .. c
      /\ NearestIn(parent, c, f) # 0 =>
                 /\ NearestIn(parent, c, f) \in Kin /\ NearestIn(parent, c, f) \in AncestryIn(parent, c)
                 /\ f[NearestIn(parent, c, f)]
  BY <1>2, NearestIs
<1> QED BY <1>3, <1>4, <1>5, <1>6 DEF FoundAt

LEMMA ClassInit == ASSUME ApplicationAssumption, Explorer!Init PROVE ClassInv
<1>1. /\ family \in Families /\ parent \in Hierarchies /\ content \in Contents
      /\ toDeclare = 1
      /\ methods = [c \in Kin |-> {}] /\ marked = [c \in Kin |-> {}]
      /\ lists = [c \in Kin |-> [k \in Explorer!Keys |-> {}]]
      /\ owns = [c \in Kin |-> [k \in Explorer!Keys |-> 0]]
  BY DEF Explorer!Init
<1>2. ClassesTyped
  <2>1. 0 \in 0 .. LastKin
    BY KinRange
  <2>2. owns \in [Kin -> [Explorer!Keys -> 0 .. LastKin]]
    BY <1>1, <2>1
  <2> QED BY <1>1, <2>2 DEF ClassesTyped
<1>3. \A c \in Kin : \A k \in Explorer!Keys : owns[c][k] = 0 /\ lists[c][k] = {} /\ Notes(c, k) = {}
  BY <1>1 DEF Notes
<1>4. Begun
  BY <1>3 DEF Begun
<1>5. Sharing
  BY <1>3 DEF Sharing
<1> QED BY <1>2, <1>4, <1>5 DEF ClassInv

\* The body of a class begins lists, or adds to those it finds, as its decorators do.
LEMMA DeclareKeeps ==
    ASSUME ApplicationAssumption, ClassInv, Explorer!Declare
    PROVE  ClassInv'
<1>0. PICK td \in Kin : td = toDeclare
  BY DEF Explorer!Declare
<1>1. PICK ms \in SUBSET Names : \E ds \in SUBSET ms :
          LET noted(k) == {<<toDeclare, n>> : n \in {n \in ds : Explorer!Key(n) = k}}
              to == [k \in Explorer!Keys |->
                        IF family \in Explorer!Methods \/ noted(k) = {} THEN 0
                        ELSE Explorer!Pushed(toDeclare, k)]
          IN
          /\ methods' = [methods EXCEPT ![toDeclare] = ms]
          /\ marked' = [marked EXCEPT ![toDeclare] = ds]
          /\ lists' = [c \in Kin |-> [k \in Explorer!Keys |->
                          lists[c][k] \cup (IF to[k] = c THEN noted(k) ELSE {})]]
          /\ owns' = [owns EXCEPT ![toDeclare] = to]
  BY DEF Explorer!Declare
<1>2. PICK ds \in SUBSET ms :
          LET noted(k) == {<<toDeclare, n>> : n \in {n \in ds : Explorer!Key(n) = k}}
              to == [k \in Explorer!Keys |->
                        IF family \in Explorer!Methods \/ noted(k) = {} THEN 0
                        ELSE Explorer!Pushed(toDeclare, k)]
          IN
          /\ methods' = [methods EXCEPT ![toDeclare] = ms]
          /\ marked' = [marked EXCEPT ![toDeclare] = ds]
          /\ lists' = [c \in Kin |-> [k \in Explorer!Keys |->
                          lists[c][k] \cup (IF to[k] = c THEN noted(k) ELSE {})]]
          /\ owns' = [owns EXCEPT ![toDeclare] = to]
  BY <1>1
<1>3. PICK noted : noted = [k \in Explorer!Keys |->
                               {<<td, n>> : n \in {n \in ds : Explorer!Key(n) = k}}]
  OBVIOUS
<1>4. PICK to : to = [k \in Explorer!Keys |->
                        IF family \in Explorer!Methods \/ noted[k] = {} THEN 0
                        ELSE Explorer!Pushed(td, k)]
  OBVIOUS
<1>5. /\ methods' = [methods EXCEPT ![td] = ms] /\ marked' = [marked EXCEPT ![td] = ds]
      /\ lists' = [c \in Kin |-> [k \in Explorer!Keys |->
                          lists[c][k] \cup (IF to[k] = c THEN noted[k] ELSE {})]]
      /\ owns' = [owns EXCEPT ![td] = to]
  <2>1. to = [k \in Explorer!Keys |->
                 IF family \in Explorer!Methods
                    \/ {<<td, n>> : n \in {n \in ds : Explorer!Key(n) = k}} = {} THEN 0
                 ELSE Explorer!Pushed(td, k)]
    BY <1>3, <1>4
  <2>2. \A k \in Explorer!Keys :
            noted[k] = {<<td, n>> : n \in {n \in ds : Explorer!Key(n) = k}}
    BY <1>3
  <2> QED BY <1>0, <1>2, <2>1, <2>2
<1>6. UNCHANGED <<family, parent, content>> /\ toDeclare' = td + 1
  BY <1>0 DEF Explorer!Declare
<1>7. /\ td \in Nat /\ td > 0 /\ Rooted(parent)
      /\ parent[td] \in 0 .. td - 1 /\ LastKin \in Nat /\ Kin = 1 .. LastKin
  BY RootedParent, KinRange DEF ClassInv, ClassesTyped, Rooted
<1>8. /\ methods \in [Kin -> SUBSET Names] /\ marked \in [Kin -> SUBSET Names]
      /\ owns \in [Kin -> [Explorer!Keys -> 0 .. LastKin]]
      /\ lists \in [Kin -> [Explorer!Keys -> SUBSET (Kin \X Names)]]
      /\ ds \in SUBSET Names /\ marked[td] = {}
  BY <1>0, <1>7 DEF ClassInv, ClassesTyped
<1>9. /\ \A c \in Kin : c # td => marked'[c] = marked[c] /\ methods'[c] = methods[c] /\ owns'[c] = owns[c]
      /\ marked'[td] = ds /\ methods'[td] = ms /\ owns'[td] = to
      /\ \A c \in Kin : \A k \in Explorer!Keys :
            lists'[c][k] = lists[c][k] \cup (IF to[k] = c THEN noted[k] ELSE {})
  BY <1>5, <1>8
<1>10. /\ \A n : Explorer!Key(n)' = Explorer!Key(n)
       /\ \A c \in Kin : \A k :
             Notes(c, k)' = IF c = td THEN {n \in ds : Explorer!Key(n) = k} ELSE Notes(c, k)
  <2>1. \A n : Explorer!Key(n)' = Explorer!Key(n)
    BY <1>6 DEF Explorer!Key
  <2> QED BY <1>9, <2>1 DEF Notes
<1>11. \A k \in Explorer!Keys : noted[k] = {} <=> {n \in ds : Explorer!Key(n) = k} = {}
  BY <1>3
<1>12. family \notin Explorer!Methods =>
         /\ \A k \in Explorer!Keys : owns[td][k] = 0
         /\ \A k \in Explorer!Keys : lists[td][k] = {}
  <2>1. ASSUME family \notin Explorer!Methods, NEW k \in Explorer!Keys
        PROVE  owns[td][k] = 0 /\ lists[td][k] = {}
    <3>1. Notes(td, k) = {} /\ owns[td][k] = 0
      BY <1>8, <2>1 DEF ClassInv, Begun, Notes
    <3>2. \A x \in Kin \X Names : ~(x[2] \in Notes(x[1], k) /\ owns[x[1]][k] = td)
      <4>1. SUFFICES ASSUME NEW e \in Kin, owns[e][k] = td PROVE FALSE
        OBVIOUS
      <4>2. owns[e][k] # 0 /\ owns[owns[e][k]][k] = owns[e][k]
        BY <1>7, <2>1, <4>1 DEF ClassInv, Begun
      <4> QED BY <1>7, <3>1, <4>1, <4>2
    <3>3. lists[td][k] = {x \in Kin \X Names : x[2] \in Notes(x[1], k) /\ owns[x[1]][k] = td}
      BY <2>1 DEF ClassInv, Begun
    <3> QED BY <3>1, <3>2, <3>3
  <2> QED BY <2>1
\* What the class finds is the list of its base, if that has one.
<1>13. ASSUME family \notin Explorer!Methods, NEW k \in Explorer!Keys
       PROVE  /\ FoundAt(td, k) = FoundAt(parent[td], k)
              /\ FoundAt(td, k) # 0 =>
                    /\ FoundAt(td, k) \in AncestryIn(parent, td) /\ FoundAt(td, k) # td
                    /\ FoundAt(td, k) \in Kin /\ owns[FoundAt(td, k)][k] = FoundAt(td, k)
  <2>1. owns[td][k] = 0 /\ ClassesTyped
    BY <1>12, <1>13 DEF ClassInv
  <2>2. /\ Owner(td, k) = Owner(parent[td], k)
        /\ Owner(td, k) # 0 => /\ Owner(td, k) \in Kin /\ Owner(td, k) \in AncestryIn(parent, td)
                               /\ owns[Owner(td, k)][k] # 0
    BY <2>1, OwnerIs
  <2>3. FoundAt(td, k) = FoundAt(parent[td], k)
    BY <2>2 DEF FoundAt
  <2>4. ASSUME FoundAt(td, k) # 0
        PROVE  /\ FoundAt(td, k) \in AncestryIn(parent, td) /\ FoundAt(td, k) # td
               /\ FoundAt(td, k) \in Kin /\ owns[FoundAt(td, k)][k] = FoundAt(td, k)
    <3>1. PICK d \in Kin : /\ d = Owner(td, k) /\ d \in AncestryIn(parent, td)
                           /\ owns[d][k] # 0 /\ FoundAt(td, k) = owns[d][k]
      BY <2>2, <2>4 DEF FoundAt
    <3>2. owns[d][k] \in AncestryIn(parent, d) /\ owns[owns[d][k]][k] = owns[d][k]
      BY <1>13, <3>1 DEF ClassInv, Begun
    <3>3. owns[d][k] \in AncestryIn(parent, td) /\ owns[d][k] \in Kin
      BY <1>7, <3>1, <3>2, AncestryNests
    <3> QED BY <2>1, <3>1, <3>2, <3>3
  <2> QED BY <2>3, <2>4
\* Its list is its own, or the one it found.
<1>14. ASSUME family \notin Explorer!Methods, NEW k \in Explorer!Keys
       PROVE  /\ to[k] # 0 <=> {n \in ds : Explorer!Key(n) = k} # {}
              /\ to[k] \in 0 .. LastKin
              /\ to[k] # 0 => to[k] = td \/ (family \in Explorer!Shared /\ to[k] = FoundAt(td, k))
              /\ to[k] # 0 /\ family \in Explorer!Shared /\ FoundAt(td, k) # 0 =>
                     to[k] = FoundAt(td, k)
  <2>1. CASE noted[k] = {}
    BY <1>4, <1>7, <1>11, <1>14, <2>1
  <2>2. CASE noted[k] # {}
    <3>1. to[k] = Explorer!Pushed(td, k)
      BY <1>4, <1>14, <2>2
    <3>2. CASE family \in Explorer!Own
      <4>1. to[k] = td
        BY <1>12, <1>14, <3>1, <3>2 DEF Explorer!Pushed, Explorer!PushesOntoOwn
      <4> QED BY <1>7, <1>11, <2>2, <3>2, <4>1, FamilyIs DEF ClassInv
    <3>3. CASE family \in Explorer!Shared
      <4>1. to[k] = IF FoundAt(td, k) = 0 THEN td ELSE FoundAt(td, k)
        BY <3>1, <3>3, FamilyIs, InTheHierarchy DEF ClassInv, Explorer!Pushed, Explorer!PushesOntoFound
      <4> QED BY <1>7, <1>11, <1>13, <1>14, <2>2, <3>3, <4>1
    <3> QED BY <1>14, <3>2, <3>3, FamilyIs DEF ClassInv
  <2> QED BY <2>1, <2>2
<1>15. \A k \in Explorer!Keys : to[k] \in 0 .. LastKin /\ (family \in Explorer!Methods => to[k] = 0)
  BY <1>4, <1>7, <1>14
<1>16. ClassesTyped'
  <2>1. to \in [Explorer!Keys -> 0 .. LastKin]
    BY <1>4, <1>15
  <2>2. /\ methods' \in [Kin -> SUBSET Names] /\ marked' \in [Kin -> SUBSET Names]
        /\ owns' \in [Kin -> [Explorer!Keys -> 0 .. LastKin]]
    BY <1>5, <1>8, <2>1
  <2>3. \A k \in Explorer!Keys : noted[k] \in SUBSET (Kin \X Names)
    BY <1>3, <1>8
  <2>4. lists' \in [Kin -> [Explorer!Keys -> SUBSET (Kin \X Names)]]
    <3>1. \A c \in Kin : \A k \in Explorer!Keys :
              lists[c][k] \cup (IF to[k] = c THEN noted[k] ELSE {}) \in SUBSET (Kin \X Names)
      BY <1>8, <2>3
    <3> QED BY <1>5, <3>1
  <2>5. \A c \in Kin : marked'[c] \subseteq methods'[c]
    BY <1>9 DEF ClassInv, ClassesTyped
  <2>6. \A c \in Kin : c >= toDeclare' => marked'[c] = {}
    <3>1. SUFFICES ASSUME NEW c \in Kin, c >= td + 1 PROVE marked'[c] = {}
      BY <1>6
    <3>2. c # td /\ c >= toDeclare
      BY <1>0, <1>7, <3>1
    <3> QED BY <1>9, <3>2 DEF ClassInv, ClassesTyped
  <2>7. toDeclare' \in Nat /\ toDeclare' > 0
    BY <1>6, <1>7
  <2> QED BY <1>6, <2>2, <2>4, <2>5, <2>6, <2>7 DEF ClassInv, ClassesTyped
<1>17. Begun'
  <2>1. SUFFICES ASSUME family \notin Explorer!Methods, NEW c \in Kin, NEW k \in Explorer!Keys
                 PROVE  /\ owns'[c][k] # 0 <=> Notes(c, k)' # {}
                        /\ owns'[c][k] # 0 => /\ owns'[c][k] \in AncestryIn(parent, c)
                                              /\ owns'[owns'[c][k]][k] = owns'[c][k]
                        /\ lists'[c][k] = {x \in Kin \X Names : /\ x[2] \in Notes(x[1], k)'
                                                                /\ owns'[x[1]][k] = c}
                        /\ family \in Explorer!Own => owns'[c][k] \in {0, c}
    BY <1>6 DEF Begun, Explorer!Methods, Explorer!Own, Explorer!Keys, Explorer!Whole
  <2>2. /\ owns[c][k] # 0 <=> Notes(c, k) # {}
        /\ owns[c][k] # 0 => /\ owns[c][k] \in AncestryIn(parent, c)
                             /\ owns[owns[c][k]][k] = owns[c][k]
        /\ lists[c][k] = {x \in Kin \X Names : x[2] \in Notes(x[1], k) /\ owns[x[1]][k] = c}
        /\ family \in Explorer!Own => owns[c][k] \in {0, c}
    BY <2>1 DEF ClassInv, Begun
  <2>3. /\ to[k] # 0 <=> {n \in ds : Explorer!Key(n) = k} # {}
        /\ to[k] # 0 => to[k] = td \/ (family \in Explorer!Shared /\ to[k] = FoundAt(td, k))
    BY <1>14, <2>1
  <2>4. owns'[c][k] # 0 <=> Notes(c, k)' # {}
    BY <1>9, <1>10, <2>2, <2>3
  <2>5. ASSUME owns'[c][k] # 0
        PROVE  /\ owns'[c][k] \in AncestryIn(parent, c)
               /\ owns'[owns'[c][k]][k] = owns'[c][k]
    <3>1. CASE c # td
      <4>1. owns'[c] = owns[c] /\ owns[c][k] # 0
        BY <1>9, <2>5, <3>1
      <4>2. owns[c][k] \in Kin /\ owns[c][k] # td
        BY <1>7, <1>12, <2>1, <2>2, <4>1, AncestryNests
      <4> QED BY <1>9, <2>2, <4>1, <4>2
    <3>2. CASE c = td /\ to[k] = td
      BY <1>7, <1>9, <3>2, AncestryNests
    <3>3. CASE c = td /\ to[k] # td
      <4>1. owns'[c][k] = FoundAt(td, k) /\ FoundAt(td, k) # 0
        BY <1>9, <2>3, <2>5, <3>3
      <4>2. PICK d \in Kin : /\ d = FoundAt(td, k) /\ d \in AncestryIn(parent, td)
                             /\ d # td /\ owns[d][k] = d
        BY <1>13, <2>1, <4>1
      <4> QED BY <1>9, <3>3, <4>1, <4>2
    <3> QED BY <3>1, <3>2, <3>3
  <2>6. lists'[c][k] = {x \in Kin \X Names : x[2] \in Notes(x[1], k)' /\ owns'[x[1]][k] = c}
    <3>1. ASSUME NEW e \in Kin, NEW n \in Names
          PROVE  <<e, n>> \in lists'[c][k] <=> n \in Notes(e, k)' /\ owns'[e][k] = c
      <4>1. <<e, n>> \in lists[c][k] <=> n \in Notes(e, k) /\ owns[e][k] = c
        BY <2>2, <3>1
      <4>2. lists'[c][k] = lists[c][k] \cup (IF to[k] = c THEN noted[k] ELSE {})
        BY <1>9
      <4>3. <<e, n>> \in noted[k] <=> e = td /\ n \in {m \in ds : Explorer!Key(m) = k}
        BY <1>3
      <4>4. CASE e = td
        <5>1. n \notin Notes(td, k) /\ owns'[e][k] = to[k]
          BY <1>8, <1>9, <4>4 DEF Notes
        <5> QED BY <1>10, <4>1, <4>2, <4>3, <4>4, <5>1
      <4>5. CASE e # td
        BY <1>9, <1>10, <4>1, <4>2, <4>3, <4>5
      <4> QED BY <4>4, <4>5
    <3>2. lists'[c][k] \subseteq Kin \X Names
      BY <1>16 DEF ClassesTyped, Explorer!Keys, Explorer!Whole
    <3> QED BY <3>1, <3>2
  <2>7. family \in Explorer!Own => owns'[c][k] \in {0, c}
    BY <1>9, <2>2, <2>3, FamilyIs DEF ClassInv
  <2> QED BY <2>4, <2>5, <2>6, <2>7
<1>18. Sharing'
  <2>1. SUFFICES ASSUME family \in Explorer!Shared, NEW c \in Kin, NEW k \in Explorer!Keys,
                        owns'[c][k] # 0, FoundAt(parent[c], k)' # 0
                 PROVE  owns'[c][k] = FoundAt(parent[c], k)'
    BY <1>6 DEF Sharing, Explorer!Shared, Explorer!Keys, Explorer!Whole
  <2>2. parent[c] \in 0 .. c - 1 /\ c \in Nat /\ family \notin Explorer!Methods
    BY <1>7, <2>1, FamilyIs DEF Rooted, ClassInv
  <2>3. c <= td
    <3>1. ~(c >= toDeclare + 1)
      <4>1. c >= toDeclare + 1 => marked'[c] = {}
        BY <1>0, <1>6, <1>16 DEF ClassesTyped
      <4>2. Notes(c, k)' # {}
        BY <1>6, <1>17, <2>1, <2>2 DEF Begun, Explorer!Methods, Explorer!Keys, Explorer!Whole
      <4> QED BY <4>1, <4>2 DEF Notes
    <3> QED BY <1>0, <1>7, <2>2, <3>1
  <2>4. PICK f : f = [x \in Kin |-> owns[x][k] # 0]
    OBVIOUS
  <2>5. PICK g : g = [x \in Kin |-> owns'[x][k] # 0]
    OBVIOUS
  <2>6. /\ Owner(parent[c], k) = NearestIn(parent, parent[c], f)
        /\ Owner(parent[c], k)' = NearestIn(parent, parent[c], g)
    BY <1>6, <2>4, <2>5 DEF Owner
  <2>7. Owner(parent[c], k)' = Owner(parent[c], k) /\ FoundAt(parent[c], k)' = FoundAt(parent[c], k)
    <3>1. CASE parent[c] = 0
      <4>1. Owner(parent[c], k) = 0 /\ Owner(parent[c], k)' = 0
        BY <1>7, <2>6, <3>1, NearestUnfolds
      <4> QED BY <4>1 DEF FoundAt
    <3>2. CASE parent[c] # 0
      <4>1. PICK b \in Kin : b = parent[c] /\ b <= td - 1 /\ td - 1 \in Nat
        BY <1>7, <2>2, <2>3, <3>2
      <4>2. \A x \in Kin : x <= td - 1 => (f[x] <=> g[x])
        <5>1. \A x \in Kin : x <= td - 1 => x # td
          BY <1>7
        <5> QED BY <1>9, <2>4, <2>5, <5>1
      <4>3. NearestIn(parent, b, f) = NearestIn(parent, b, g)
        BY <1>7, <4>1, <4>2, NearestSame
      <4>4. Owner(parent[c], k)' = Owner(parent[c], k) /\ Owner(b, k) = Owner(parent[c], k)
        BY <2>6, <4>1, <4>3
      <4>5. Owner(b, k) \in 0 .. b /\ (Owner(b, k) # 0 => Owner(b, k) \in Kin)
        BY OwnerIs DEF ClassInv
      <4>6. Owner(b, k) # td
        BY <1>7, <4>1, <4>5
      <4> QED BY <1>6, <1>9, <4>4, <4>5, <4>6 DEF FoundAt
    <3> QED BY <3>1, <3>2
  <2>8. CASE c # td
    BY <1>9, <2>1, <2>7, <2>8 DEF ClassInv, Sharing
  <2>9. CASE c = td
    BY <1>9, <1>13, <1>14, <2>1, <2>2, <2>7, <2>9
  <2> QED BY <2>8, <2>9
<1> QED BY <1>16, <1>17, <1>18 DEF ClassInv

\* A bounded set of numbers that is not empty has a greatest one.
LEMMA GreatestOf ==
    ASSUME NEW T \in SUBSET Nat, T # {}, NEW b \in Nat, \A t \in T : t <= b
    PROVE  \E m \in T : \A t \in T : t <= m
<1>0. {b - t : t \in T} \in SUBSET Nat
  <2>1. \A t \in T : b - t \in Nat
    OBVIOUS
  <2> QED BY <2>1
<1>1. PICK U \in SUBSET Nat : U = {b - t : t \in T}
  BY <1>0
<1>2. U # {}
  BY <1>1
<1>3. PICK u \in U : \A v \in U : u <= v
  BY <1>2, LeastOf
<1>4. PICK m \in T : u = b - m
  BY <1>1, <1>3
<1>5. ASSUME NEW t \in T PROVE t <= m
  <2>1. b - t \in U /\ t \in Nat /\ m \in Nat
    BY <1>1
  <2>2. b - m <= b - t
    BY <1>3, <1>4, <2>1
  <2> QED BY <2>1, <2>2
<1> QED BY <1>5

\* Of the entries with one name, the latest remains.
LEMMA LatestHas ==
    ASSUME ApplicationAssumption, NEW xs \in SUBSET (Kin \X Names), NEW x \in xs
    PROVE  \E y \in Explorer!Latest(xs) : y[2] = x[2]
<1>1. PICK T \in SUBSET Nat : T = {d \in Kin : <<d, x[2]>> \in xs}
  BY KinRange
<1>2. PICK e \in Kin, n \in Names : x = <<e, n>>
  OBVIOUS
<1>3. e \in T
  BY <1>1, <1>2
<1>4. \A t \in T : t <= LastKin
  BY <1>1, KinRange
<1>5. PICK m \in T : \A t \in T : t <= m
  BY <1>3, <1>4, KinRange, GreatestOf
<1>6. <<m, n>> \in xs
  BY <1>1, <1>2, <1>5
<1>7. ASSUME NEW y \in xs, y[2] = n PROVE y[1] <= m
  <2>1. PICK d \in Kin : y = <<d, n>>
    BY <1>7
  <2>2. d \in T
    BY <1>1, <1>2, <1>7, <2>1
  <2> QED BY <1>5, <2>1, <2>2
<1>8. <<m, n>> \in Explorer!Latest(xs)
  BY <1>6, <1>7 DEF Explorer!Latest
<1> QED BY <1>2, <1>8

MarkerOf(c, n) == NearestIn(parent, c, [x \in Kin |-> n \in marked[x]])

\* The nearest class that decorates a method has, or inherits, the method.
LEMMA MarkerIs ==
    ASSUME ApplicationAssumption, ClassInv, NEW c \in Kin, NEW n
    PROVE  /\ Explorer!Marker(c, n) = MarkerOf(c, n)
           /\ MarkerOf(c, n) = IF n \in marked[c] THEN c ELSE MarkerOf(parent[c], n)
           /\ MarkerOf(0, n) = 0
           /\ MarkerOf(c, n) # 0 =>
                 /\ MarkerOf(c, n) \in Kin /\ MarkerOf(c, n) \in AncestryIn(parent, c)
                 /\ n \in marked[MarkerOf(c, n)]
                 /\ Explorer!Implements(c, n) # 0
           /\ \A d \in AncestryIn(parent, c) : n \in marked[d] => MarkerOf(c, n) # 0
<1>0. Rooted(parent)
  BY RootedParent DEF ClassInv, ClassesTyped
<1>1. PICK f : f = [x \in Kin |-> n \in marked[x]]
  OBVIOUS
<1>2. PICK g : g = [x \in Kin |-> n \in methods[x]]
  OBVIOUS
<1>3. /\ Explorer!Marker(c, n) = MarkerOf(c, n)
      /\ \A d : MarkerOf(d, n) = NearestIn(parent, d, f)
      /\ Explorer!Implements(c, n) = NearestIn(parent, c, g)
  BY <1>1, <1>2, InTheHierarchy DEF Explorer!Marker, Explorer!Implements, MarkerOf
<1>4. \A x \in Kin : (f[x] <=> n \in marked[x]) /\ (f[x] => g[x])
  BY <1>1, <1>2 DEF ClassInv, ClassesTyped
<1>5. /\ NearestIn(parent, 0, f) = 0
      /\ NearestIn(parent, c, f) = IF f[c] THEN c ELSE NearestIn(parent, parent[c], f)
  BY <1>0, NearestUnfolds
<1>6. NearestIn(parent, c, f) # 0 =>
          /\ NearestIn(parent, c, f) \in Kin /\ NearestIn(parent, c, f) \in AncestryIn(parent, c)
          /\ f[NearestIn(parent, c, f)]
  BY <1>0, NearestIs
<1>7. NearestIn(parent, c, f) # 0 => NearestIn(parent, c, g) # 0
  BY <1>0, <1>4, NearestWeaker
<1>8. \A d \in AncestryIn(parent, c) : f[d] => NearestIn(parent, c, f) # 0
  BY <1>0, NearestOfAncestor
<1>9. AncestryIn(parent, c) \subseteq Kin
  BY <1>0, AncestryNests
<1> QED BY <1>3, <1>4, <1>5, <1>6, <1>7, <1>8, <1>9

\* The list a class finds.
LEMMA ListIs ==
    ASSUME ApplicationAssumption, ClassInv, NEW c \in Kin, NEW k \in Explorer!Keys,
           family \notin Explorer!Methods
    PROVE  /\ FoundAt(c, k) = 0 => Explorer!List(c, k) = {}
           /\ FoundAt(c, k) # 0 =>
                 /\ FoundAt(c, k) \in Kin /\ FoundAt(c, k) \in AncestryIn(parent, c)
                 /\ owns[FoundAt(c, k)][k] = FoundAt(c, k)
                 /\ Explorer!List(c, k) = {x \in Kin \X Names :
                        x[2] \in Notes(x[1], k) /\ owns[x[1]][k] = FoundAt(c, k)}
           /\ Explorer!List(c, k) \in SUBSET (Kin \X Names)
<1>0. Rooted(parent)
  BY RootedParent DEF ClassInv, ClassesTyped
<1>1. CASE FoundAt(c, k) = 0
  BY <1>1, InTheHierarchy DEF Explorer!List
<1>2. CASE FoundAt(c, k) # 0
  <2>1. PICK d \in Kin : /\ d = Owner(c, k) /\ d \in AncestryIn(parent, c)
                         /\ owns[d][k] # 0 /\ FoundAt(c, k) = owns[d][k]
    BY <1>2, OwnerIs DEF ClassInv, FoundAt
  <2>2. owns[d][k] \in AncestryIn(parent, d) /\ owns[owns[d][k]][k] = owns[d][k]
    BY <2>1 DEF ClassInv, Begun
  <2>3. owns[d][k] \in AncestryIn(parent, c) /\ owns[d][k] \in Kin
    BY <1>0, <2>1, <2>2, AncestryNests
  <2>4. Explorer!List(c, k) = lists[FoundAt(c, k)][k]
    BY <1>2, InTheHierarchy DEF Explorer!List
  <2>5. lists[FoundAt(c, k)][k] = {x \in Kin \X Names :
                        x[2] \in Notes(x[1], k) /\ owns[x[1]][k] = FoundAt(c, k)}
    BY <2>1, <2>3 DEF ClassInv, Begun
  <2> QED BY <1>2, <2>1, <2>2, <2>3, <2>4, <2>5
<1> QED BY <1>1, <1>2

\* Where lists are shared, a class finds the list that the nearest class to decorate a
\* method has put it on.
LEMMA SharedIsFound ==
    ASSUME ApplicationAssumption, ClassInv, family \in Explorer!Shared,
           NEW n \in Names, NEW k \in Explorer!Keys, Explorer!Key(n) = k, NEW c \in Kin,
           MarkerOf(c, n) # 0
    PROVE  FoundAt(c, k) = owns[MarkerOf(c, n)][k] /\ FoundAt(c, k) # 0
<1>0. Rooted(parent) /\ ClassesTyped /\ family \notin Explorer!Methods
  BY RootedParent, FamilyIs DEF ClassInv, ClassesTyped
<1> DEFINE S == {x \in Kin : MarkerOf(x, n) # 0 =>
                    FoundAt(x, k) = owns[MarkerOf(x, n)][k] /\ FoundAt(x, k) # 0}
<1>1. ASSUME NEW x \in Kin, parent[x] # 0 => parent[x] \in S
      PROVE  x \in S
  <2>1. SUFFICES ASSUME MarkerOf(x, n) # 0
                 PROVE  FoundAt(x, k) = owns[MarkerOf(x, n)][k] /\ FoundAt(x, k) # 0
    OBVIOUS
  <2>2. /\ MarkerOf(x, n) = IF n \in marked[x] THEN x ELSE MarkerOf(parent[x], n)
        /\ MarkerOf(0, n) = 0
    BY MarkerIs
  <2>3. /\ Owner(x, k) = IF owns[x][k] # 0 THEN x ELSE Owner(parent[x], k)
        /\ Owner(0, k) = 0 /\ x # 0
    BY <1>0, OwnerIs, KinRange
  <2>4. n \in marked[x] => owns[x][k] # 0
    BY <1>0 DEF ClassInv, Begun, Notes
  <2>5. CASE n \in marked[x]
    BY <2>2, <2>3, <2>4, <2>5 DEF FoundAt
  <2>6. CASE n \notin marked[x]
    <3>1. MarkerOf(x, n) = MarkerOf(parent[x], n) /\ parent[x] # 0
      BY <2>1, <2>2, <2>6
    <3>2. FoundAt(parent[x], k) = owns[MarkerOf(x, n)][k] /\ FoundAt(parent[x], k) # 0
      BY <1>1, <2>1, <3>1
    <3>3. CASE owns[x][k] = 0
      BY <2>3, <3>2, <3>3 DEF FoundAt
    <3>4. CASE owns[x][k] # 0
      <4>1. owns[x][k] = FoundAt(parent[x], k)
        BY <3>2, <3>4 DEF ClassInv, Sharing
      <4> QED BY <2>3, <3>2, <3>4, <4>1 DEF FoundAt
    <3> QED BY <3>3, <3>4
  <2> QED BY <2>5, <2>6
<1>2. Kin \subseteq S
  <2> HIDE DEF S
  <2> QED BY <1>0, <1>1, DownTheTree
<1> QED BY <1>2

\* What the decorators of the class and its bases ask for, where each method has its own
\* decider.
LEMMA AskedIs ==
    ASSUME ApplicationAssumption, ClassInv, NEW c \in Kin, family # "route"
    PROVE  Explorer!Asked(c) = {<<MarkerOf(c, n), n>> : n \in {n \in Names :
               MarkerOf(c, n) # 0 /\ (family \in Explorer!Methods => n \in methods[c])}}
<1>1. \A n : Explorer!Decider(c, n) = MarkerOf(c, n)
  BY MarkerIs DEF Explorer!Decider
<1>2. \A n : MarkerOf(c, n) # 0 => n \in marked[MarkerOf(c, n)]
  BY MarkerIs
<1> QED BY <1>1, <1>2 DEF Explorer!Asked

LEMMA KeyIs ==
    ASSUME NEW n \in Names
    PROVE  Explorer!Key(n) \in Explorer!Keys
BY DEF Explorer!Key, Explorer!Keys

\* Where lists are shared, the mark a class asks for is on the list it finds.
LEMMA SharedMark ==
    ASSUME ApplicationAssumption, ClassInv, family \in Explorer!Shared, NEW c \in Kin,
           NEW n \in Names, MarkerOf(c, n) # 0
    PROVE  <<MarkerOf(c, n), n>> \in Explorer!List(c, Explorer!Key(n))
<1>1. PICK k \in Explorer!Keys : k = Explorer!Key(n)
  BY KeyIs
<1>2. PICK m \in Kin : m = MarkerOf(c, n) /\ n \in marked[m]
  BY MarkerIs
<1>3. FoundAt(c, k) = owns[m][k] /\ FoundAt(c, k) # 0
  BY <1>1, <1>2, SharedIsFound
<1>4. n \in Notes(m, k)
  BY <1>1, <1>2 DEF Notes
<1>5. family \notin Explorer!Methods
  BY FamilyIs DEF ClassInv
<1>6. Explorer!List(c, k) = {x \in Kin \X Names :
          x[2] \in Notes(x[1], k) /\ owns[x[1]][k] = FoundAt(c, k)}
  BY <1>3, <1>5, ListIs
<1> QED BY <1>1, <1>2, <1>3, <1>4, <1>6

\* Unless classes of the family tree share it, the list holds nothing else.
LEMMA SharedSole ==
    ASSUME ApplicationAssumption, ClassInv, family \in Explorer!Shared, NEW c \in Kin,
           ~Explorer!Mixed(c), NEW k \in Explorer!Keys, NEW x \in Explorer!List(c, k)
    PROVE  /\ x[2] \in Names /\ Explorer!Key(x[2]) = k
           /\ MarkerOf(c, x[2]) # 0 /\ x = <<MarkerOf(c, x[2]), x[2]>>
<1>0. Rooted(parent) /\ family \notin Explorer!Methods
  BY RootedParent, FamilyIs DEF ClassInv, ClassesTyped
<1>1. PICK F \in Kin : /\ F = FoundAt(c, k) /\ F # 0 /\ F \in AncestryIn(parent, c)
                       /\ owns[F][k] = F
                       /\ x \in Kin \X Names /\ x[2] \in Notes(x[1], k) /\ owns[x[1]][k] = F
  BY <1>0, ListIs
<1>2. PICK e \in Kin, n \in Names : x = <<e, n>>
  BY <1>1
<1>3. n \in Notes(e, k) /\ owns[e][k] = F
  BY <1>1, <1>2
<1>4. F \in AncestryIn(parent, e) /\ Notes(F, k) # {}
  BY <1>0, <1>1, <1>3 DEF ClassInv, Begun
<1>5. n \in marked[e] /\ Explorer!Key(n) = k /\ marked[F] # {}
  BY <1>3, <1>4 DEF Notes
<1>6. \A d : Explorer!Ancestry(d) = AncestryIn(parent, d)
  BY InTheHierarchy
<1>7. \A d \in Kin : d \in AncestryIn(parent, c) => d \in Explorer!Relatives(c)
  BY <1>0, <1>6, AncestryNests DEF Explorer!Relatives
<1>8. e \in Explorer!Relatives(c)
  BY <1>1, <1>4, <1>6 DEF Explorer!Relatives
<1>9. \A d \in Explorer!Relatives(c) : marked[d] # {} => d = e
  BY <1>5, <1>8 DEF Explorer!Mixed
<1>10. F = e
  BY <1>1, <1>5, <1>7, <1>9
<1>11. MarkerOf(c, n) # 0
  BY <1>1, <1>5, <1>10, MarkerIs
<1>12. /\ MarkerOf(c, n) \in Kin /\ MarkerOf(c, n) \in AncestryIn(parent, c)
       /\ n \in marked[MarkerOf(c, n)]
  BY <1>11, MarkerIs
<1>13. MarkerOf(c, n) = e
  BY <1>7, <1>9, <1>12
<1> QED BY <1>2, <1>5, <1>11, <1>13

\* A list that names each method once is left as it is.
LEMMA LatestSame ==
    ASSUME NEW xs, \A x, y \in xs : x[2] = y[2] => x[1] = y[1], \A x \in xs : x[1] \in Nat
    PROVE  Explorer!Latest(xs) = xs
<1>1. \A x, y \in xs : y[2] = x[2] => y[1] <= x[1]
  OBVIOUS
<1> QED BY <1>1 DEF Explorer!Latest

\* What it means that the right marks are registered for a class.
Right(c) ==
    /\ \A x \in Explorer!Asked(c) : \E y \in Explorer!Marks(c) : y[2] = x[2]
    /\ ~Explorer!Mixed(c) => Explorer!Marks(c) = Explorer!Asked(c)
    /\ family = "hook" /\ ~Explorer!Mixed(c) =>
          \A x \in Explorer!HookMarks(c) : Explorer!Implements(c, x[2]) # 0

LEMMA SharedRight ==
    ASSUME ApplicationAssumption, ClassInv, family \in Explorer!Shared, NEW c \in Kin
    PROVE  Right(c)
<1>0. /\ family \notin Explorer!Methods /\ family # "route" /\ family # "param"
      /\ Explorer!Whole \in Explorer!Keys
  BY FamilyIs DEF ClassInv, Explorer!Own, Explorer!Keys
<1>1. PICK A : A = Explorer!Asked(c)
  OBVIOUS
<1>2. A = {<<MarkerOf(c, n), n>> : n \in {n \in Names : MarkerOf(c, n) # 0}}
  BY <1>0, <1>1, AskedIs
<1>3. \A n \in Names : MarkerOf(c, n) # 0 =>
          <<MarkerOf(c, n), n>> \in Explorer!List(c, Explorer!Key(n))
  BY SharedMark
<1>4. \A n : MarkerOf(c, n) # 0 => Explorer!Implements(c, n) # 0
  BY MarkerIs
<1>5. \A k \in Explorer!Keys : Explorer!List(c, k) \in SUBSET (Kin \X Names)
  BY <1>0, ListIs
<1>6. ~Explorer!Mixed(c) => \A k \in Explorer!Keys : \A x \in Explorer!List(c, k) :
          /\ x[2] \in Names /\ Explorer!Key(x[2]) = k
          /\ MarkerOf(c, x[2]) # 0 /\ x = <<MarkerOf(c, x[2]), x[2]>>
  BY SharedSole
<1>7. CASE family # "file"
  <2>1. \A n : Explorer!Key(n) = Explorer!Whole
    BY <1>0, <1>7 DEF Explorer!Key
  <2>2. PICK L \in SUBSET (Kin \X Names) : L = Explorer!List(c, Explorer!Whole)
    BY <1>0, <1>5
  <2>3. A \subseteq L
    BY <1>2, <1>3, <2>1, <2>2
  <2>4. ~Explorer!Mixed(c) => L \subseteq A
    BY <1>0, <1>2, <1>6, <2>2
  <2>5. \A x \in A : Explorer!Implements(c, x[2]) # 0
    BY <1>2, <1>4
  <2>6. CASE family = "hook"
    <3>1. Explorer!HookMarks(c) = L /\ Explorer!Marks(c) = L
      BY <2>2, <2>6 DEF Explorer!Marks, Explorer!HookMarks
    <3> QED BY <1>1, <2>3, <2>4, <2>5, <3>1 DEF Right
  <2>7. CASE family # "hook"
    <3>1. PICK M \in SUBSET (Kin \X Names) : M = {x \in L : Explorer!Implements(c, x[2]) # 0}
      BY <2>2
    <3>2. Explorer!ListMarks(c) = M
      BY <2>2, <3>1 DEF Explorer!ListMarks
    <3>3. A \subseteq M /\ (~Explorer!Mixed(c) => M = A)
      BY <2>3, <2>4, <2>5, <3>1
    <3>4. CASE family = "process"
      <4>1. Explorer!Marks(c) = Explorer!Latest(M)
        BY <3>2, <3>4 DEF Explorer!Marks, Explorer!ProcessMarks
      <4>2. \A x \in A : \E y \in Explorer!Latest(M) : y[2] = x[2]
        BY <3>3, LatestHas
      <4>3. ASSUME M = A PROVE Explorer!Latest(M) = M
        <5>1. \A x, y \in M : x[2] = y[2] => x[1] = y[1]
          BY <1>2, <4>3
        <5>2. \A x \in M : x[1] \in Nat
          BY <3>1, KinRange
        <5> QED BY <5>1, <5>2, LatestSame
      <4> QED BY <1>1, <2>7, <3>3, <4>1, <4>2, <4>3 DEF Right
    <3>5. CASE family # "process"
      <4>1. family \in {"event", "worker", "job"}
        BY <1>7, <2>7, <3>5 DEF Explorer!Shared
      <4>2. Explorer!Marks(c) = M
        BY <3>2, <4>1 DEF Explorer!Marks
      <4> QED BY <1>1, <2>7, <3>3, <4>2 DEF Right
    <3> QED BY <3>4, <3>5
  <2> QED BY <2>6, <2>7
<1>8. CASE family = "file"
  <2>1. \A n : Explorer!Key(n) = n
    BY <1>8 DEF Explorer!Key
  <2>2. Explorer!Marks(c) = UNION {Explorer!Latest(Explorer!List(c, n)) :
                                n \in {n \in Names : Explorer!Implements(c, n) # 0}}
    BY <1>8 DEF Explorer!Marks, Explorer!ParamMarks
  <2>3. ASSUME NEW x \in A PROVE \E y \in Explorer!Marks(c) : y[2] = x[2]
    <3>1. PICK n \in Names : x = <<MarkerOf(c, n), n>> /\ MarkerOf(c, n) # 0
      BY <1>2, <2>3
    <3>2. x \in Explorer!List(c, n) /\ Explorer!Implements(c, n) # 0 /\ n \in Explorer!Keys
      BY <1>3, <1>4, <2>1, <3>1 DEF Explorer!Keys
    <3>3. PICK y \in Explorer!Latest(Explorer!List(c, n)) : y[2] = x[2]
      BY <1>5, <3>2, LatestHas
    <3> QED BY <2>2, <3>2, <3>3
  <2>4. ASSUME ~Explorer!Mixed(c), NEW n \in Names
        PROVE  Explorer!Latest(Explorer!List(c, n)) = {x \in A : x[2] = n}
    <3>1. n \in Explorer!Keys
      BY DEF Explorer!Keys
    <3>2. \A x \in Explorer!List(c, n) : x[2] = n /\ x = <<MarkerOf(c, n), n>>
      BY <1>6, <2>1, <2>4, <3>1
    <3>3. Explorer!Latest(Explorer!List(c, n)) = Explorer!List(c, n)
      <4>1. \A x, y \in Explorer!List(c, n) : x[2] = y[2] => x[1] = y[1]
        BY <3>2
      <4>2. \A x \in Explorer!List(c, n) : x[1] \in Nat
        BY <1>5, <3>1, KinRange
      <4> QED BY <4>1, <4>2, LatestSame
    <3>4. \A x \in Explorer!List(c, n) : MarkerOf(c, n) # 0
      BY <1>6, <2>4, <3>1, <3>2
    <3>5. MarkerOf(c, n) # 0 => <<MarkerOf(c, n), n>> \in Explorer!List(c, n)
      BY <1>3, <2>1
    <3> QED BY <1>2, <3>2, <3>3, <3>4, <3>5
  <2>5. ASSUME ~Explorer!Mixed(c) PROVE Explorer!Marks(c) = A
    <3>1. Explorer!Marks(c) = UNION {{x \in A : x[2] = n} :
                                n \in {n \in Names : Explorer!Implements(c, n) # 0}}
      BY <2>2, <2>4, <2>5
    <3>2. \A x \in A : x[2] \in Names /\ Explorer!Implements(c, x[2]) # 0
      BY <1>2, <1>4
    <3> QED BY <3>1, <3>2
  <2> QED BY <1>1, <1>8, <2>3, <2>5 DEF Right
<1> QED BY <1>7, <1>8

\* Where a class starts a list of its own, it finds that of the nearest class to have one.
LEMMA OwnList ==
    ASSUME ApplicationAssumption, ClassInv, family \in Explorer!Own, NEW c \in Kin,
           NEW k \in Explorer!Keys
    PROVE  /\ Owner(c, k) # 0 => Owner(c, k) \in Kin
           /\ Explorer!List(c, k) = IF Owner(c, k) = 0 THEN {}
                                    ELSE {<<Owner(c, k), n>> : n \in Notes(Owner(c, k), k)}
<1>0. family \notin Explorer!Methods
  BY FamilyIs DEF ClassInv
<1>1. CASE Owner(c, k) = 0
  BY <1>0, <1>1, ListIs DEF FoundAt
<1>2. CASE Owner(c, k) # 0
  <2>1. PICK D \in Kin : D = Owner(c, k) /\ owns[D][k] # 0 /\ FoundAt(c, k) = owns[D][k]
    BY <1>2, OwnerIs DEF ClassInv, FoundAt
  <2>2. \A d \in Kin : owns[d][k] \in {0, d} /\ (owns[d][k] # 0 <=> Notes(d, k) # {})
    BY <1>0 DEF ClassInv, Begun
  <2>3. FoundAt(c, k) = D /\ owns[D][k] = D /\ D # 0
    BY <2>1, <2>2
  <2>4. Explorer!List(c, k) = {x \in Kin \X Names :
            x[2] \in Notes(x[1], k) /\ owns[x[1]][k] = D}
    BY <1>0, <2>3, ListIs
  <2>5. \A d \in Kin : owns[d][k] = D <=> d = D
    BY <2>2, <2>3
  <2>6. Notes(D, k) \subseteq Names
    BY DEF Notes, ClassInv, ClassesTyped
  <2>7. Explorer!List(c, k) = {<<D, n>> : n \in Notes(D, k)}
    BY <2>4, <2>5, <2>6
  <2> QED BY <2>1, <2>3, <2>7
<1> QED BY <1>1, <1>2

LEMMA OwnRight ==
    ASSUME ApplicationAssumption, ClassInv, family \in Explorer!Own, NEW c \in Kin
    PROVE  Right(c)
<1>0. /\ Rooted(parent) /\ family \notin Explorer!Methods /\ family \notin Explorer!Shared
      /\ family \in {"route", "param"} /\ Explorer!Whole \in Explorer!Keys
  BY RootedParent, FamilyIs DEF ClassInv, ClassesTyped, Explorer!Own, Explorer!Keys
<1>1. \A d \in Kin : \A k \in Explorer!Keys : owns[d][k] # 0 <=> Notes(d, k) # {}
  BY <1>0 DEF ClassInv, Begun
<1>2. \A d \in Kin : marked[d] \subseteq Names
  BY DEF ClassInv, ClassesTyped
<1>3. CASE family = "route"
  <2>1. PICK D : D = Owner(c, Explorer!Whole)
    OBVIOUS
  <2>2. \A d \in Kin : Notes(d, Explorer!Whole) = marked[d]
    BY <1>3 DEF Notes, Explorer!Key
  <2>3. PICK f : f = [x \in Kin |-> marked[x] # {}]
    OBVIOUS
  <2>4. PICK g : g = [x \in Kin |-> owns[x][Explorer!Whole] # 0]
    OBVIOUS
  <2>5. \A x \in Kin : f[x] <=> g[x]
    BY <1>0, <1>1, <2>2, <2>3, <2>4
  <2>6. NearestIn(parent, c, f) = NearestIn(parent, c, g)
    BY <1>0, <2>5, KinRange, NearestSame
  <2>7. \A n : Explorer!Decider(c, n) = D
    BY <1>3, <2>1, <2>3, <2>4, <2>6, InTheHierarchy DEF Explorer!Decider, Owner
  <2>8. Explorer!List(c, Explorer!Whole) =
            IF D = 0 THEN {} ELSE {<<D, n>> : n \in Notes(D, Explorer!Whole)}
    BY <1>0, <2>1, OwnList
  <2>9. D # 0 => D \in Kin
    BY <1>0, <2>1, OwnList
  <2>10. Explorer!Asked(c) = {<<D, n>> : n \in {n \in Names : D # 0 /\ n \in marked[D]}}
    BY <1>0, <2>7 DEF Explorer!Asked
  <2>11. Explorer!Asked(c) = Explorer!List(c, Explorer!Whole)
    BY <1>2, <2>2, <2>8, <2>9, <2>10
  <2>12. Explorer!Marks(c) = Explorer!List(c, Explorer!Whole)
    BY <1>3 DEF Explorer!Marks, Explorer!RouteMarks
  <2> QED BY <1>3, <2>11, <2>12 DEF Right
<1>4. CASE family = "param"
  <2>1. ASSUME NEW n \in Names
        PROVE  Explorer!Latest(Explorer!List(c, n)) =
                   {x \in {<<MarkerOf(c, n), n>>} : MarkerOf(c, n) # 0}
    <3>0. n \in Explorer!Keys
      BY DEF Explorer!Keys
    <3>1. PICK f : f = [x \in Kin |-> n \in marked[x]]
      OBVIOUS
    <3>2. PICK g : g = [x \in Kin |-> owns[x][n] # 0]
      OBVIOUS
    <3>3. \A x \in Kin : Notes(x, n) = {m \in {n} : n \in marked[x]}
      BY <1>4 DEF Notes, Explorer!Key
    <3>4. \A x \in Kin : f[x] <=> g[x]
      BY <1>1, <3>0, <3>1, <3>2, <3>3
    <3>5. NearestIn(parent, c, f) = NearestIn(parent, c, g)
      BY <1>0, <3>4, KinRange, NearestSame
    <3>6. PICK D : D = Owner(c, n) /\ D = MarkerOf(c, n)
      BY <3>1, <3>2, <3>5 DEF Owner, MarkerOf
    <3>7. D # 0 => D \in Kin /\ n \in marked[D]
      BY <3>6, MarkerIs
    <3>8. Explorer!List(c, n) = IF D = 0 THEN {} ELSE {<<D, m>> : m \in Notes(D, n)}
      <4>1. PICK k \in Explorer!Keys : k = n
        BY <3>0
      <4>2. Explorer!List(c, k) = IF Owner(c, k) = 0 THEN {}
                                  ELSE {<<Owner(c, k), m>> : m \in Notes(Owner(c, k), k)}
        BY OwnList
      <4>3. Owner(c, k) = D /\ Notes(D, k) = Notes(D, n)
        BY <3>6, <4>1
      <4>4. {<<Owner(c, k), m>> : m \in Notes(Owner(c, k), k)} = {<<D, m>> : m \in Notes(D, n)}
        BY <4>3
      <4>5. Explorer!List(c, k) = Explorer!List(c, n)
        BY <4>1
      <4> QED BY <4>2, <4>3, <4>4, <4>5
    <3>9. Explorer!List(c, n) = {x \in {<<D, n>>} : D # 0}
      BY <3>3, <3>7, <3>8
    <3>10. Explorer!Latest(Explorer!List(c, n)) = Explorer!List(c, n)
      <4>1. \A x, y \in Explorer!List(c, n) : x[2] = y[2] => x[1] = y[1]
        BY <3>9
      <4>2. \A x \in Explorer!List(c, n) : x[1] \in Nat
        BY <3>7, <3>9, KinRange
      <4> QED BY <4>1, <4>2, LatestSame
    <3> QED BY <3>6, <3>9, <3>10
  <2>2. Explorer!Marks(c) = UNION {Explorer!Latest(Explorer!List(c, n)) :
                                n \in {n \in Names : Explorer!Implements(c, n) # 0}}
    BY <1>4 DEF Explorer!Marks, Explorer!ParamMarks
  <2>3. Explorer!Marks(c) = UNION {{x \in {<<MarkerOf(c, n), n>>} : MarkerOf(c, n) # 0} :
                                n \in {n \in Names : Explorer!Implements(c, n) # 0}}
    BY <2>1, <2>2
  <2>4. \A n : MarkerOf(c, n) # 0 => Explorer!Implements(c, n) # 0
    BY MarkerIs
  <2>5. Explorer!Asked(c) = {<<MarkerOf(c, n), n>> : n \in {n \in Names : MarkerOf(c, n) # 0}}
    BY <1>0, <1>4, AskedIs
  <2>6. Explorer!Marks(c) = Explorer!Asked(c)
    BY <2>3, <2>4, <2>5
  <2> QED BY <1>4, <2>6 DEF Right
<1> QED BY <1>0, <1>3, <1>4

LEMMA MethodsRight ==
    ASSUME ApplicationAssumption, ClassInv, family \in Explorer!Methods, NEW c \in Kin
    PROVE  Right(c)
<1>1. family \in {"rabbit", "pattern", "gateway"} /\ family # "route"
  BY DEF Explorer!Methods
<1>2. \A n : Explorer!Marker(c, n) = MarkerOf(c, n)
  BY MarkerIs
<1>3. methods[c] \subseteq Names
  BY DEF ClassInv, ClassesTyped
<1>4. Explorer!Marks(c) = {<<MarkerOf(c, n), n>> : n \in {n \in methods[c] : MarkerOf(c, n) # 0}}
  BY <1>1, <1>2 DEF Explorer!Marks, Explorer!RabbitMarks, Explorer!PatternMarks,
       Explorer!GatewayMarks, Explorer!Marking
<1>5. Explorer!Asked(c) = {<<MarkerOf(c, n), n>> : n \in {n \in Names :
               MarkerOf(c, n) # 0 /\ (family \in Explorer!Methods => n \in methods[c])}}
  BY <1>1, AskedIs
<1>6. Explorer!Marks(c) = Explorer!Asked(c)
  BY <1>3, <1>4, <1>5
<1> QED BY <1>1, <1>6 DEF Right

\* Every class registers the right marks.
LEMMA MarksRight ==
    ASSUME ApplicationAssumption, ClassInv, NEW c \in Kin
    PROVE  Right(c)
BY FamilyIs, SharedRight, OwnRight, MethodsRight DEF ClassInv

\* Once the classes are declared, what they ask for and what is registered stay the same.
LEMMA ClassesStay ==
    ASSUME ApplicationAssumption, ClassesTyped,
           UNCHANGED <<family, parent, content, methods, marked, lists, owns>>
    PROVE  /\ \A c : Explorer!Marks(c)' = Explorer!Marks(c)
           /\ \A c : Explorer!Mixed(c)' <=> Explorer!Mixed(c)
           /\ \A k : Explorer!Counts(k)' <=> Explorer!Counts(k)
<1>1. \A c, f : Explorer!Nearest(c, f)' = Explorer!Nearest(c, f)
  BY DEF Explorer!Nearest
<1>2. \A c : Explorer!Ancestry(c)' = Explorer!Ancestry(c)
  BY DEF Explorer!Ancestry
<1>3. \A c : Explorer!Relatives(c)' = Explorer!Relatives(c)
  BY <1>2 DEF Explorer!Relatives
<1>4. \A c : Explorer!Mixed(c)' <=> Explorer!Mixed(c)
  BY <1>3 DEF Explorer!Mixed
<1>5. \A k : Explorer!Before(k)' = Explorer!Before(k)
  BY DEF Explorer!Before
<1>6. \A k : Explorer!Counts(k)' <=> Explorer!Counts(k)
  BY <1>5 DEF Explorer!Counts
<1>7. \A c, n : Explorer!Marker(c, n)' = Explorer!Marker(c, n)
  BY <1>1 DEF Explorer!Marker
<1>8. \A c, n : Explorer!Implements(c, n)' = Explorer!Implements(c, n)
  BY <1>1 DEF Explorer!Implements
<1>9. \A c, k : Explorer!List(c, k)' = Explorer!List(c, k)
  BY <1>1 DEF Explorer!List, Explorer!Found
<1>10. \A c : Explorer!ListMarks(c)' = Explorer!ListMarks(c)
  BY <1>8, <1>9 DEF Explorer!ListMarks
<1>11. \A c : Explorer!ProcessMarks(c)' = Explorer!ProcessMarks(c)
  BY <1>10 DEF Explorer!ProcessMarks, Explorer!Latest
<1>12. \A c : Explorer!ParamMarks(c)' = Explorer!ParamMarks(c)
  BY <1>8, <1>9 DEF Explorer!ParamMarks, Explorer!Latest
<1>13. \A c : Explorer!Marking(c)' = Explorer!Marking(c)
  BY <1>7 DEF Explorer!Marking
<1>14. \A c : /\ Explorer!RabbitMarks(c)' = Explorer!RabbitMarks(c)
              /\ Explorer!PatternMarks(c)' = Explorer!PatternMarks(c)
              /\ Explorer!GatewayMarks(c)' = Explorer!GatewayMarks(c)
  BY <1>7, <1>13 DEF Explorer!RabbitMarks, Explorer!PatternMarks, Explorer!GatewayMarks
<1>15. \A c : Explorer!RouteMarks(c)' = Explorer!RouteMarks(c) /\ Explorer!HookMarks(c)' = Explorer!HookMarks(c)
  BY <1>9 DEF Explorer!RouteMarks, Explorer!HookMarks
<1>16. \A c : Explorer!Marks(c)' = Explorer!Marks(c)
  <2>1. family \in {"event", "worker", "process", "job", "hook", "file", "route", "param",
                    "rabbit", "pattern", "gateway"}
    BY FamilyIs DEF Explorer!Shared, Explorer!Own, Explorer!Methods
  <2> QED BY <1>10, <1>11, <1>12, <1>14, <1>15, <2>1 DEF Explorer!Marks
<1> QED BY <1>4, <1>6, <1>16

\* A wrapper that the explorer has come by has registered what its class marks, if it counts.
Registered(k) ==
    Explorer!Of(k) = {x \in Explorer!Marks(content[k].kin) : k <= visited /\ Explorer!Counts(k)}

Explored ==
    /\ visited \in 0 .. Len(content)
    /\ phase \in {"declaring", "exploring", "running", "failed", "stopped"}
    /\ phase = "declaring" => visited = 0
    /\ phase = "running" => visited = Len(content)
    /\ phase \in {"declaring", "exploring", "running"} => \A k \in DOMAIN content : Registered(k)
    /\ phase = "failed" => \E k \in DOMAIN content : Explorer!Mixed(content[k].kin)

DiscoveryInv == ClassInv /\ Explored

LEMMA ContentIs ==
    ASSUME ApplicationAssumption, ClassesTyped
    PROVE  /\ Len(content) \in Nat /\ DOMAIN content = 1 .. Len(content)
           /\ \A k \in DOMAIN content : content[k].kin \in Kin
<1>1. content \in Seq(Explorer!Wrappers)
  BY DEF ApplicationAssumption, Explorer!DiscoveryAssumption, ClassesTyped
<1>2. Len(content) \in Nat /\ DOMAIN content = 1 .. Len(content)
  BY <1>1, LenProperties
<1>3. \A k \in DOMAIN content : content[k] \in Explorer!Wrappers
  BY <1>1, <1>2, ElementOfSeq
<1> QED BY <1>2, <1>3 DEF Explorer!Wrappers

LEMMA DiscoveryInit == ASSUME ApplicationAssumption, Explorer!Init PROVE DiscoveryInv
<1>1. ClassInv
  BY ClassInit
<1>2. visited = 0 /\ handlers = {} /\ phase = "declaring"
  BY DEF Explorer!Init
<1>3. Len(content) \in Nat /\ DOMAIN content = 1 .. Len(content)
  BY <1>1, ContentIs DEF ClassInv
<1>4. ASSUME NEW k \in DOMAIN content PROVE Registered(k)
  BY <1>2, <1>3 DEF Registered, Explorer!Of
<1> QED BY <1>1, <1>2, <1>3, <1>4 DEF DiscoveryInv, Explored

LEMMA OnDeclare == ASSUME ApplicationAssumption, DiscoveryInv, Explorer!Declare PROVE DiscoveryInv'
<1>1. ClassInv'
  BY DeclareKeeps DEF DiscoveryInv
<1>2. UNCHANGED <<content, visited, handlers, phase>> /\ phase = "declaring"
  BY DEF Explorer!Declare
<1>3. visited = 0 /\ Len(content) \in Nat /\ DOMAIN content = 1 .. Len(content)
  BY <1>2, ContentIs DEF DiscoveryInv, Explored, ClassInv
<1>4. ASSUME NEW k \in DOMAIN content PROVE Registered(k)'
  <2>1. Explorer!Of(k) = {}
    BY <1>2, <1>3 DEF DiscoveryInv, Explored, Registered
  <2>2. Explorer!Of(k)' = Explorer!Of(k)
    BY <1>2 DEF Explorer!Of
  <2> QED BY <1>2, <1>3, <2>1, <2>2 DEF Registered
<1> QED BY <1>1, <1>2, <1>3, <1>4 DEF DiscoveryInv, Explored

\* What holds of the classes goes on holding once they are declared.
LEMMA ClassesKept ==
    ASSUME ApplicationAssumption, ClassInv,
           UNCHANGED <<family, parent, content, toDeclare, methods, marked, lists, owns>>
    PROVE  ClassInv'
<1>1. ClassesTyped'
  BY DEF ClassInv, ClassesTyped, Explorer!Keys
<1>2. \A c, f : NearestIn(parent, c, f)' = NearestIn(parent, c, f)
  BY DEF NearestIn
<1>3. \A c : AncestryIn(parent, c)' = AncestryIn(parent, c)
  BY DEF AncestryIn
<1>4. \A c, k : Notes(c, k)' = Notes(c, k)
  BY DEF Notes, Explorer!Key
<1>5. Begun'
  BY <1>3, <1>4 DEF ClassInv, Begun
<1>6. \A c, k : FoundAt(c, k)' = FoundAt(c, k)
  BY <1>2 DEF FoundAt, Owner
<1>7. Sharing'
  BY <1>6 DEF ClassInv, Sharing
<1> QED BY <1>1, <1>5, <1>7 DEF ClassInv

LEMMA OnExplore ==
    ASSUME ApplicationAssumption, DiscoveryInv, Explorer!Explore
    PROVE  DiscoveryInv'
<1>1. UNCHANGED <<family, parent, content, toDeclare, methods, marked, lists, owns>>
  BY DEF Explorer!Explore
<1>2. ClassInv' /\ ClassesTyped
  BY <1>1, ClassesKept DEF DiscoveryInv, ClassInv
<1>3. PICK i : i = visited + 1
  OBVIOUS
<1>4. PICK M : M = {x \in Explorer!Marks(content[i].kin) : Explorer!Counts(i)}
  OBVIOUS
<1>5. PICK new : new = {[at |-> i, kin |-> content[i].kin, instance |-> Explorer!InstanceFor(i),
                         mark |-> x] : x \in M}
  OBVIOUS
<1>6. /\ phase = "exploring" /\ visited < Len(content) /\ visited' = i
      /\ handlers' = handlers \cup new
      /\ phase' = IF i = Len(content) THEN "running" ELSE phase
  BY <1>3, <1>4, <1>5 DEF Explorer!Explore
<1>7. /\ visited \in 0 .. Len(content) /\ Len(content) \in Nat /\ DOMAIN content = 1 .. Len(content)
      /\ \A k \in DOMAIN content : Registered(k)
  BY <1>2, <1>6, ContentIs DEF DiscoveryInv, Explored
<1>8. i \in DOMAIN content /\ visited' \in 0 .. Len(content)
  <2>1. visited < Len(content) /\ visited \in Nat /\ Len(content) \in Nat
    BY <1>6, <1>7
  <2>2. i \in 1 .. Len(content)
    BY <1>3, <2>1
  <2>3. visited' = i /\ DOMAIN content = 1 .. Len(content)
    BY <1>6, <1>7
  <2> QED BY <2>1, <2>2, <2>3
<1>9. /\ \A c : Explorer!Marks(c)' = Explorer!Marks(c)
      /\ \A k : Explorer!Counts(k)' <=> Explorer!Counts(k)
  BY <1>1, <1>2, ClassesStay
<1>10. ASSUME NEW k \in DOMAIN content PROVE Registered(k)'
  <2>1. Explorer!Of(k) = {x \in Explorer!Marks(content[k].kin) : k <= visited /\ Explorer!Counts(k)}
    BY <1>7 DEF Registered
  <2>2. Explorer!Of(k)' = Explorer!Of(k) \cup {h.mark : h \in {h \in new : h.at = k}}
    BY <1>6 DEF Explorer!Of
  <2>3. {h.mark : h \in {h \in new : h.at = k}} = {x \in M : k = i}
    <3>1. \A h \in new : h.at = i /\ h.mark \in M
      BY <1>5
    <3>2. ASSUME NEW x \in M PROVE \E h \in new : h.at = i /\ h.mark = x
      <4>1. PICK h : h = [at |-> i, kin |-> content[i].kin,
                          instance |-> Explorer!InstanceFor(i), mark |-> x]
        OBVIOUS
      <4> QED BY <1>5, <4>1
    <3> QED BY <3>1, <3>2
  <2>4. k \in Nat /\ i \in Nat /\ visited \in Nat /\ (k <= i <=> k <= visited \/ k = i)
    BY <1>3, <1>7
  <2>5. Explorer!Of(k)' = {x \in Explorer!Marks(content[k].kin) : k <= i /\ Explorer!Counts(k)}
    <3>1. CASE k = i
      BY <1>4, <2>1, <2>2, <2>3, <2>4, <3>1
    <3>2. CASE k # i
      BY <2>1, <2>2, <2>3, <2>4, <3>2
    <3> QED BY <3>1, <3>2
  <2> QED BY <1>1, <1>6, <1>9, <2>5 DEF Registered
<1> QED BY <1>1, <1>2, <1>6, <1>8, <1>10 DEF DiscoveryInv, Explored

LEMMA OnExploreFails ==
    ASSUME ApplicationAssumption, DiscoveryInv, Explorer!ExploreFails
    PROVE  DiscoveryInv'
<1>1. /\ UNCHANGED <<family, parent, content, toDeclare, methods, marked, lists, owns, visited>>
      /\ phase = "exploring" /\ phase' = "failed" /\ visited < Len(content)
      /\ family = "hook" /\ Explorer!Unbindable(visited + 1)
  BY DEF Explorer!ExploreFails
<1>2. ClassInv /\ ClassInv' /\ ClassesTyped
  BY <1>1, ClassesKept DEF DiscoveryInv, ClassInv
<1>3. /\ visited \in 0 .. Len(content) /\ Len(content) \in Nat /\ DOMAIN content = 1 .. Len(content)
      /\ \A k \in DOMAIN content : content[k].kin \in Kin
  <2>1. visited \in 0 .. Len(content)
    BY DEF DiscoveryInv, Explored
  <2> QED BY <1>2, <2>1, ContentIs
<1>4. PICK i \in DOMAIN content : i = visited + 1
  BY <1>1, <1>3
<1>5. Right(content[i].kin)
  BY <1>2, <1>3, MarksRight
<1>6. Explorer!Mixed(content[i].kin)
  BY <1>1, <1>4, <1>5 DEF Right, Explorer!Unbindable
<1>7. Explorer!Mixed(content[i].kin)'
  BY <1>1, <1>2, <1>6, ClassesStay
<1> QED BY <1>1, <1>2, <1>3, <1>7 DEF DiscoveryInv, Explored

LEMMA OnPhase ==
    ASSUME ApplicationAssumption, DiscoveryInv,
           Explorer!Boot \/ Explorer!Destroy \/ UNCHANGED explorer
    PROVE  DiscoveryInv'
<1>1. UNCHANGED <<family, parent, content, toDeclare, methods, marked, lists, owns, visited>>
  BY DEF Explorer!Boot, Explorer!Destroy, explorer
<1>2. ClassInv' /\ ClassesTyped
  BY <1>1, ClassesKept DEF DiscoveryInv, ClassInv
<1>3. /\ \A c : Explorer!Marks(c)' = Explorer!Marks(c)
      /\ \A k : Explorer!Counts(k)' <=> Explorer!Counts(k)
      /\ \A c : Explorer!Mixed(c)' <=> Explorer!Mixed(c)
  BY <1>1, <1>2, ClassesStay
<1>4. CASE Explorer!Destroy
  BY <1>1, <1>2, <1>4 DEF DiscoveryInv, Explored, Explorer!Destroy
<1>5. CASE Explorer!Boot \/ UNCHANGED explorer
  <2>1. UNCHANGED handlers /\ (UNCHANGED phase \/ (phase = "declaring" /\ phase' = "exploring"))
    BY <1>5 DEF Explorer!Boot, explorer
  <2>2. \A k : Explorer!Of(k)' = Explorer!Of(k)
    BY <2>1 DEF Explorer!Of
  <2>3. ASSUME NEW k, Registered(k) PROVE Registered(k)'
    BY <1>1, <1>3, <2>2, <2>3 DEF Registered
  <2> QED BY <1>1, <1>2, <1>3, <2>1, <2>3 DEF DiscoveryInv, Explored
<1> QED BY <1>4, <1>5

LEMMA DiscoveryStep ==
    ASSUME ApplicationAssumption, DiscoveryInv, [Explorer!Next]_explorer
    PROVE  DiscoveryInv'
BY OnDeclare, OnExplore, OnExploreFails, OnPhase DEF Explorer!Next

LEMMA DiscoveryKeeps ==
    ASSUME ApplicationAssumption, DiscoveryInv
    PROVE  Explorer!HandlersRegistered
<1>1. ClassInv /\ ClassesTyped
  BY DEF DiscoveryInv, ClassInv
<1>2. phase = "failed" => \E k \in DOMAIN content : Explorer!Mixed(content[k].kin)
  BY DEF DiscoveryInv, Explored
<1>3. ASSUME phase = "running", NEW k \in DOMAIN content, Explorer!Counts(k)
      PROVE  /\ \A x \in Explorer!Asked(content[k].kin) : \E y \in Explorer!Of(k) : y[2] = x[2]
             /\ ~Explorer!Mixed(content[k].kin) => Explorer!Of(k) = Explorer!Asked(content[k].kin)
  <2>1. k <= visited /\ content[k].kin \in Kin
    BY <1>1, <1>3, ContentIs DEF DiscoveryInv, Explored
  <2>2. Registered(k)
    BY <1>3 DEF DiscoveryInv, Explored
  <2>3. Explorer!Of(k) = Explorer!Marks(content[k].kin)
    BY <1>3, <2>1, <2>2 DEF Registered
  <2>4. Right(content[k].kin)
    BY <1>1, <2>1, MarksRight
  <2> QED BY <2>3, <2>4 DEF Right
<1> QED BY <1>2, <1>3 DEF Explorer!HandlersRegistered

(***************************************************************************)
(* Hooks, of applications that follow one another                          *)
(***************************************************************************)
AppStates == {"none", "initializing", "ready", "closed", "failed"}
ClosingCalls == [app : 0 .. MaxApps, at : Lifecycle!Stages, arr : Nat, next : Nat]

LifeTyped ==
    /\ arrays \in Seq(Seq(Lifecycle!Instances)) /\ arrays # <<>>
    /\ bootstrapTriggered \in BOOLEAN
    /\ inited \subseteq Lifecycle!Instances /\ registered \subseteq inited
    /\ app \in [Lifecycle!Apps -> AppStates]
    /\ todo \in Seq(Lifecycle!Instances)
    /\ closer \in [Closers -> ClosingCalls]
    /\ done \in [Lifecycle!Instances -> [Lifecycle!Hooks -> Nat]]

InList(x, s) == \E k \in DOMAIN s : s[k] = x
Current == arrays[Len(arrays)]
Full(a, s) == \A x \in Lifecycle!OwnOf(a) : InList(x, s)
AllRan(a, h) == \A x \in Lifecycle!OwnOf(a) : done[x][h] > 0

\* An application is created when those before are closed, or were never handed out.
Succession ==
    \A a, b \in Lifecycle!Apps : b < a /\ app[a] # "none" => app[b] \in {"closed", "failed"}

\* What is initialized of the application under way, or ready, is in the manager's array;
\* nothing is of one to come.
Listed ==
    /\ \A x : InList(x, Current) => x \in registered
    /\ \A a \in Lifecycle!Apps :
         /\ app[a] = "none" => \A x \in Lifecycle!OwnOf(a) : x \notin inited
         /\ app[a] = "initializing" =>
              /\ ~bootstrapTriggered
              /\ \A x : InList(x, todo) => x \in Lifecycle!InstancesOf(a)
              /\ \A x \in Lifecycle!OwnOf(a) : /\ InList(x, todo) \/ InList(x, Current)
                                               /\ x \in registered => InList(x, Current)
         /\ app[a] = "ready" =>
              bootstrapTriggered /\ Full(a, Current) /\ AllRan(a, "onApplicationBootstrap")
         /\ app[a] = "closed" => \A h \in Lifecycle!Hooks : AllRan(a, h)
         /\ \A x \in Lifecycle!OwnOf(a) : InList(x, Current) =>
              \A b \in Lifecycle!Apps : b > a => app[b] = "none"

\* Each instance is initialized once, and bootstrapped at most once, when those of its
\* application are initialized.
Counted ==
    /\ \A x \in Lifecycle!Instances :
         /\ done[x]["onModuleInit"] = IF x \in inited THEN 1 ELSE 0
         /\ done[x]["onApplicationBootstrap"] <= 1
         /\ x \notin registered \/ (InList(x, Current) /\ ~bootstrapTriggered) =>
              done[x]["onApplicationBootstrap"] = 0
    /\ \A a \in Lifecycle!Apps : \A x \in Lifecycle!OwnOf(a) :
         done[x]["onApplicationBootstrap"] > 0 => Lifecycle!OwnOf(a) \subseteq inited

\* The application that a close() under way is at is the last one created.  A phase has run
\* its hook on the part of its array that it has come by; the array has all instances of
\* the application, unless another close() has run the hook on them.
Ended == {"idle", "resolved", "rejected"}
Last(a) == /\ a \in Lifecycle!Apps /\ app[a] \in {"ready", "closed"}
           /\ \A b \in Lifecycle!Apps : b > a => app[b] = "none"
InHooks(r) ==
    /\ r.next >= 1 /\ r.arr \in DOMAIN arrays
    /\ \/ AllRan(r.app, r.at)
       \/ /\ Full(r.app, arrays[r.arr])
          /\ \A k \in DOMAIN arrays[r.arr] : k < r.next => done[arrays[r.arr][k]][r.at] > 0
Sound(r) ==
    /\ r.at \notin Ended => Last(r.app)
    /\ r.at = "resolved" => r.app \in Lifecycle!Apps /\ app[r.app] = "closed"
    /\ r.at \in Lifecycle!ShutdownHooks => InHooks(r)
    /\ r.at \in {"beforeApplicationShutdown", "transports", "onApplicationShutdown"} =>
         AllRan(r.app, "onModuleDestroy")
    /\ r.at \in {"transports", "onApplicationShutdown"} => AllRan(r.app, "beforeApplicationShutdown")

LifeInv == LifeTyped /\ Succession /\ Listed /\ Counted /\ \A c \in Closers : Sound(closer[c])

\* An instance that is not shared belongs to one application.
LEMMA OwnInstances ==
    ASSUME ApplicationAssumption, NEW a \in Lifecycle!Apps
    PROVE  /\ Lifecycle!InstancesOf(a) \subseteq Lifecycle!Instances
           /\ Lifecycle!OwnOf(a) \subseteq Lifecycle!InstancesOf(a)
           /\ Lifecycle!OwnOf(a) \subseteq Lifecycle!Instances
           /\ \A b \in Lifecycle!Apps : \A x \in Lifecycle!OwnOf(b) :
                  x \in Lifecycle!InstancesOf(a) => a = b
<1>1. MaxApps \in Nat /\ a \in 1 .. MaxApps
  BY DEF ApplicationAssumption, Lifecycle!LifecycleAssumption, Lifecycle!Apps
<1>2. Lifecycle!InstancesOf(a) \subseteq Lifecycle!Instances
  BY <1>1 DEF Lifecycle!InstancesOf, Lifecycle!InstanceOf, Lifecycle!Instances
<1>3. ASSUME NEW b \in Lifecycle!Apps, NEW x \in Lifecycle!OwnOf(b), x \in Lifecycle!InstancesOf(a)
      PROVE  a = b
  <2>1. PICK p \in Lifecycle!Providers : x = <<p, IF p \in Values THEN 0 ELSE b>>
    BY DEF Lifecycle!OwnOf, Lifecycle!InstancesOf, Lifecycle!InstanceOf
  <2>2. PICK q \in Lifecycle!Providers : x = <<q, IF q \in Values THEN 0 ELSE a>>
    BY <1>3 DEF Lifecycle!InstancesOf, Lifecycle!InstanceOf
  <2>3. p \notin Values
    BY <2>1 DEF Lifecycle!OwnOf, Lifecycle!InstancesOf, Lifecycle!InstanceOf
  <2> QED BY <2>1, <2>2, <2>3
<1> QED BY <1>2, <1>3 DEF Lifecycle!OwnOf

LEMMA LifePlaces ==
    ASSUME LifeTyped
    PROVE  /\ Len(arrays) \in Nat \ {0} /\ DOMAIN arrays = 1 .. Len(arrays)
           /\ Len(arrays) \in DOMAIN arrays
           /\ \A k \in DOMAIN arrays : arrays[k] \in Seq(Lifecycle!Instances)
           /\ Current \in Seq(Lifecycle!Instances)
           /\ \A x : InList(x, Current) => x \in Lifecycle!Instances
<1>1. Len(arrays) \in Nat \ {0} /\ DOMAIN arrays = 1 .. Len(arrays) /\ Len(arrays) \in DOMAIN arrays
  BY EmptySeq, LenProperties DEF LifeTyped
<1>2. \A k \in DOMAIN arrays : arrays[k] \in Seq(Lifecycle!Instances)
  BY <1>1, ElementOfSeq DEF LifeTyped
<1>3. Current \in Seq(Lifecycle!Instances)
  BY <1>1, <1>2 DEF Current
<1>4. \A x : InList(x, Current) => x \in Lifecycle!Instances
  BY <1>3, LenProperties, ElementOfSeq DEF InList
<1> QED BY <1>1, <1>2, <1>3, <1>4

LEMMA NothingListed == \A x : ~InList(x, <<>>)
BY DEF InList

LEMMA MoreListed ==
    ASSUME NEW S, NEW s \in Seq(S), NEW e \in S
    PROVE  \A x : InList(x, Append(s, e)) <=> InList(x, s) \/ x = e
<1>1. PICK t : t = Append(s, e)
  OBVIOUS
<1>2. PICK n : n = Len(s)
  OBVIOUS
<1>3. /\ n \in Nat /\ DOMAIN s = 1 .. n /\ DOMAIN t = 1 .. n + 1
      /\ t[n + 1] = e /\ \A k \in 1 .. n : t[k] = s[k]
  BY <1>1, <1>2, AppendProperties, LenProperties
<1>4. \A k \in DOMAIN t : k \in DOMAIN s \/ k = n + 1
  BY <1>3
<1>5. DOMAIN s \subseteq DOMAIN t /\ n + 1 \in DOMAIN t
  BY <1>3
<1> QED BY <1>1, <1>3, <1>4, <1>5 DEF InList

LEMMA ToSetListed == \A s, x : x \in Lifecycle!ToSet(s) <=> InList(x, s)
BY DEF Lifecycle!ToSet, InList

\* clear() starts another array.
LEMMA Cleared ==
    ASSUME LifeTyped, arrays' = Append(arrays, <<>>)
    PROVE  /\ arrays' \in Seq(Seq(Lifecycle!Instances)) /\ arrays' # <<>>
           /\ DOMAIN arrays \subseteq DOMAIN arrays'
           /\ \A k \in DOMAIN arrays : arrays'[k] = arrays[k]
           /\ \A x : ~InList(x, Current')
<1>1. PICK e \in Seq(Lifecycle!Instances) : e = <<>>
  BY EmptySeq
<1>2. PICK n : n = Len(arrays)
  OBVIOUS
<1>3. /\ n \in Nat /\ DOMAIN arrays = 1 .. n
  BY <1>2, LifePlaces
<1>4. /\ arrays' \in Seq(Seq(Lifecycle!Instances)) /\ Len(arrays') = n + 1 /\ arrays'[n + 1] = e
      /\ \A k \in 1 .. n : arrays'[k] = arrays[k]
  <2>1. arrays \in Seq(Seq(Lifecycle!Instances)) /\ arrays' = Append(arrays, e)
    BY <1>1 DEF LifeTyped
  <2> QED BY <1>2, <2>1, AppendProperties
<1>5. DOMAIN arrays' = 1 .. n + 1
  BY <1>4, LenProperties
<1>6. arrays' # <<>>
  BY <1>3, <1>5
<1>7. Current' = e
  BY <1>4 DEF Current
<1> QED BY <1>1, <1>3, <1>4, <1>5, <1>6, <1>7, NothingListed

\* What the applications before and after the one under way can be.
LEMMA OneCreating ==
    ASSUME ApplicationAssumption, LifeInv, NEW a \in Lifecycle!Apps, app[a] = "initializing"
    PROVE  /\ \A b \in Lifecycle!Apps : b # a => app[b] \in {"none", "closed", "failed"}
           /\ \A b \in Lifecycle!Apps : b > a => app[b] = "none"
           /\ \A c \in Closers : closer[c].at \in Ended
<1>1. \A b \in Lifecycle!Apps : b \in Int
  BY DEF ApplicationAssumption, Lifecycle!LifecycleAssumption, Lifecycle!Apps
<1>2. \A b \in Lifecycle!Apps : b < a => app[b] \in {"closed", "failed"}
  BY DEF LifeInv, Succession
<1>3. \A b \in Lifecycle!Apps : b > a => app[b] = "none"
  BY <1>1 DEF LifeInv, Succession
<1>4. ASSUME NEW c \in Closers, closer[c].at \notin Ended
      PROVE  FALSE
  <2>1. Last(closer[c].app)
    BY <1>4 DEF LifeInv, Sound
  <2> QED BY <1>1, <1>2, <1>3, <2>1 DEF Last
<1> QED BY <1>1, <1>2, <1>3, <1>4

LEMMA LastReady ==
    ASSUME ApplicationAssumption, LifeInv, NEW a, Last(a)
    PROVE  /\ a \in Lifecycle!Apps
           /\ \A b \in Lifecycle!Apps : b # a => app[b] \in {"none", "closed", "failed"}
           /\ app[a] = "closed" \/ (bootstrapTriggered /\ Full(a, Current) /\ app[a] = "ready")
<1>1. \A b \in Lifecycle!Apps : b \in Int
  BY DEF ApplicationAssumption, Lifecycle!LifecycleAssumption, Lifecycle!Apps
<1>2. a \in Lifecycle!Apps /\ app[a] \in {"ready", "closed"}
  BY DEF Last
<1>3. ASSUME NEW b \in Lifecycle!Apps, b # a
      PROVE  app[b] \in {"none", "closed", "failed"}
  <2>1. CASE b > a
    BY <2>1 DEF Last
  <2>2. CASE b < a
    BY <1>2, <2>2 DEF LifeInv, Succession
  <2> QED BY <1>1, <1>2, <1>3, <2>1, <2>2
<1>4. app[a] = "ready" => bootstrapTriggered /\ Full(a, Current)
  BY <1>2 DEF LifeInv, Listed
<1> QED BY <1>2, <1>3, <1>4

\* As long as no close() is under way, and what is closed stays closed.
LEMMA NoneUnderWay ==
    ASSUME \A c \in Closers : Sound(closer[c]), UNCHANGED closer,
           \A c \in Closers : closer[c].at \in Ended,
           \A a \in Lifecycle!Apps : app[a] = "closed" => app'[a] = "closed"
    PROVE  \A c \in Closers : Sound(closer[c])'
<1>1. SUFFICES ASSUME NEW c \in Closers
               PROVE  Sound(closer[c])'
  OBVIOUS
<1>2. closer[c].at \notin Lifecycle!ShutdownHooks
      /\ closer[c].at \notin {"beforeApplicationShutdown", "transports", "onApplicationShutdown"}
  BY DEF Ended, Lifecycle!ShutdownHooks
<1>3. closer[c].at = "resolved" => closer[c].app \in Lifecycle!Apps /\ app'[closer[c].app] = "closed"
  BY DEF Sound
<1> QED BY <1>2, <1>3 DEF Sound

LEMMA LifeInit == ASSUME ApplicationAssumption, Lifecycle!Init PROVE LifeInv
<1>1. MaxApps \in Nat
  BY DEF ApplicationAssumption, Lifecycle!LifecycleAssumption
<1>2. PICK e \in Seq(Lifecycle!Instances) : e = <<>>
  BY EmptySeq
<1>3. arrays = <<e>> /\ todo = e
  BY <1>2 DEF Lifecycle!Init
<1>4. arrays \in Seq(Seq(Lifecycle!Instances)) /\ arrays # <<>> /\ Current = e
  BY <1>3 DEF Current
<1>5. \A c \in Closers : closer[c] = Lifecycle!Idle
  BY DEF Lifecycle!Init
<1>6. closer \in [Closers -> ClosingCalls]
  BY <1>1 DEF Lifecycle!Init, Lifecycle!Idle, ClosingCalls, Lifecycle!Stages
<1>7. /\ app = [a \in Lifecycle!Apps |-> "none"] /\ inited = {} /\ registered = {}
      /\ bootstrapTriggered = FALSE
      /\ done = [x \in Lifecycle!Instances |-> [h \in Lifecycle!Hooks |-> 0]]
  BY DEF Lifecycle!Init
<1>8. /\ \A x \in Lifecycle!Instances, h \in Lifecycle!Hooks : done[x][h] = 0
      /\ "onModuleInit" \in Lifecycle!Hooks /\ "onApplicationBootstrap" \in Lifecycle!Hooks
  BY <1>7 DEF Lifecycle!Hooks
<1>9. LifeTyped
  BY <1>2, <1>3, <1>4, <1>6, <1>7 DEF LifeTyped, AppStates
<1>10. Succession
  BY <1>7 DEF Succession
<1>11. Listed
  BY <1>2, <1>4, <1>7, NothingListed DEF Listed
<1>12. Counted
  <2>1. \A a \in Lifecycle!Apps : Lifecycle!OwnOf(a) \subseteq Lifecycle!Instances
    BY OwnInstances
  <2> QED BY <1>7, <1>8, <2>1 DEF Counted
<1>13. \A c \in Closers : Sound(closer[c])
  <2>1. Sound(Lifecycle!Idle)
    BY DEF Sound, Lifecycle!Idle, Lifecycle!ShutdownHooks, Ended
  <2> QED BY <1>5, <2>1
<1> QED BY <1>9, <1>10, <1>11, <1>12, <1>13 DEF LifeInv

\* The next application: the manager starts another array for it.
LEMMA OnCreate ==
    ASSUME ApplicationAssumption, OneAtATime, LifeInv, NEW a \in Lifecycle!Apps, Lifecycle!Create(a)
    PROVE  LifeInv'
<1>t. LifeTyped /\ Succession /\ Listed /\ Counted /\ \A c \in Closers : Sound(closer[c])
  BY DEF LifeInv
<1>i. MaxApps \in Nat /\ Order \in Seq(Lifecycle!Providers) /\ \A b \in Lifecycle!Apps : b \in Int
  BY DEF ApplicationAssumption, Lifecycle!LifecycleAssumption, Lifecycle!Apps
<1>1. /\ app[a] = "none" /\ \A b \in Lifecycle!Apps : b < a => app[b] \in {"closed", "failed"}
      /\ \A b \in Lifecycle!Apps : app[b] # "initializing"
      /\ \A c \in Closers : closer[c].at \in Ended
      /\ arrays' = Append(arrays, <<>>) /\ bootstrapTriggered' = FALSE
      /\ app' = [app EXCEPT ![a] = "initializing"]
      /\ todo' = [k \in DOMAIN Order |-> Lifecycle!InstanceOf(Order[k], a)]
      /\ UNCHANGED <<inited, registered, closer, done>>
  BY DEF Lifecycle!Create, Lifecycle!Clear, Lifecycle!Settled, Lifecycle!Active,
         Lifecycle!Creating, Ended
<1>2. /\ app' \in [Lifecycle!Apps -> AppStates] /\ app'[a] = "initializing"
      /\ \A b \in Lifecycle!Apps : b # a => app'[b] = app[b]
  BY <1>1, <1>t DEF LifeTyped, AppStates
<1>3. \A b \in Lifecycle!Apps : b > a => app[b] = "none"
  BY <1>1, <1>i, <1>t DEF Succession
<1>4. /\ arrays' \in Seq(Seq(Lifecycle!Instances)) /\ arrays' # <<>>
      /\ \A x : ~InList(x, Current')
  BY <1>1, <1>t, Cleared
<1>5. /\ todo' \in Seq(Lifecycle!Instances)
      /\ \A x : InList(x, todo') <=> x \in Lifecycle!InstancesOf(a)
  <2>1. Len(Order) \in Nat /\ DOMAIN Order = 1 .. Len(Order)
    BY <1>i, LenProperties
  <2>2. \A k \in 1 .. Len(Order) : Order[k] \in Lifecycle!Providers
    BY <2>1 DEF Lifecycle!Providers
  <2>3. \A p \in Lifecycle!Providers : Lifecycle!InstanceOf(p, a) \in Lifecycle!Instances
    BY OwnInstances DEF Lifecycle!InstancesOf
  <2>4. todo' \in [1 .. Len(Order) -> Lifecycle!Instances]
    BY <1>1, <2>1, <2>2, <2>3
  <2>5. \A x : InList(x, todo') <=> \E k \in DOMAIN Order : x = Lifecycle!InstanceOf(Order[k], a)
    BY <1>1 DEF InList
  <2> QED BY <2>1, <2>4, <2>5, SeqDef DEF Lifecycle!InstancesOf, Lifecycle!Providers
<1>6. LifeTyped'
  BY <1>1, <1>2, <1>4, <1>5, <1>t DEF LifeTyped
<1>7. Succession'
  BY <1>1, <1>2, <1>3, <1>i, <1>t DEF Succession
<1>8. Listed'
  <2>1. \A x \in Lifecycle!OwnOf(a) : x \notin registered /\ InList(x, todo')
    BY <1>1, <1>5, <1>t, OwnInstances DEF Listed, LifeTyped
  <2>2. \A b \in Lifecycle!Apps : app'[b] # "ready"
    BY <1>1, <1>2, <1>3, <1>i
  <2>3. ASSUME NEW b \in Lifecycle!Apps
        PROVE  /\ app'[b] = "none" => \A x \in Lifecycle!OwnOf(b) : x \notin inited
               /\ app'[b] = "initializing" => b = a
               /\ app'[b] = "closed" => \A h \in Lifecycle!Hooks : AllRan(b, h)
    BY <1>1, <1>2, <1>t DEF Listed
  <2>4. \A b \in Lifecycle!Apps : \A h \in Lifecycle!Hooks : AllRan(b, h)' = AllRan(b, h)
    BY <1>1 DEF AllRan
  <2> QED BY <1>1, <1>4, <1>5, <2>1, <2>2, <2>3, <2>4 DEF Listed
<1>9. Counted'
  BY <1>1, <1>4, <1>t DEF Counted
<1>10. \A c \in Closers : Sound(closer[c])'
  BY <1>1, <1>2, <1>t, NoneUnderWay
<1> QED BY <1>6, <1>7, <1>8, <1>9, <1>10 DEF LifeInv

LEMMA TailListed ==
    ASSUME NEW S, NEW s \in Seq(S), s # <<>>
    PROVE  /\ Head(s) \in S /\ InList(Head(s), s) /\ Tail(s) \in Seq(S)
           /\ \A y : InList(y, s) <=> y = Head(s) \/ InList(y, Tail(s))
<1>1. PICK t : t = Tail(s)
  OBVIOUS
<1>2. PICK n : n = Len(s)
  OBVIOUS
<1>3. /\ n \in Nat \ {0} /\ DOMAIN s = 1 .. n /\ Head(s) = s[1] /\ Head(s) \in S
      /\ t \in Seq(S) /\ Len(t) = n - 1 /\ \A k \in 1 .. n - 1 : t[k] = s[k + 1]
  BY <1>1, <1>2, EmptySeq, LenProperties, HeadTailProperties, ElementOfSeq
<1>4. DOMAIN t = 1 .. n - 1
  BY <1>3, LenProperties
<1>5. \A k \in DOMAIN s : k = 1 \/ (k - 1 \in DOMAIN t /\ t[k - 1] = s[k])
  BY <1>3, <1>4
<1>6. 1 \in DOMAIN s /\ \A k \in DOMAIN t : k + 1 \in DOMAIN s /\ s[k + 1] = t[k]
  BY <1>3, <1>4
<1>7. ASSUME NEW y, InList(y, s)
      PROVE  y = Head(s) \/ InList(y, t)
  BY <1>3, <1>5, <1>7 DEF InList
<1>8. ASSUME NEW y, InList(y, t)
      PROVE  InList(y, s)
  <2>1. PICK k \in DOMAIN t : t[k] = y
    BY <1>8 DEF InList
  <2>2. k + 1 \in DOMAIN s /\ s[k + 1] = y
    BY <1>6, <2>1
  <2> QED BY <2>2 DEF InList
<1>9. InList(Head(s), s)
  BY <1>3, <1>6 DEF InList
<1> QED BY <1>1, <1>3, <1>7, <1>8, <1>9

LEMMA Grown ==
    ASSUME LifeTyped, NEW x \in Lifecycle!Instances,
           arrays' = [arrays EXCEPT ![Len(arrays)] = Append(@, x)]
    PROVE  /\ arrays' \in Seq(Seq(Lifecycle!Instances)) /\ arrays' # <<>>
           /\ \A y : InList(y, Current') <=> InList(y, Current) \/ y = x
<1>1. PICK n : n = Len(arrays)
  OBVIOUS
<1>2. PICK s \in Seq(Lifecycle!Instances) : s = Append(Current, x)
  BY LifePlaces, AppendProperties
<1>3. /\ n \in Nat \ {0} /\ DOMAIN arrays = 1 .. n /\ n \in DOMAIN arrays
      /\ \A k \in DOMAIN arrays : arrays[k] \in Seq(Lifecycle!Instances)
  BY <1>1, LifePlaces
<1>4. arrays' = [arrays EXCEPT ![n] = s]
  BY <1>1, <1>2 DEF Current
<1>5. arrays = [k \in 1 .. n |-> arrays[k]]
  BY <1>1, <1>3 DEF LifeTyped
<1>6. arrays' \in [1 .. n -> Seq(Lifecycle!Instances)] /\ arrays'[n] = s
  BY <1>3, <1>4, <1>5
<1>7. arrays' \in Seq(Seq(Lifecycle!Instances)) /\ Len(arrays') = n
  BY <1>3, <1>6, SeqDef, LenProperties
<1>8. Current' = s
  BY <1>6, <1>7 DEF Current
<1>9. arrays' # <<>>
  BY <1>3, <1>7
<1>10. Current \in Seq(Lifecycle!Instances)
  BY LifePlaces
<1>11. \A y : InList(y, Append(Current, x)) <=> InList(y, Current) \/ y = x
  BY <1>10, MoreListed
<1> QED BY <1>2, <1>7, <1>8, <1>9, <1>11

\* The instance initialized, which may be a value that an earlier application had.
LEMMA OnInitialize ==
    ASSUME ApplicationAssumption, LifeInv, NEW a \in Lifecycle!Apps, Lifecycle!Initialize(a)
    PROVE  LifeInv'
<1>t. LifeTyped /\ Succession /\ Listed /\ Counted /\ \A c \in Closers : Sound(closer[c])
  BY DEF LifeInv
<1>1. app[a] = "initializing" /\ todo # <<>>
  BY DEF Lifecycle!Initialize
<1>2. PICK x : x = Head(todo)
  OBVIOUS
<1>3. /\ inited' = inited \cup {x} /\ registered' = registered \cup {x}
      /\ done' = IF x \notin inited THEN [done EXCEPT ![x]["onModuleInit"] = @ + 1] ELSE done
      /\ arrays' = IF x \notin registered
                   THEN [arrays EXCEPT ![Len(arrays)] = Append(@, x)] ELSE arrays
      /\ todo' = Tail(todo)
      /\ UNCHANGED <<bootstrapTriggered, app, closer>>
  BY <1>2 DEF Lifecycle!Initialize, Lifecycle!Flagged, Lifecycle!NeedsInit, Lifecycle!Registering
<1>4. /\ x \in Lifecycle!Instances /\ InList(x, todo) /\ todo' \in Seq(Lifecycle!Instances)
      /\ \A y : InList(y, todo) <=> y = x \/ InList(y, todo')
  BY <1>1, <1>2, <1>3, <1>t, TailListed DEF LifeTyped
<1>5. x \in Lifecycle!InstancesOf(a) /\ ~bootstrapTriggered
  BY <1>1, <1>4, <1>t DEF Listed
<1>6. /\ arrays' \in Seq(Seq(Lifecycle!Instances)) /\ arrays' # <<>>
      /\ \A y : InList(y, Current') <=> InList(y, Current) \/ (y = x /\ x \notin registered)
  <2>1. CASE x \in registered
    BY <1>3, <1>t, <2>1 DEF Current, LifeTyped
  <2>2. CASE x \notin registered
    BY <1>3, <1>4, <1>t, <2>2, Grown
  <2> QED BY <2>1, <2>2
<1>7. /\ done' \in [Lifecycle!Instances -> [Lifecycle!Hooks -> Nat]]
      /\ \A y \in Lifecycle!Instances, h \in Lifecycle!Hooks :
           done'[y][h] = IF y = x /\ h = "onModuleInit" /\ x \notin inited
                         THEN done[y][h] + 1 ELSE done[y][h]
  <2>1. done \in [Lifecycle!Instances -> [Lifecycle!Hooks -> Nat]] /\ "onModuleInit" \in Lifecycle!Hooks
    BY <1>t DEF LifeTyped, Lifecycle!Hooks
  <2>2. CASE x \in inited
    BY <1>3, <2>1, <2>2
  <2>3. CASE x \notin inited
    <3>0. done[x] \in [Lifecycle!Hooks -> Nat] /\ done[x]["onModuleInit"] + 1 \in Nat
      BY <1>4, <2>1
    <3>1. PICK f \in [Lifecycle!Hooks -> Nat] : f = [done[x] EXCEPT !["onModuleInit"] = @ + 1]
      BY <3>0
    <3>2. done' = [done EXCEPT ![x] = f]
      BY <1>3, <2>1, <2>3, <3>1
    <3>3. \A h \in Lifecycle!Hooks : f[h] = IF h = "onModuleInit" THEN done[x][h] + 1 ELSE done[x][h]
      BY <1>4, <2>1, <3>1
    <3> QED BY <1>4, <2>1, <2>3, <3>2, <3>3
  <2> QED BY <2>2, <2>3
<1>8. LifeTyped'
  BY <1>3, <1>4, <1>6, <1>7, <1>t DEF LifeTyped
<1>9. Succession'
  BY <1>3, <1>t DEF Succession
<1>10. \A b \in Lifecycle!Apps : \A h \in Lifecycle!Hooks : AllRan(b, h) => AllRan(b, h)'
  <2>1. SUFFICES ASSUME NEW b \in Lifecycle!Apps, NEW h \in Lifecycle!Hooks, AllRan(b, h),
                        NEW y \in Lifecycle!OwnOf(b)
                 PROVE  done'[y][h] > 0
    BY DEF AllRan
  <2>2. y \in Lifecycle!Instances /\ done[y][h] > 0
    BY <2>1, OwnInstances DEF AllRan
  <2>3. done[y][h] \in Nat
    BY <1>t, <2>2 DEF LifeTyped
  <2> QED BY <1>7, <2>2, <2>3
<1>11. Listed'
  <2>1. ASSUME NEW y, InList(y, Current')
        PROVE  y \in registered'
    BY <1>3, <1>6, <1>t, <2>1 DEF Listed
  <2>2. ASSUME NEW b \in Lifecycle!Apps, app'[b] = "none", NEW y \in Lifecycle!OwnOf(b)
        PROVE  y \notin inited'
    <3>1. y \notin inited /\ a # b
      BY <1>1, <1>3, <1>t, <2>2 DEF Listed
    <3>2. y # x
      BY <1>5, <3>1, OwnInstances
    <3> QED BY <1>3, <3>1, <3>2
  <2>3. ASSUME NEW b \in Lifecycle!Apps, app'[b] \in {"initializing", "ready"}
        PROVE  b = a /\ app'[b] # "ready"
    BY <1>1, <1>3, <2>3, OneCreating
  <2>4. ASSUME NEW y, InList(y, todo')
        PROVE  y \in Lifecycle!InstancesOf(a)
    BY <1>1, <1>4, <1>t, <2>4 DEF Listed
  <2>5. ASSUME NEW y \in Lifecycle!OwnOf(a)
        PROVE  /\ InList(y, todo') \/ InList(y, Current')
               /\ y \in registered' => InList(y, Current')
    <3>1. /\ InList(y, todo) \/ InList(y, Current)
          /\ y \in registered => InList(y, Current)
      BY <1>1, <1>t DEF Listed
    <3> QED BY <1>3, <1>4, <1>6, <3>1
  <2>6. ASSUME NEW b \in Lifecycle!Apps, app'[b] = "closed", NEW h \in Lifecycle!Hooks
        PROVE  AllRan(b, h)'
    BY <1>3, <1>10, <1>t, <2>6 DEF Listed
  <2>7. ASSUME NEW b \in Lifecycle!Apps, NEW y \in Lifecycle!OwnOf(b), InList(y, Current')
        PROVE  \A d \in Lifecycle!Apps : d > b => app'[d] = "none"
    <3>1. CASE InList(y, Current)
      BY <1>3, <1>t, <3>1 DEF Listed
    <3>2. CASE y = x
      <4>1. a = b
        BY <1>5, <3>2, OwnInstances
      <4> QED BY <1>1, <1>3, <4>1, OneCreating
    <3> QED BY <1>6, <2>7, <3>1, <3>2
  <2> QED BY <1>3, <1>5, <2>1, <2>2, <2>3, <2>4, <2>5, <2>6, <2>7 DEF Listed
<1>12. Counted'
  <2>0. "onModuleInit" \in Lifecycle!Hooks /\ "onApplicationBootstrap" \in Lifecycle!Hooks
        /\ \A y \in Lifecycle!Instances : done[y]["onModuleInit"] \in Nat
    BY <1>t DEF Lifecycle!Hooks, LifeTyped
  <2>1. ASSUME NEW y \in Lifecycle!Instances
        PROVE  done'[y]["onApplicationBootstrap"] = done[y]["onApplicationBootstrap"]
    BY <1>7, <2>0
  <2>2. ASSUME NEW y \in Lifecycle!Instances
        PROVE  done'[y]["onModuleInit"] = IF y \in inited' THEN 1 ELSE 0
    <3>1. done[y]["onModuleInit"] = IF y \in inited THEN 1 ELSE 0
      BY <1>t DEF Counted
    <3> QED BY <1>3, <1>7, <2>0, <3>1
  <2>3. ASSUME NEW y \in Lifecycle!Instances,
               y \notin registered' \/ (InList(y, Current') /\ ~bootstrapTriggered')
        PROVE  done[y]["onApplicationBootstrap"] = 0
    <3>1. y \notin registered \/ (InList(y, Current) /\ ~bootstrapTriggered)
      BY <1>3, <1>6, <2>3
    <3> QED BY <1>t, <3>1 DEF Counted
  <2>4. \A b \in Lifecycle!Apps : Lifecycle!OwnOf(b) \subseteq Lifecycle!Instances
    BY OwnInstances
  <2> QED BY <1>3, <1>t, <2>1, <2>2, <2>3, <2>4 DEF Counted
<1>13. \A c \in Closers : Sound(closer[c])'
  BY <1>1, <1>3, <1>t, NoneUnderWay, OneCreating
<1> QED BY <1>8, <1>9, <1>11, <1>12, <1>13 DEF LifeInv

LEMMA RanStays ==
    ASSUME ApplicationAssumption, LifeTyped,
           done' \in [Lifecycle!Instances -> [Lifecycle!Hooks -> Nat]],
           \A x \in Lifecycle!Instances, h \in Lifecycle!Hooks : done'[x][h] >= done[x][h]
    PROVE  \A a \in Lifecycle!Apps, h \in Lifecycle!Hooks : AllRan(a, h) => AllRan(a, h)'
<1>1. SUFFICES ASSUME NEW a \in Lifecycle!Apps, NEW h \in Lifecycle!Hooks, AllRan(a, h),
                      NEW x \in Lifecycle!OwnOf(a)
               PROVE  done'[x][h] > 0
  BY DEF AllRan
<1>2. x \in Lifecycle!Instances /\ done[x][h] > 0
  BY <1>1, OwnInstances DEF AllRan
<1>3. done[x][h] \in Nat /\ done'[x][h] \in Nat /\ done'[x][h] >= done[x][h]
  BY <1>2 DEF LifeTyped
<1> QED BY <1>2, <1>3

\* The creation ends, with an application that is handed out or one that never is.
LEMMA OnOutcome ==
    ASSUME ApplicationAssumption, LifeInv, NEW a \in Lifecycle!Apps, app[a] = "initializing",
           NEW v \in {"ready", "failed"},
           app' = [app EXCEPT ![a] = v], todo' = <<>>, bootstrapTriggered' \in BOOLEAN,
           UNCHANGED <<arrays, inited, registered, closer>>,
           done' \in [Lifecycle!Instances -> [Lifecycle!Hooks -> Nat]],
           \A x \in Lifecycle!Instances, h \in Lifecycle!Hooks : done'[x][h] >= done[x][h],
           v = "ready" => bootstrapTriggered' /\ Full(a, Current) /\ AllRan(a, "onApplicationBootstrap")',
           Counted'
    PROVE  LifeInv'
<1>t. LifeTyped /\ Succession /\ Listed /\ Counted /\ \A c \in Closers : Sound(closer[c])
  BY DEF LifeInv
<1>1. /\ app' \in [Lifecycle!Apps -> AppStates] /\ app'[a] = v
      /\ \A b \in Lifecycle!Apps : b # a => app'[b] = app[b]
  BY <1>t DEF LifeTyped, AppStates
<1>2. todo' \in Seq(Lifecycle!Instances)
  BY EmptySeq
<1>3. LifeTyped'
  BY <1>1, <1>2, <1>t DEF LifeTyped
<1>4. Succession'
  <2>1. ASSUME NEW b \in Lifecycle!Apps, NEW d \in Lifecycle!Apps, d < b, app'[b] # "none"
        PROVE  app'[d] \in {"closed", "failed"}
    <3>1. app[b] # "none"
      BY <1>1, <2>1
    <3>2. app[d] \in {"closed", "failed"}
      BY <1>t, <2>1, <3>1 DEF Succession
    <3> QED BY <1>1, <3>2
  <2> QED BY <2>1 DEF Succession
<1>5. Listed'
  <2>1. \A b \in Lifecycle!Apps : app'[b] # "initializing" /\ (app'[b] = "ready" => b = a /\ v = "ready")
    BY <1>1, OneCreating
  <2>2. \A b \in Lifecycle!Apps : \A h \in Lifecycle!Hooks :
            app'[b] = "closed" => AllRan(b, h)'
    <3>1. \A b \in Lifecycle!Apps : app'[b] = "closed" => app[b] = "closed"
      BY <1>1
    <3> QED BY <1>t, <3>1, RanStays DEF Listed
  <2>3. \A b \in Lifecycle!Apps : app[b] = "none" <=> app'[b] = "none"
    BY <1>1
  <2>4. Current' = Current /\ \A b : Full(b, Current)' = Full(b, Current)
    BY DEF Current, Full
  <2> QED BY <1>t, <2>1, <2>2, <2>3, <2>4 DEF Listed
<1>6. \A c \in Closers : Sound(closer[c])'
  BY <1>1, <1>t, NoneUnderWay, OneCreating
<1> QED BY <1>3, <1>4, <1>5, <1>6 DEF LifeInv

LEMMA OnInitializeFails ==
    ASSUME ApplicationAssumption, LifeInv, NEW a \in Lifecycle!Apps, Lifecycle!InitializeFails(a)
    PROVE  LifeInv'
<1>t. LifeTyped /\ Counted
  BY DEF LifeInv
<1>1. /\ app[a] = "initializing" /\ app' = [app EXCEPT ![a] = "failed"] /\ todo' = <<>>
      /\ UNCHANGED <<arrays, bootstrapTriggered, inited, registered, closer, done>>
  BY DEF Lifecycle!InitializeFails
<1>2. Counted'
  BY <1>1, <1>t DEF Counted, Current
<1>3. /\ bootstrapTriggered' \in BOOLEAN /\ done' \in [Lifecycle!Instances -> [Lifecycle!Hooks -> Nat]]
      /\ \A x \in Lifecycle!Instances, h \in Lifecycle!Hooks : done'[x][h] >= done[x][h]
  BY <1>1, <1>t DEF LifeTyped
<1> QED BY <1>1, <1>2, <1>3, OnOutcome

\* The bootstrap hook runs, once, of the instances in a part of the manager's array.
LEMMA Bootstrapped ==
    ASSUME ApplicationAssumption, LifeInv, NEW a \in Lifecycle!Apps,
           app[a] = "initializing", todo = <<>>, NEW T, \A x \in T : InList(x, Current),
           bootstrapTriggered', UNCHANGED <<arrays, inited, registered>>,
           done' = [x \in Lifecycle!Instances |->
                      IF x \in T THEN [done[x] EXCEPT !["onApplicationBootstrap"] = @ + 1] ELSE done[x]]
    PROVE  /\ done' \in [Lifecycle!Instances -> [Lifecycle!Hooks -> Nat]]
           /\ \A x \in Lifecycle!Instances, h \in Lifecycle!Hooks : done'[x][h] >= done[x][h]
           /\ \A x \in T : done'[x]["onApplicationBootstrap"] > 0
           /\ Counted' /\ Full(a, Current)
<1>t. LifeTyped /\ Succession /\ Listed /\ Counted
  BY DEF LifeInv
<1>0. /\ done \in [Lifecycle!Instances -> [Lifecycle!Hooks -> Nat]]
      /\ "onApplicationBootstrap" \in Lifecycle!Hooks /\ "onModuleInit" \in Lifecycle!Hooks
  BY <1>t DEF LifeTyped, Lifecycle!Hooks
<1>1. ASSUME NEW x \in Lifecycle!Instances
      PROVE  /\ done'[x] \in [Lifecycle!Hooks -> Nat]
             /\ \A h \in Lifecycle!Hooks :
                  done'[x][h] = IF x \in T /\ h = "onApplicationBootstrap"
                                THEN done[x][h] + 1 ELSE done[x][h]
  <2>1. done[x] \in [Lifecycle!Hooks -> Nat] /\ done[x]["onApplicationBootstrap"] + 1 \in Nat
    BY <1>0
  <2>2. done'[x] = IF x \in T
                   THEN [done[x] EXCEPT !["onApplicationBootstrap"] = done[x]["onApplicationBootstrap"] + 1]
                   ELSE done[x]
    OBVIOUS
  <2> QED BY <1>0, <2>1, <2>2
<1>2. done' \in [Lifecycle!Instances -> [Lifecycle!Hooks -> Nat]]
  <2>1. DOMAIN done' = Lifecycle!Instances /\ done' = [x \in Lifecycle!Instances |-> done'[x]]
    OBVIOUS
  <2> QED BY <1>1, <2>1
<1>3. \A x \in Lifecycle!Instances, h \in Lifecycle!Hooks : done'[x][h] >= done[x][h]
  <2>1. \A x \in Lifecycle!Instances, h \in Lifecycle!Hooks : done[x][h] \in Nat
    BY <1>0
  <2> QED BY <1>1, <2>1
<1>4. \A x \in T : x \in Lifecycle!Instances /\ x \in registered /\ done[x]["onApplicationBootstrap"] = 0
  <2>1. ~bootstrapTriggered
    BY <1>t DEF Listed
  <2>2. \A x \in T : x \in Lifecycle!Instances /\ x \in registered
    BY <1>t, LifePlaces DEF Listed
  <2> QED BY <1>t, <2>1, <2>2 DEF Counted
<1>5. \A x \in T : done'[x]["onApplicationBootstrap"] = 1
  BY <1>0, <1>1, <1>4
<1>6. Full(a, Current)
  BY <1>t, NothingListed DEF Listed, Full
<1>7. Counted'
  <2>1. ASSUME NEW x \in Lifecycle!Instances
        PROVE  /\ done'[x]["onModuleInit"] = IF x \in inited THEN 1 ELSE 0
               /\ done'[x]["onApplicationBootstrap"] <= 1
               /\ x \notin registered => done'[x]["onApplicationBootstrap"] = 0
    <3>1. /\ done[x]["onModuleInit"] = IF x \in inited THEN 1 ELSE 0
          /\ done[x]["onApplicationBootstrap"] <= 1
          /\ x \notin registered => done[x]["onApplicationBootstrap"] = 0
      BY <1>t DEF Counted
    <3>2. CASE x \in T
      BY <1>0, <1>1, <1>4, <1>5, <3>1, <3>2
    <3>3. CASE x \notin T
      BY <1>0, <1>1, <3>1, <3>3
    <3> QED BY <3>2, <3>3
  <2>2. ASSUME NEW b \in Lifecycle!Apps, NEW x \in Lifecycle!OwnOf(b),
               done'[x]["onApplicationBootstrap"] > 0
        PROVE  Lifecycle!OwnOf(b) \subseteq inited
    <3>0. x \in Lifecycle!Instances
      BY OwnInstances
    <3>1. CASE x \notin T
      <4>1. done[x]["onApplicationBootstrap"] > 0
        BY <1>0, <1>1, <2>2, <3>0, <3>1
      <4> QED BY <1>t, <4>1 DEF Counted
    <3>2. CASE x \in T
      <4>1. x \in inited /\ InList(x, Current)
        BY <1>4, <1>t, <3>2 DEF LifeTyped
      <4>2. app[b] # "none" /\ ~(a > b)
        BY <1>t, <4>1 DEF Listed
      <4>3. a = b
        <5>1. b \in Int /\ a \in Int
          BY DEF ApplicationAssumption, Lifecycle!LifecycleAssumption, Lifecycle!Apps
        <5>2. ~(b > a)
          BY <4>2, OneCreating
        <5> QED BY <4>2, <5>1, <5>2
      <4>4. \A y \in Lifecycle!OwnOf(a) : y \in registered
        BY <1>6, <1>t DEF Full, Listed
      <4> QED BY <1>t, <4>3, <4>4 DEF LifeTyped
    <3> QED BY <3>1, <3>2
  <2>3. \A b \in Lifecycle!Apps : Lifecycle!OwnOf(b) \subseteq Lifecycle!Instances
    BY OwnInstances
  <2> QED BY <2>1, <2>2, <2>3 DEF Counted
<1>8. \A x \in T : done'[x]["onApplicationBootstrap"] > 0
  <2>1. 1 > 0
    OBVIOUS
  <2> QED BY <1>5, <2>1, Zenon
<1> QED BY <1>2, <1>3, <1>6, <1>7, <1>8

LEMMA OnCreated ==
    ASSUME ApplicationAssumption, LifeInv, NEW a \in Lifecycle!Apps, Lifecycle!Created(a)
    PROVE  LifeInv'
<1>1. PICK T : T = {x \in Lifecycle!Instances : InList(x, Current)}
  OBVIOUS
<1>t. LifeTyped /\ Listed
  BY DEF LifeInv
<1>2. app[a] = "initializing" /\ todo = <<>> /\ ~bootstrapTriggered
  BY <1>t DEF Lifecycle!Created, Listed
<1>3. Lifecycle!ToBootstrap = T
  BY <1>1, <1>2, <1>t, LifePlaces, ToSetListed DEF Lifecycle!ToBootstrap, Lifecycle!providers, Current
<1>4. /\ app' = [app EXCEPT ![a] = "ready"] /\ bootstrapTriggered' = TRUE /\ todo' = <<>>
      /\ UNCHANGED <<arrays, inited, registered, closer>>
      /\ done' = [x \in Lifecycle!Instances |->
                   IF x \in T THEN [done[x] EXCEPT !["onApplicationBootstrap"] = @ + 1] ELSE done[x]]
  BY <1>2, <1>3 DEF Lifecycle!Created, Lifecycle!Bootstrap
<1>5. /\ done' \in [Lifecycle!Instances -> [Lifecycle!Hooks -> Nat]]
      /\ \A x \in Lifecycle!Instances, h \in Lifecycle!Hooks : done'[x][h] >= done[x][h]
      /\ \A x \in T : done'[x]["onApplicationBootstrap"] > 0
      /\ Counted' /\ Full(a, Current)
  <2>1. \A x \in T : InList(x, Current)
    BY <1>1
  <2> QED BY <1>2, <1>4, <2>1, Bootstrapped
<1>6. AllRan(a, "onApplicationBootstrap")'
  BY <1>1, <1>5, OwnInstances DEF AllRan, Full
<1> QED BY <1>2, <1>4, <1>5, <1>6, OnOutcome

LEMMA OnBootstrapFails ==
    ASSUME ApplicationAssumption, LifeInv, NEW a \in Lifecycle!Apps, Lifecycle!BootstrapFails(a)
    PROVE  LifeInv'
<1>t. LifeTyped /\ Listed
  BY DEF LifeInv
<1>1. /\ app[a] = "initializing" /\ todo = <<>>
      /\ app' = [app EXCEPT ![a] = "failed"] /\ bootstrapTriggered' = TRUE /\ todo' = <<>>
      /\ UNCHANGED <<arrays, inited, registered, closer>>
  BY DEF Lifecycle!BootstrapFails
<1>2. PICK s : s = Current
  OBVIOUS
<1>3. s \in Seq(Lifecycle!Instances) /\ Len(s) \in Nat /\ DOMAIN s = 1 .. Len(s)
  BY <1>2, <1>t, LifePlaces, LenProperties
<1>4. PICK n \in 0 .. Len(s) - 1 :
          done' = [x \in Lifecycle!Instances |->
                     IF x \in Lifecycle!ToSet(SubSeq(s, 1, n))
                     THEN [done[x] EXCEPT !["onApplicationBootstrap"] = @ + 1] ELSE done[x]]
  BY <1>2 DEF Lifecycle!BootstrapFails, Lifecycle!providers, Current
<1>5. PICK u : u = SubSeq(s, 1, n)
  OBVIOUS
<1>6. \A x : InList(x, u) => InList(x, s)
  <2>1. n \in Nat /\ \A k \in 1 .. n : k \in DOMAIN s /\ s[k] \in Lifecycle!Instances
    BY <1>3, <1>4, ElementOfSeq
  <2>2. Len(u) = n /\ u \in Seq(Lifecycle!Instances) /\ \A k \in 1 .. n : u[k] = s[k]
    <3>1. \A k \in 1 .. n : s[k] \in Lifecycle!Instances /\ 1 + k - 1 = k
      BY <2>1
    <3> QED BY <1>3, <1>5, <2>1, <3>1, SubSeqProperties
  <2>3. DOMAIN u = 1 .. n
    BY <2>2, LenProperties
  <2> QED BY <2>1, <2>2, <2>3 DEF InList
<1>7. PICK T : T = Lifecycle!ToSet(u)
  OBVIOUS
<1>8. \A x \in T : InList(x, Current)
  BY <1>2, <1>6, <1>7, ToSetListed
<1>9. done' = [x \in Lifecycle!Instances |->
                 IF x \in T THEN [done[x] EXCEPT !["onApplicationBootstrap"] = @ + 1] ELSE done[x]]
  BY <1>4, <1>5, <1>7
<1>10. /\ done' \in [Lifecycle!Instances -> [Lifecycle!Hooks -> Nat]]
       /\ \A x \in Lifecycle!Instances, h \in Lifecycle!Hooks : done'[x][h] >= done[x][h]
       /\ Counted'
  BY <1>1, <1>8, <1>9, Bootstrapped
<1> QED BY <1>1, <1>10, OnOutcome

\* A close() goes on, and nothing else changes.
LEMMA OnCloser ==
    ASSUME ApplicationAssumption, LifeInv, NEW c \in Closers, NEW r \in ClosingCalls, Sound(r),
           closer' = [closer EXCEPT ![c] = r],
           UNCHANGED <<arrays, bootstrapTriggered, inited, registered, app, todo, done>>
    PROVE  LifeInv'
<1>t. LifeTyped /\ Succession /\ Listed /\ Counted /\ \A d \in Closers : Sound(closer[d])
  BY DEF LifeInv
<1>1. /\ closer' \in [Closers -> ClosingCalls]
      /\ \A d \in Closers : closer'[d] = IF d = c THEN r ELSE closer[d]
  BY <1>t DEF LifeTyped
<1>2. LifeTyped'
  BY <1>1, <1>t DEF LifeTyped
<1>3. Succession' /\ Counted'
  BY <1>t DEF Succession, Counted, Current
<1>4. Listed'
  BY <1>t DEF Listed, Current, Full, AllRan
<1>5. ASSUME NEW q, Sound(q)
      PROVE  Sound(q)'
  BY <1>5 DEF Sound, Last, InHooks, Full, AllRan
<1>6. ASSUME NEW d \in Closers
      PROVE  Sound(closer[d])'
  <2>1. PICK q : q = closer'[d]
    OBVIOUS
  <2>2. Sound(q)
    BY <1>1, <1>t, <2>1
  <2>3. Sound(q)'
    BY <1>5, <2>2
  <2> QED BY <2>1, <2>3
<1> QED BY <1>2, <1>3, <1>4, <1>6 DEF LifeInv

\* A phase begins: the array has the instances of the application, or they were through it.
LEMMA PhaseBegins ==
    ASSUME ApplicationAssumption, LifeInv, NEW r \in ClosingCalls, Last(r.app),
           r.at \in Lifecycle!ShutdownHooks, r.arr = Len(arrays), r.next = 1
    PROVE  InHooks(r)
<1>1. r.arr \in DOMAIN arrays /\ arrays[r.arr] = Current /\ DOMAIN Current = 1 .. Len(Current)
  BY LifePlaces, LenProperties DEF LifeInv, Current
<1>2. app[r.app] = "closed" => AllRan(r.app, r.at)
  <2>1. r.at \in Lifecycle!Hooks
    BY DEF Lifecycle!ShutdownHooks, Lifecycle!Hooks
  <2> QED BY <2>1, LastReady DEF LifeInv, Listed
<1>3. \A k \in DOMAIN arrays[r.arr] : ~(k < r.next)
  BY <1>1
<1> QED BY <1>1, <1>2, <1>3, LastReady DEF InHooks

\* And is over when its hook has run on all of them.
LEMMA PhaseEnds ==
    ASSUME ApplicationAssumption, LifeInv, NEW c \in Closers, Lifecycle!PhaseOver(c)
    PROVE  AllRan(closer[c].app, closer[c].at) /\ Last(closer[c].app)
<1>1. PICK r \in ClosingCalls : r = closer[c]
  BY DEF LifeInv, LifeTyped
<1>2. /\ r.at \in Lifecycle!ShutdownHooks /\ r.next > Len(arrays[r.arr]) /\ Sound(r) /\ r.next \in Nat
  BY <1>1 DEF Lifecycle!PhaseOver, Lifecycle!Iterated, LifeInv, ClosingCalls
<1>3. InHooks(r) /\ Last(r.app)
  BY <1>2 DEF Sound, Ended, Lifecycle!ShutdownHooks
<1>4. ASSUME Full(r.app, arrays[r.arr]),
             \A k \in DOMAIN arrays[r.arr] : k < r.next => done[arrays[r.arr][k]][r.at] > 0
      PROVE  AllRan(r.app, r.at)
  <2>1. PICK s : s = arrays[r.arr]
    OBVIOUS
  <2>2. Len(s) \in Nat /\ DOMAIN s = 1 .. Len(s)
    BY <1>3, <2>1, LifePlaces, LenProperties DEF InHooks, LifeInv
  <2>3. \A k \in DOMAIN s : done[s[k]][r.at] > 0
    BY <1>2, <1>4, <2>1, <2>2
  <2> QED BY <1>4, <2>1, <2>3 DEF Full, InList, AllRan
<1>5. AllRan(r.app, r.at)
  BY <1>3, <1>4 DEF InHooks
<1> QED BY <1>1, <1>3, <1>5

LEMMA OnClose ==
    ASSUME ApplicationAssumption, OneAtATime, LifeInv, NEW c \in Closers, NEW a \in Lifecycle!Apps,
           Lifecycle!Close(c, a)
    PROVE  LifeInv'
<1>0. MaxApps \in Nat /\ a \in 0 .. MaxApps
  BY DEF ApplicationAssumption, Lifecycle!LifecycleAssumption, Lifecycle!Apps
<1>1. PICK r : r = [app |-> a, at |-> "onModuleDestroy", arr |-> Len(arrays), next |-> 1]
  OBVIOUS
<1>2. Len(arrays) \in Nat
  BY LifePlaces DEF LifeInv
<1>3. r \in ClosingCalls /\ r.app = a /\ r.at = "onModuleDestroy" /\ r.arr = Len(arrays) /\ r.next = 1
  BY <1>0, <1>1, <1>2 DEF ClosingCalls, Lifecycle!Stages, Lifecycle!ShutdownHooks
<1>4. Last(r.app)
  BY <1>3 DEF Lifecycle!Close, Last
<1>5. InHooks(r)
  BY <1>3, <1>4, PhaseBegins DEF Lifecycle!ShutdownHooks
<1>6. Sound(r)
  BY <1>3, <1>4, <1>5 DEF Sound
<1>7. /\ closer' = [closer EXCEPT ![c] = r]
      /\ UNCHANGED <<arrays, bootstrapTriggered, inited, registered, app, todo, done>>
  BY <1>1 DEF Lifecycle!Close
<1> QED BY <1>3, <1>6, <1>7, OnCloser

\* The next stage of a close().
LEMMA PhaseRecord ==
    ASSUME LifeInv, NEW c \in Closers, NEW at \in Lifecycle!Stages
    PROVE  \E r \in ClosingCalls :
             /\ r.app = closer[c].app /\ r.at = at /\ r.arr = Len(arrays) /\ r.next = 1
             /\ Lifecycle!Phase(c, at) = [closer EXCEPT ![c] = r]
<1>1. closer[c] \in ClosingCalls /\ Len(arrays) \in Nat /\ closer \in [Closers -> ClosingCalls]
  BY LifePlaces DEF LifeInv, LifeTyped
<1>2. PICK r : r = [app |-> closer[c].app, at |-> at, arr |-> Len(arrays), next |-> 1]
  OBVIOUS
<1>3. r \in ClosingCalls /\ r.app = closer[c].app /\ r.at = at /\ r.arr = Len(arrays) /\ r.next = 1
  BY <1>1, <1>2 DEF ClosingCalls
<1>4. [closer[c] EXCEPT !.at = at, !.arr = Len(arrays), !.next = 1] = r
  <2>1. PICK q \in ClosingCalls : q = closer[c]
    BY <1>1
  <2>2. PICK n \in Nat : n = Len(arrays)
    BY <1>1
  <2>3. [q EXCEPT !.at = at, !.arr = n, !.next = 1]
          = [app |-> q.app, at |-> at, arr |-> n, next |-> 1]
    <3>1. PICK e : e = [q EXCEPT !.at = at, !.arr = n, !.next = 1]
      OBVIOUS
    <3>2. e \in ClosingCalls /\ e.app = q.app /\ e.at = at /\ e.arr = n /\ e.next = 1
      BY <3>1 DEF ClosingCalls
    <3>3. e = [app |-> e.app, at |-> e.at, arr |-> e.arr, next |-> e.next]
      BY <3>2 DEF ClosingCalls
    <3> QED BY <3>1, <3>2, <3>3
  <2> QED BY <1>2, <2>1, <2>2, <2>3
<1>5. Lifecycle!Phase(c, at) = [closer EXCEPT ![c] = r]
  BY <1>1, <1>4 DEF Lifecycle!Phase
<1> QED BY <1>3, <1>5

LEMMA OnDestroyed ==
    ASSUME ApplicationAssumption, LifeInv, NEW c \in Closers, Lifecycle!Destroyed(c)
    PROVE  LifeInv'
<1>1. PICK r \in ClosingCalls :
          /\ r.app = closer[c].app /\ r.at = "beforeApplicationShutdown"
          /\ r.arr = Len(arrays) /\ r.next = 1 /\ closer' = [closer EXCEPT ![c] = r]
  <2>1. "beforeApplicationShutdown" \in Lifecycle!Stages
    BY DEF Lifecycle!Stages, Lifecycle!ShutdownHooks
  <2> QED BY <2>1, PhaseRecord DEF Lifecycle!Destroyed
<1>2. AllRan(r.app, "onModuleDestroy") /\ Last(r.app)
  BY <1>1, PhaseEnds DEF Lifecycle!Destroyed
<1>3. InHooks(r)
  BY <1>1, <1>2, PhaseBegins DEF Lifecycle!ShutdownHooks
<1>4. Sound(r)
  BY <1>1, <1>2, <1>3 DEF Sound
<1> QED BY <1>1, <1>4, OnCloser DEF Lifecycle!Destroyed

LEMMA OnPrepared ==
    ASSUME ApplicationAssumption, LifeInv, NEW c \in Closers, Lifecycle!Prepared(c)
    PROVE  LifeInv'
<1>1. PICK r \in ClosingCalls :
          /\ r.app = closer[c].app /\ r.at = "transports"
          /\ closer' = [closer EXCEPT ![c] = r]
  <2>1. "transports" \in Lifecycle!Stages
    BY DEF Lifecycle!Stages
  <2> QED BY <2>1, PhaseRecord DEF Lifecycle!Prepared
<1>2. AllRan(r.app, "beforeApplicationShutdown") /\ Last(r.app)
  BY <1>1, PhaseEnds DEF Lifecycle!Prepared
<1>3. AllRan(r.app, "onModuleDestroy")
  BY <1>1 DEF Lifecycle!Prepared, LifeInv, Sound
<1>4. Sound(r)
  BY <1>1, <1>2, <1>3 DEF Sound, Lifecycle!ShutdownHooks
<1> QED BY <1>1, <1>4, OnCloser DEF Lifecycle!Prepared

\* The transports, one after the other, until one cannot be closed.
LEMMA OnTransport ==
    ASSUME ApplicationAssumption, LifeInv, NEW c \in Closers,
           Lifecycle!CloseTransport(c) \/ Lifecycle!TransportFails(c)
    PROVE  LifeInv'
<1>1. closer[c] \in ClosingCalls /\ closer[c].at = "transports" /\ Sound(closer[c])
      /\ closer \in [Closers -> ClosingCalls]
  BY DEF LifeInv, LifeTyped, Lifecycle!CloseTransport, Lifecycle!TransportFails
<1>2. CASE Lifecycle!CloseTransport(c)
  <2>1. PICK r : r = [closer[c] EXCEPT !.next = @ + 1]
    OBVIOUS
  <2>2. r \in ClosingCalls /\ r.app = closer[c].app /\ r.at = "transports"
    BY <1>1, <2>1 DEF ClosingCalls
  <2>3. Sound(r)
    BY <1>1, <2>2 DEF Sound, Lifecycle!ShutdownHooks
  <2>4. closer' = [closer EXCEPT ![c] = r]
    BY <1>1, <1>2, <2>1 DEF Lifecycle!CloseTransport
  <2> QED BY <1>2, <2>2, <2>3, <2>4, OnCloser DEF Lifecycle!CloseTransport
<1>3. CASE Lifecycle!TransportFails(c)
  <2>1. PICK r : r = [closer[c] EXCEPT !.at = "rejected"]
    OBVIOUS
  <2>2. r \in ClosingCalls /\ r.at = "rejected"
    BY <1>1, <2>1 DEF ClosingCalls, Lifecycle!Stages
  <2>3. Sound(r)
    BY <2>2 DEF Sound, Lifecycle!ShutdownHooks, Ended
  <2>4. closer' = [closer EXCEPT ![c] = r]
    BY <1>1, <1>3, <2>1 DEF Lifecycle!TransportFails
  <2> QED BY <1>3, <2>2, <2>3, <2>4, OnCloser DEF Lifecycle!TransportFails
<1> QED BY <1>2, <1>3

LEMMA OnStopHttp ==
    ASSUME ApplicationAssumption, LifeInv, NEW c \in Closers, Lifecycle!StopHttp(c)
    PROVE  LifeInv'
<1>1. PICK r \in ClosingCalls :
          /\ r.app = closer[c].app /\ r.at = "onApplicationShutdown"
          /\ r.arr = Len(arrays) /\ r.next = 1 /\ closer' = [closer EXCEPT ![c] = r]
  <2>1. "onApplicationShutdown" \in Lifecycle!Stages
    BY DEF Lifecycle!Stages, Lifecycle!ShutdownHooks
  <2> QED BY <2>1, PhaseRecord DEF Lifecycle!StopHttp
<1>2. /\ AllRan(r.app, "onModuleDestroy") /\ AllRan(r.app, "beforeApplicationShutdown")
      /\ Last(r.app)
  BY <1>1 DEF Lifecycle!StopHttp, LifeInv, Sound, Ended
<1>3. InHooks(r)
  BY <1>1, <1>2, PhaseBegins DEF Lifecycle!ShutdownHooks
<1>4. Sound(r)
  BY <1>1, <1>2, <1>3 DEF Sound
<1> QED BY <1>1, <1>4, OnCloser DEF Lifecycle!StopHttp

\* What is said of a close() stays so when hooks run, arrays are added and an
\* application is closed.
LEMMA SoundStays ==
    ASSUME ApplicationAssumption, LifeTyped, NEW q \in ClosingCalls, Sound(q),
           DOMAIN arrays \subseteq DOMAIN arrays', \A k \in DOMAIN arrays : arrays'[k] = arrays[k],
           done' \in [Lifecycle!Instances -> [Lifecycle!Hooks -> Nat]],
           \A x \in Lifecycle!Instances, h \in Lifecycle!Hooks : done'[x][h] >= done[x][h],
           \A a \in Lifecycle!Apps :
               app'[a] = app[a] \/ (app[a] \in {"ready", "closed"} /\ app'[a] = "closed")
    PROVE  Sound(q)'
<1>0. \A h \in Lifecycle!ShutdownHooks : h \in Lifecycle!Hooks
  BY DEF Lifecycle!ShutdownHooks, Lifecycle!Hooks
<1>1. Last(q.app) => Last(q.app)'
  BY DEF Last
<1>2. ASSUME NEW h \in Lifecycle!ShutdownHooks, Last(q.app), AllRan(q.app, h)
      PROVE  \A x \in Lifecycle!OwnOf(q.app) : done'[x][h] > 0
  <2>1. PICK a \in Lifecycle!Apps : a = q.app
    BY <1>2 DEF Last
  <2>2. AllRan(a, h)'
    BY <1>0, <1>2, <2>1, RanStays
  <2> QED BY <2>1, <2>2 DEF AllRan
<1>3. q.at \notin Ended => Last(q.app)
  BY DEF Sound
<1>4. ASSUME q.at \in Lifecycle!ShutdownHooks
      PROVE  InHooks(q)'
  <2>1. InHooks(q) /\ Last(q.app)
    BY <1>3, <1>4 DEF Sound, Ended, Lifecycle!ShutdownHooks
  <2>2. q.arr \in DOMAIN arrays /\ q.arr \in DOMAIN arrays' /\ arrays'[q.arr] = arrays[q.arr]
    BY <2>1 DEF InHooks
  <2>3. CASE AllRan(q.app, q.at)
    BY <1>2, <1>4, <2>1, <2>2, <2>3 DEF InHooks, AllRan
  <2>4. ASSUME Full(q.app, arrays[q.arr]),
               \A k \in DOMAIN arrays[q.arr] : k < q.next => done[arrays[q.arr][k]][q.at] > 0
        PROVE  InHooks(q)'
    <3>1. ASSUME NEW k \in DOMAIN arrays[q.arr], k < q.next
          PROVE  done'[arrays[q.arr][k]][q.at] > 0
      <4>1. arrays[q.arr] \in Seq(Lifecycle!Instances)
        BY <2>2, LifePlaces
      <4>2. arrays[q.arr][k] \in Lifecycle!Instances
        BY <4>1, LenProperties, ElementOfSeq
      <4>3. PICK x \in Lifecycle!Instances : x = arrays[q.arr][k]
        BY <4>2
      <4>4. PICK h \in Lifecycle!Hooks : h = q.at
        BY <1>0, <1>4
      <4>5. done[x][h] > 0 /\ done[x][h] \in Nat /\ done'[x][h] \in Nat /\ done'[x][h] >= done[x][h]
        BY <2>4, <3>1, <4>3, <4>4 DEF LifeTyped
      <4>6. done'[x][h] > 0
        BY <4>5
      <4> QED BY <4>3, <4>4, <4>6
    <3> QED BY <2>1, <2>2, <2>4, <3>1 DEF InHooks, Full
  <2> QED BY <2>1, <2>3, <2>4 DEF InHooks
<1>5. q.at = "resolved" => q.app \in Lifecycle!Apps /\ app'[q.app] = "closed"
  BY DEF Sound
<1>6. ASSUME q.at \in {"beforeApplicationShutdown", "transports", "onApplicationShutdown"}
      PROVE  /\ AllRan(q.app, "onModuleDestroy")'
             /\ (q.at # "beforeApplicationShutdown" => AllRan(q.app, "beforeApplicationShutdown")')
  <2>1. Last(q.app) /\ AllRan(q.app, "onModuleDestroy")
        /\ (q.at # "beforeApplicationShutdown" => AllRan(q.app, "beforeApplicationShutdown"))
    BY <1>3, <1>6 DEF Sound, Ended
  <2>2. /\ "onModuleDestroy" \in Lifecycle!ShutdownHooks
        /\ "beforeApplicationShutdown" \in Lifecycle!ShutdownHooks
    BY DEF Lifecycle!ShutdownHooks
  <2>3. AllRan(q.app, "onModuleDestroy")'
    BY <1>2, <2>1, <2>2 DEF AllRan
  <2>4. AllRan(q.app, "beforeApplicationShutdown") => AllRan(q.app, "beforeApplicationShutdown")'
    BY <1>2, <2>1, <2>2 DEF AllRan
  <2> QED BY <2>1, <2>3, <2>4
<1> QED BY <1>1, <1>3, <1>4, <1>5, <1>6 DEF Sound

\* A shutdown hook of one instance settles.
LEMMA OnHookSettles ==
    ASSUME ApplicationAssumption, LifeInv, NEW c \in Closers, Lifecycle!HookSettles(c)
    PROVE  LifeInv'
<1>t. LifeTyped /\ Succession /\ Listed /\ Counted /\ \A d \in Closers : Sound(closer[d])
  BY DEF LifeInv
<1>1. PICK q \in ClosingCalls : q = closer[c]
  BY <1>t DEF LifeTyped
<1>2. /\ q.at \in Lifecycle!ShutdownHooks /\ q.next <= Len(arrays[q.arr])
      /\ done' = [done EXCEPT ![arrays[q.arr][q.next]][q.at] = @ + 1]
      /\ closer' = [closer EXCEPT ![c].next = q.next + 1]
      /\ UNCHANGED <<arrays, bootstrapTriggered, inited, registered, app, todo>>
  BY <1>1 DEF Lifecycle!HookSettles, Lifecycle!Iterated, Lifecycle!AfterHook
<1>3. /\ Sound(q) /\ InHooks(q) /\ Last(q.app) /\ q.at \in Lifecycle!Hooks /\ q.next \in Nat
      /\ q.at # "onModuleInit" /\ q.at # "onApplicationBootstrap"
  BY <1>1, <1>2, <1>t DEF Sound, Ended, Lifecycle!ShutdownHooks, Lifecycle!Hooks, ClosingCalls
<1>4. PICK s \in Seq(Lifecycle!Instances) : s = arrays[q.arr]
  BY <1>3, <1>t, LifePlaces DEF InHooks
<1>5. q.next \in DOMAIN s /\ s[q.next] \in Lifecycle!Instances
  BY <1>2, <1>3, <1>4, LenProperties, ElementOfSeq DEF InHooks
<1>6. PICK x \in Lifecycle!Instances : x = s[q.next]
  BY <1>5
<1>7. PICK h \in Lifecycle!Hooks : h = q.at
  BY <1>3
<1>8. /\ done' \in [Lifecycle!Instances -> [Lifecycle!Hooks -> Nat]]
      /\ \A y \in Lifecycle!Instances, g \in Lifecycle!Hooks :
           done'[y][g] = IF y = x /\ g = h THEN done[y][g] + 1 ELSE done[y][g]
  <2>0. done \in [Lifecycle!Instances -> [Lifecycle!Hooks -> Nat]]
    BY <1>t DEF LifeTyped
  <2>1. done[x] \in [Lifecycle!Hooks -> Nat] /\ done[x][h] + 1 \in Nat
    BY <2>0
  <2>2. PICK f \in [Lifecycle!Hooks -> Nat] : f = [done[x] EXCEPT ![h] = @ + 1]
    BY <2>1
  <2>3. done' = [done EXCEPT ![x] = f]
    BY <1>2, <1>4, <1>6, <1>7, <2>0, <2>2
  <2>4. \A g \in Lifecycle!Hooks : f[g] = IF g = h THEN done[x][g] + 1 ELSE done[x][g]
    BY <2>1, <2>2
  <2> QED BY <2>0, <2>3, <2>4
<1>9. \A y \in Lifecycle!Instances, g \in Lifecycle!Hooks :
          /\ done'[y][g] >= done[y][g] /\ done[y][g] \in Nat
          /\ g # h => done'[y][g] = done[y][g]
  <2>1. \A y \in Lifecycle!Instances, g \in Lifecycle!Hooks : done[y][g] \in Nat
    BY <1>t DEF LifeTyped
  <2> QED BY <1>8, <2>1
<1>10. PICK r : r = [q EXCEPT !.next = q.next + 1]
  OBVIOUS
<1>11. /\ r \in ClosingCalls /\ r.app = q.app /\ r.at = q.at /\ r.arr = q.arr /\ r.next = q.next + 1
  BY <1>3, <1>10 DEF ClosingCalls
<1>12. closer' = [closer EXCEPT ![c] = r]
  BY <1>1, <1>2, <1>10, <1>t DEF LifeTyped
<1>13. /\ closer' \in [Closers -> ClosingCalls]
      /\ \A d \in Closers : closer'[d] = IF d = c THEN r ELSE closer[d]
  BY <1>11, <1>12, <1>t DEF LifeTyped
<1>14. LifeTyped'
  BY <1>2, <1>8, <1>13, <1>t DEF LifeTyped
<1>15. Succession'
  BY <1>2, <1>t DEF Succession
<1>16. Listed'
  <2>1. ASSUME NEW a \in Lifecycle!Apps, NEW g \in Lifecycle!Hooks, AllRan(a, g)
        PROVE  AllRan(a, g)'
    BY <1>8, <1>9, <1>t, <2>1, RanStays
  <2>2. "onApplicationBootstrap" \in Lifecycle!Hooks
    BY DEF Lifecycle!Hooks
  <2> QED BY <1>2, <1>t, <2>1, <2>2 DEF Listed, Current, Full
<1>17. Counted'
  <2>1. \A y \in Lifecycle!Instances : /\ done'[y]["onModuleInit"] = done[y]["onModuleInit"]
                                       /\ done'[y]["onApplicationBootstrap"] = done[y]["onApplicationBootstrap"]
    BY <1>3, <1>7, <1>9 DEF Lifecycle!Hooks
  <2>2. \A a \in Lifecycle!Apps : Lifecycle!OwnOf(a) \subseteq Lifecycle!Instances
    BY OwnInstances
  <2> QED BY <1>2, <1>t, <2>1, <2>2 DEF Counted, Current
<1>18. ASSUME NEW p \in ClosingCalls, Sound(p)
       PROVE  Sound(p)'
  BY <1>2, <1>8, <1>9, <1>t, <1>18, SoundStays
<1>19. Sound(r)'
  <2>1. Sound(q)'
    BY <1>3, <1>18
  <2>2. InHooks(q)' /\ r.next >= 1
    BY <1>2, <1>3, <1>11, <2>1 DEF Sound
  <2>3. ASSUME Full(q.app, s), \A k \in DOMAIN s : k < q.next => done'[s[k]][q.at] > 0,
               NEW k \in DOMAIN s, k < r.next
        PROVE  done'[s[k]][q.at] > 0
    <3>1. CASE k = q.next
      <4>1. done'[x][h] = done[x][h] + 1 /\ done[x][h] \in Nat
        BY <1>8, <1>9
      <4>2. done'[x][h] > 0
        BY <4>1
      <4> QED BY <1>6, <1>7, <3>1, <4>2
    <3>2. CASE k # q.next
      <4>1. k < q.next
        <5>1. k \in Nat
          BY LenProperties
        <5> QED BY <1>3, <1>11, <2>3, <3>2, <5>1
      <4> QED BY <2>3, <4>1
    <3> QED BY <3>1, <3>2
  <2>4. InHooks(r)'
    <3>1. UNCHANGED arrays /\ arrays[r.arr] = s /\ r.arr = q.arr
      BY <1>2, <1>4, <1>11
    <3>2. CASE AllRan(q.app, q.at)'
      BY <1>11, <2>2, <3>2 DEF InHooks
    <3>3. CASE ~AllRan(q.app, q.at)'
      <4>1. Full(q.app, s) /\ \A k \in DOMAIN s : k < q.next => done'[s[k]][q.at] > 0
        BY <1>4, <2>2, <3>1, <3>3 DEF InHooks, Full
      <4>2. \A k \in DOMAIN s : k < r.next => done'[s[k]][q.at] > 0
        BY <2>3, <4>1
      <4> QED BY <1>11, <2>2, <3>1, <4>1, <4>2 DEF InHooks, Full
    <3> QED BY <3>2, <3>3
  <2> QED BY <1>11, <2>1, <2>4 DEF Sound
<1>20. ASSUME NEW d \in Closers
       PROVE  Sound(closer[d])'
  <2>1. PICK p : p = closer'[d]
    OBVIOUS
  <2>2. Sound(p)'
    <3>1. CASE d = c
      BY <1>13, <1>19, <2>1, <3>1
    <3>2. CASE d # c
      BY <1>13, <1>18, <1>t, <2>1, <3>2
    <3> QED BY <3>1, <3>2
  <2> QED BY <2>1, <2>2
<1> QED BY <1>14, <1>15, <1>16, <1>17, <1>20 DEF LifeInv

\* A close() resolves: its application is closed, and the manager starts another array.
LEMMA OnClosed ==
    ASSUME ApplicationAssumption, LifeInv, NEW c \in Closers, Lifecycle!Closed(c)
    PROVE  LifeInv'
<1>t. LifeTyped /\ Succession /\ Listed /\ Counted /\ \A d \in Closers : Sound(closer[d])
  BY DEF LifeInv
<1>1. PICK q \in ClosingCalls : q = closer[c]
  BY <1>t DEF LifeTyped
<1>2. PICK a : a = q.app
  OBVIOUS
<1>3. /\ q.at = "onApplicationShutdown" /\ Lifecycle!PhaseOver(c)
      /\ arrays' = Append(arrays, <<>>) /\ bootstrapTriggered' = FALSE
      /\ app' = [app EXCEPT ![a] = "closed"]
      /\ closer' = [closer EXCEPT ![c].at = "resolved"]
      /\ UNCHANGED <<inited, registered, todo, done>>
  BY <1>1, <1>2 DEF Lifecycle!Closed, Lifecycle!Clear
<1>4. /\ Sound(q) /\ Last(a) /\ AllRan(a, "onApplicationShutdown")
      /\ AllRan(a, "onModuleDestroy") /\ AllRan(a, "beforeApplicationShutdown")
  BY <1>1, <1>2, <1>3, <1>t, PhaseEnds DEF Sound
<1>5. /\ a \in Lifecycle!Apps /\ app[a] \in {"ready", "closed"}
      /\ \A b \in Lifecycle!Apps : b # a => app[b] \in {"none", "closed", "failed"}
      /\ \A b \in Lifecycle!Apps : b > a => app[b] = "none"
  BY <1>4, LastReady DEF Last
<1>6. \A h \in Lifecycle!Hooks : AllRan(a, h)
  <2>1. CASE app[a] = "closed"
    BY <1>5, <1>t, <2>1 DEF Listed
  <2>2. CASE app[a] = "ready"
    <3>1. Full(a, Current) /\ AllRan(a, "onApplicationBootstrap")
      BY <1>5, <1>t, <2>2 DEF Listed
    <3>2. \A x \in Lifecycle!OwnOf(a) : x \in inited /\ x \in Lifecycle!Instances
      BY <1>5, <1>t, <3>1, OwnInstances DEF Full, Listed, LifeTyped
    <3>3. \A x \in Lifecycle!OwnOf(a) : done[x]["onModuleInit"] = 1
      BY <1>t, <3>2 DEF Counted
    <3>4. \A x \in Lifecycle!OwnOf(a) : done[x]["onModuleInit"] > 0
      BY <3>3
    <3> QED BY <1>4, <3>1, <3>4 DEF Lifecycle!Hooks, AllRan
  <2> QED BY <1>5, <2>1, <2>2
<1>7. /\ arrays' \in Seq(Seq(Lifecycle!Instances)) /\ arrays' # <<>>
      /\ DOMAIN arrays \subseteq DOMAIN arrays' /\ \A k \in DOMAIN arrays : arrays'[k] = arrays[k]
      /\ \A x : ~InList(x, Current')
  BY <1>3, <1>t, Cleared
<1>8. /\ app' \in [Lifecycle!Apps -> AppStates] /\ app'[a] = "closed"
      /\ \A b \in Lifecycle!Apps : b # a => app'[b] = app[b]
  BY <1>3, <1>5, <1>t DEF LifeTyped, AppStates
<1>9. PICK r : r = [q EXCEPT !.at = "resolved"]
  OBVIOUS
<1>10. r \in ClosingCalls /\ r.app = a /\ r.at = "resolved"
  BY <1>2, <1>9 DEF ClosingCalls, Lifecycle!Stages
<1>11. closer' = [closer EXCEPT ![c] = r]
  BY <1>1, <1>3, <1>9, <1>t DEF LifeTyped
<1>12. /\ closer' \in [Closers -> ClosingCalls]
      /\ \A d \in Closers : closer'[d] = IF d = c THEN r ELSE closer[d]
  BY <1>10, <1>11, <1>t DEF LifeTyped
<1>13. LifeTyped'
  BY <1>3, <1>7, <1>8, <1>12, <1>t DEF LifeTyped
<1>14. Succession'
  <2>1. ASSUME NEW b \in Lifecycle!Apps, NEW d \in Lifecycle!Apps, d < b, app'[b] # "none"
        PROVE  app'[d] \in {"closed", "failed"}
    <3>1. app[b] # "none"
      BY <1>5, <1>8, <2>1
    <3>2. app[d] \in {"closed", "failed"}
      BY <1>t, <2>1, <3>1 DEF Succession
    <3> QED BY <1>8, <3>2
  <2> QED BY <2>1 DEF Succession
<1>15. Listed'
  <2>1. \A b \in Lifecycle!Apps : app'[b] # "initializing" /\ app'[b] # "ready"
    BY <1>5, <1>8
  <2>2. ASSUME NEW b \in Lifecycle!Apps, app'[b] = "none"
        PROVE  \A x \in Lifecycle!OwnOf(b) : x \notin inited'
    <3>1. app[b] = "none"
      BY <1>8, <2>2
    <3> QED BY <1>3, <1>t, <3>1 DEF Listed
  <2>3. ASSUME NEW b \in Lifecycle!Apps, app'[b] = "closed", NEW h \in Lifecycle!Hooks
        PROVE  AllRan(b, h)'
    <3>1. AllRan(b, h)
      BY <1>6, <1>8, <1>t, <2>3 DEF Listed
    <3> QED BY <1>3, <3>1 DEF AllRan
  <2> QED BY <1>7, <2>1, <2>2, <2>3 DEF Listed
<1>16. Counted'
  BY <1>3, <1>7, <1>t DEF Counted
<1>17. ASSUME NEW p \in ClosingCalls, Sound(p)
       PROVE  Sound(p)'
  <2>1. \A x \in Lifecycle!Instances, h \in Lifecycle!Hooks : done'[x][h] >= done[x][h]
    BY <1>3, <1>t DEF LifeTyped
  <2>2. done' \in [Lifecycle!Instances -> [Lifecycle!Hooks -> Nat]]
    BY <1>13 DEF LifeTyped
  <2>3. \A b \in Lifecycle!Apps :
            app'[b] = app[b] \/ (app[b] \in {"ready", "closed"} /\ app'[b] = "closed")
    BY <1>5, <1>8
  <2> QED BY <1>7, <1>17, <1>t, <2>1, <2>2, <2>3, SoundStays
<1>18. Sound(r)'
  BY <1>5, <1>8, <1>10 DEF Sound, Ended, Lifecycle!ShutdownHooks
<1>19. ASSUME NEW d \in Closers
       PROVE  Sound(closer[d])'
  <2>1. PICK p : p = closer'[d]
    OBVIOUS
  <2>2. Sound(p)'
    <3>1. CASE d = c
      BY <1>12, <1>18, <2>1, <3>1
    <3>2. CASE d # c
      <4>1. p \in ClosingCalls /\ Sound(p)
        BY <1>12, <1>t, <2>1, <3>2 DEF LifeTyped
      <4> QED BY <1>17, <4>1
    <3> QED BY <3>1, <3>2
  <2> QED BY <2>1, <2>2
<1> QED BY <1>13, <1>14, <1>15, <1>16, <1>19 DEF LifeInv

LEMMA LifeStays ==
    ASSUME LifeInv,
           UNCHANGED <<arrays, bootstrapTriggered, inited, registered, app, todo, closer, done>>
    PROVE  LifeInv'
BY DEF LifeInv, LifeTyped, Succession, Listed, Counted, Sound, Last, InHooks, Full, AllRan, Current

\* listen() has nothing left to bootstrap.
LEMMA OnListen ==
    ASSUME ApplicationAssumption, LifeInv, NEW a \in Lifecycle!Apps, Lifecycle!Listen(a)
    PROVE  LifeInv'
<1>1. /\ app[a] = "ready" /\ Lifecycle!Bootstrap
      /\ UNCHANGED <<arrays, inited, registered, app, todo, closer>>
  BY DEF Lifecycle!Listen
<1>2. bootstrapTriggered = TRUE
  BY <1>1 DEF LifeInv, Listed, LifeTyped
<1>3. bootstrapTriggered' = TRUE /\ done' = [x \in Lifecycle!Instances |-> done[x]]
  BY <1>1, <1>2 DEF Lifecycle!Bootstrap, Lifecycle!ToBootstrap
<1>4. done = [x \in Lifecycle!Instances |-> done[x]]
  BY DEF LifeInv, LifeTyped
<1>5. done' = done
  BY <1>3, <1>4
<1> QED BY <1>1, <1>2, <1>3, <1>5, LifeStays

LEMMA LifeStep ==
    ASSUME ApplicationAssumption, OneAtATime, LifeInv, [Lifecycle!Next]_lifecycle
    PROVE  LifeInv'
<1>1. CASE UNCHANGED lifecycle
  BY <1>1, LifeStays DEF lifecycle
<1>2. CASE Lifecycle!Next
  <2>1. ASSUME NEW a \in Lifecycle!Apps,
               \/ Lifecycle!Create(a) \/ Lifecycle!Initialize(a) \/ Lifecycle!InitializeFails(a)
               \/ Lifecycle!Created(a) \/ Lifecycle!BootstrapFails(a) \/ Lifecycle!Listen(a)
        PROVE  LifeInv'
    BY <2>1, OnCreate, OnInitialize, OnInitializeFails, OnCreated, OnBootstrapFails, OnListen
  <2>2. ASSUME NEW c \in Closers, Lifecycle!Step(c)
        PROVE  LifeInv'
    BY <2>2, OnHookSettles, OnDestroyed, OnPrepared, OnTransport, OnStopHttp, OnClosed
       DEF Lifecycle!Step
  <2>3. ASSUME NEW c \in Closers, NEW a \in Lifecycle!Apps, Lifecycle!Close(c, a)
        PROVE  LifeInv'
    BY <2>3, OnClose
  <2> QED BY <1>2, <2>1, <2>2, <2>3 DEF Lifecycle!Next
<1> QED BY <1>1, <1>2

LEMMA LifeKeeps ==
    ASSUME ApplicationAssumption, LifeInv
    PROVE  Lifecycle!GracefulStop /\ Lifecycle!EveryHookFires
<1>t. LifeTyped /\ Listed /\ Counted /\ \A c \in Closers : Sound(closer[c])
  BY DEF LifeInv
<1>0. /\ "onModuleInit" \in Lifecycle!Hooks /\ "onModuleDestroy" \in Lifecycle!Hooks
      /\ "beforeApplicationShutdown" \in Lifecycle!Hooks
  BY DEF Lifecycle!Hooks
<1>1. ASSUME NEW c \in Closers, closer[c].at = "resolved"
      PROVE  closer[c].app \in Lifecycle!Apps /\ \A h \in Lifecycle!Hooks : AllRan(closer[c].app, h)
  BY <1>1, <1>t DEF Sound, Listed
<1>2. ASSUME NEW a \in Lifecycle!Apps, Lifecycle!Stopped(a)
      PROVE  AllRan(a, "onModuleDestroy") /\ AllRan(a, "beforeApplicationShutdown")
  <2>1. PICK c \in Closers : closer[c].app = a /\ closer[c].at \in {"onApplicationShutdown", "resolved"}
    BY <1>2 DEF Lifecycle!Stopped
  <2>2. CASE closer[c].at = "resolved"
    BY <1>0, <1>1, <2>1, <2>2
  <2>3. CASE closer[c].at = "onApplicationShutdown"
    BY <1>t, <2>1, <2>3 DEF Sound
  <2> QED BY <2>1, <2>2, <2>3
<1>3. Lifecycle!GracefulStop
  BY <1>2 DEF Lifecycle!GracefulStop, AllRan
<1>4. ASSUME NEW a \in Lifecycle!Apps, NEW x \in Lifecycle!InstancesOf(a)
      PROVE  /\ done[x]["onModuleInit"] <= 1 /\ done[x]["onApplicationBootstrap"] <= 1
             /\ x \in Lifecycle!OwnOf(a) /\ done[x]["onApplicationBootstrap"] > 0 =>
                  \A y \in Lifecycle!OwnOf(a) : done[y]["onModuleInit"] > 0
  <2>1. x \in Lifecycle!Instances /\ Lifecycle!OwnOf(a) \subseteq Lifecycle!Instances
    BY OwnInstances
  <2>2. \A y \in Lifecycle!Instances : done[y]["onModuleInit"] = IF y \in inited THEN 1 ELSE 0
    BY <1>t DEF Counted
  <2>3. done[x]["onModuleInit"] <= 1 /\ done[x]["onApplicationBootstrap"] <= 1
    <3>1. done[x]["onModuleInit"] <= 1
      BY <2>1, <2>2
    <3>2. done[x]["onApplicationBootstrap"] <= 1
      BY <1>t, <2>1 DEF Counted
    <3> QED BY <3>1, <3>2
  <2>4. ASSUME x \in Lifecycle!OwnOf(a), done[x]["onApplicationBootstrap"] > 0,
               NEW y \in Lifecycle!OwnOf(a)
        PROVE  done[y]["onModuleInit"] > 0
    <3>1. y \in inited /\ y \in Lifecycle!Instances
      BY <1>t, <2>1, <2>4 DEF Counted
    <3>2. done[y]["onModuleInit"] = 1
      BY <2>2, <3>1
    <3> QED BY <3>2
  <2> QED BY <2>3, <2>4
<1>5. Lifecycle!EveryHookFires
  BY <1>1, <1>4 DEF Lifecycle!EveryHookFires, AllRan
<1> QED BY <1>3, <1>5

(***************************************************************************)
(* The end of a test                                                       *)
(***************************************************************************)
Hooks3 == 1 .. 3
Fresh == [phase |-> 0, next |-> 1, list |-> <<>>]
CleanerRecords(S) == [phase : 0 .. 4, next : Nat \ {0}, list : Seq(S)]

TestTyped == /\ \E S : objects \in Seq(S) /\ cleaner \in [Cleaners -> CleanerRecords(S)]
             /\ turn \in Nat \ {0}
             /\ ends \in [Hooks3 -> SUBSET Nat]

\* Nobody closes what compile() has not handed out.
Untouched == compiled # "ready" => /\ \A c \in Cleaners : cleaner[c] = Fresh
                                   /\ \A h \in Hooks3 : ends[h] = {}

StartedInTurn ==
    /\ compiled \in {"no", "building"} => inits = {}
    /\ compiled = "starting" => inits = 1 .. turn - 1 /\ turn <= Len(objects) + 1

\* Of n instances, all were started.  A close() iterates them all, or nothing: then
\* another one was through with them and has dropped the list.
Through == \A h \in Hooks3 : ends[h] = inits
InCleaning(r, n) ==
    /\ r.phase \in Hooks3 =>
         \/ r.list = <<>> /\ Through
         \/ /\ Len(r.list) = n
            /\ \A i \in 1 .. n : i < r.next => i \in ends[r.phase]
            /\ \A h \in Hooks3 : h < r.phase => ends[h] = inits
    /\ r.phase = 4 => Through
Cleaned(n) ==
    /\ inits = 1 .. n
    /\ (objects = <<>> /\ Through) \/ Len(objects) = n
    /\ \A c \in Cleaners : InCleaning(cleaner[c], n)
AllCleaned == compiled = "ready" => \E n \in Nat : Cleaned(n)

\* The hooks of the end run on what was started, one after the other.
InOrder == /\ \A h \in Hooks3 : ends[h] \subseteq inits
           /\ \A h \in 2 .. 3 : ends[h] # {} => ends[h - 1] = inits

TestInv == TestTyped /\ Untouched /\ StartedInTurn /\ AllCleaned /\ InOrder

LEMMA ThreeEndings == Len(Test!Ending) = 3
BY DEF Test!Ending

LEMMA TestInit == ASSUME Test!Init PROVE TestInv
<1>1. /\ compiled = "no" /\ turn = 1 /\ inits = {} /\ objects = <<>>
      /\ ends = [h \in Hooks3 |-> {}] /\ cleaner = [c \in Cleaners |-> Fresh]
  BY ThreeEndings DEF Test!Init, Hooks3, Fresh
<1>3. PICK e \in Seq(Nat) : e = <<>>
  BY EmptySeq
<1>4. Fresh \in CleanerRecords(Nat)
  BY <1>3 DEF Fresh, CleanerRecords
<1>5. objects \in Seq(Nat) /\ cleaner \in [Cleaners -> CleanerRecords(Nat)]
  BY <1>1, <1>3, <1>4
<1>2. \E S : objects \in Seq(S) /\ cleaner \in [Cleaners -> CleanerRecords(S)]
  BY <1>5
<1>6. TestTyped
  <2>1. turn \in Nat \ {0} /\ ends \in [Hooks3 -> SUBSET Nat]
    BY <1>1
  <2> QED BY <1>2, <2>1 DEF TestTyped
<1> QED BY <1>1, <1>6 DEF TestInv, Untouched, StartedInTurn, AllCleaned, InOrder, Hooks3

\* Before an instance is started.
LEMMA BeforeStart ==
    ASSUME TestInv, compiled \in {"no", "building"}, compiled' \in {"no", "building"},
           UNCHANGED <<inits, ends, cleaner>>, turn' \in Nat \ {0},
           NEW x, objects' = objects \/ objects' = Append(objects, x)
    PROVE  TestInv'
<1>1. PICK S : objects \in Seq(S) /\ cleaner \in [Cleaners -> CleanerRecords(S)]
  BY DEF TestInv, TestTyped
<1>2. PICK T : T = S \cup {x}
  OBVIOUS
<1>3. objects \in Seq(T)
  <2>1. Len(objects) \in Nat /\ DOMAIN objects = 1 .. Len(objects)
        /\ \A k \in 1 .. Len(objects) : objects[k] \in T
    BY <1>1, <1>2, LenProperties, ElementOfSeq
  <2>2. objects = [k \in 1 .. Len(objects) |-> objects[k]]
    BY <1>1, LenProperties
  <2> QED BY <2>1, <2>2, SeqDef
<1>4. objects' \in Seq(T)
  BY <1>2, <1>3, AppendProperties
<1>5. \A c \in Cleaners : cleaner[c] = Fresh
  BY DEF TestInv, Untouched
<1>6. PICK e \in Seq(T) : e = <<>>
  BY EmptySeq
<1>7. Fresh \in CleanerRecords(T)
  BY <1>6 DEF Fresh, CleanerRecords
<1>8. cleaner' \in [Cleaners -> CleanerRecords(T)]
  BY <1>1, <1>5, <1>7
<1>9. TestTyped'
  BY <1>4, <1>8 DEF TestInv, TestTyped
<1> QED BY <1>9 DEF TestInv, Untouched, StartedInTurn, AllCleaned, InOrder

\* onModuleInit of the instances, in their order.
LEMMA OnStart ==
    ASSUME TestInv, Test!AllBuilt \/ Test!Start \/ Test!StartFails \/ Test!Compiled
    PROVE  TestInv'
<1>t. TestTyped /\ Untouched /\ StartedInTurn /\ InOrder
  BY DEF TestInv
<1>1. PICK S : objects \in Seq(S) /\ cleaner \in [Cleaners -> CleanerRecords(S)]
  BY <1>t DEF TestTyped
<1>2. UNCHANGED <<objects, ends, cleaner>> /\ compiled # "ready"
  BY DEF Test!AllBuilt, Test!Start, Test!StartFails, Test!Compiled
<1>3. Len(objects) \in Nat
  BY <1>1, LenProperties
<1>4. turn' \in Nat \ {0}
  BY <1>t DEF Test!AllBuilt, Test!Start, Test!StartFails, Test!Compiled, TestTyped
<1>5. TestTyped'
  BY <1>1, <1>2, <1>4, <1>t DEF TestTyped
<1>6. (\A h \in Hooks3 : ends[h] = {}) /\ \A c \in Cleaners : cleaner[c] = Fresh
  BY <1>2, <1>t DEF Untouched
<1>7. Untouched' /\ InOrder'
  BY <1>2, <1>6 DEF Untouched, InOrder, Hooks3
<1>8. StartedInTurn'
  <2>1. CASE Test!AllBuilt
    BY <1>3, <1>t, <2>1 DEF Test!AllBuilt, StartedInTurn
  <2>2. CASE Test!Start
    <3>1. /\ compiled = "starting" /\ compiled' = compiled /\ turn' = turn + 1
          /\ inits' = inits \cup {turn} /\ turn <= Len(objects)
      BY <2>2 DEF Test!Start
    <3>2. inits' = 1 .. turn' - 1 /\ turn' <= Len(objects') + 1
      BY <1>2, <1>3, <1>t, <3>1 DEF StartedInTurn, TestTyped
    <3> QED BY <3>1, <3>2 DEF StartedInTurn
  <2>3. CASE Test!StartFails \/ Test!Compiled
    BY <2>3 DEF Test!StartFails, Test!Compiled, StartedInTurn
  <2> QED BY <2>1, <2>2, <2>3
<1>9. AllCleaned'
  <2>1. CASE Test!Compiled
    <3>1. compiled = "starting" /\ turn > Len(objects) /\ inits' = inits
      BY <2>1 DEF Test!Compiled
    <3>2. inits = 1 .. Len(objects)
      <4>1. turn - 1 = Len(objects)
        BY <1>3, <1>t, <3>1 DEF StartedInTurn, TestTyped
      <4> QED BY <1>t, <3>1, <4>1 DEF StartedInTurn
    <3>3. PICK n \in Nat : n = Len(objects)
      BY <1>3
    <3>4. \A c \in Cleaners : InCleaning(cleaner[c], n)'
      BY <1>2, <1>6 DEF InCleaning, Fresh, Hooks3
    <3>5. Cleaned(n)'
      BY <1>2, <3>1, <3>2, <3>3, <3>4 DEF Cleaned
    <3> QED BY <3>5 DEF AllCleaned
  <2>2. CASE Test!AllBuilt \/ Test!Start \/ Test!StartFails
    BY <1>2, <2>2 DEF Test!AllBuilt, Test!Start, Test!StartFails, AllCleaned
  <2> QED BY <2>1, <2>2
<1> QED BY <1>5, <1>7, <1>8, <1>9 DEF TestInv

LEMMA TestStays ==
    ASSUME TestInv, UNCHANGED <<compiled, turn, objects, inits, ends, cleaner>>
    PROVE  TestInv'
BY DEF TestInv, TestTyped, Untouched, StartedInTurn, AllCleaned, Cleaned, InCleaning, Through, InOrder

\* A close() comes to its next loop.
LEMMA NextLoop ==
    ASSUME TestInv, compiled = "ready", NEW n \in Nat, Cleaned(n), NEW c \in Cleaners,
           NEW k \in 1 .. 4, \A h \in Hooks3 : h < k => ends[h] = inits,
           cleaner' = [cleaner EXCEPT ![c] = [phase |-> k, next |-> 1, list |-> objects]],
           objects' = objects \/ (k = 4 /\ objects' = <<>>),
           UNCHANGED <<compiled, turn, inits, ends>>
    PROVE  TestInv'
<1>t. TestTyped /\ InOrder
  BY DEF TestInv
<1>1. PICK S : objects \in Seq(S) /\ cleaner \in [Cleaners -> CleanerRecords(S)]
  BY <1>t DEF TestTyped
<1>2. PICK r : r = [phase |-> k, next |-> 1, list |-> objects]
  OBVIOUS
<1>3. r \in CleanerRecords(S) /\ r.phase = k /\ r.next = 1 /\ r.list = objects
  BY <1>1, <1>2 DEF CleanerRecords
<1>4. cleaner' \in [Cleaners -> CleanerRecords(S)]
      /\ \A d \in Cleaners : cleaner'[d] = IF d = c THEN r ELSE cleaner[d]
  BY <1>1, <1>2, <1>3
<1>5. objects' \in Seq(S)
  BY <1>1, EmptySeq
<1>6. TestTyped'
  BY <1>4, <1>5, <1>t DEF TestTyped
<1>7. k = 4 => Through
  BY DEF Through, Hooks3
<1>8. InCleaning(r, n)
  <2>1. CASE objects = <<>> /\ Through
    BY <1>3, <2>1 DEF InCleaning
  <2>2. CASE Len(objects) = n
    <3>1. \A i \in 1 .. n : ~(i < r.next)
      BY <1>3
    <3> QED BY <1>3, <1>7, <2>2, <3>1 DEF InCleaning
  <2> QED BY <2>1, <2>2 DEF Cleaned
<1>9. ASSUME NEW d \in Cleaners
      PROVE  InCleaning(cleaner[d], n)'
  <2>1. InCleaning(cleaner'[d], n)
    BY <1>4, <1>8 DEF Cleaned
  <2> QED BY <2>1 DEF InCleaning, Through
<1>10. Cleaned(n)'
  BY <1>7, <1>9 DEF Cleaned, Through
<1> QED BY <1>6, <1>10, <1>t DEF TestInv, Untouched, StartedInTurn, AllCleaned, InOrder

\* A hook of one instance settles.
LEMMA OnEndSettles ==
    ASSUME TestInv, NEW c \in Cleaners, Test!EndSettles(c),
           compiled = "ready", NEW n \in Nat, Cleaned(n)
    PROVE  TestInv'
<1>t. TestTyped /\ InOrder
  BY DEF TestInv
<1>1. PICK S : objects \in Seq(S) /\ cleaner \in [Cleaners -> CleanerRecords(S)]
  BY <1>t DEF TestTyped
<1>2. PICK q \in CleanerRecords(S) : q = cleaner[c]
  BY <1>1
<1>3. PICK i : i = q.next
  OBVIOUS
<1>4. PICK k : k = q.phase
  OBVIOUS
<1>5. /\ k \in Hooks3 /\ i <= Len(q.list) /\ i \in Nat \ {0} /\ q.list \in Seq(S)
      /\ ends' = [ends EXCEPT ![k] = @ \cup {i}]
      /\ cleaner' = [cleaner EXCEPT ![c].next = i + 1]
      /\ UNCHANGED <<compiled, turn, objects, inits>>
  BY <1>2, <1>3, <1>4, ThreeEndings
     DEF Test!EndSettles, Test!InPhase, CleanerRecords, Hooks3
<1>6. InCleaning(q, n) /\ inits = 1 .. n
  BY <1>2 DEF Cleaned
<1>7. /\ Len(q.list) = n /\ i \in inits
      /\ \A j \in 1 .. n : j < i => j \in ends[k]
      /\ \A h \in Hooks3 : h < k => ends[h] = inits
  <2>1. q.list # <<>>
    BY <1>5, EmptySeq
  <2>2. /\ Len(q.list) = n /\ \A j \in 1 .. n : j < i => j \in ends[k]
        /\ \A h \in Hooks3 : h < k => ends[h] = inits
    BY <1>3, <1>4, <1>5, <1>6, <2>1 DEF InCleaning
  <2> QED BY <1>5, <1>6, <2>2
<1>8. /\ ends' \in [Hooks3 -> SUBSET Nat]
      /\ \A h \in Hooks3 : ends'[h] = IF h = k THEN ends[h] \cup {i} ELSE ends[h]
  BY <1>5, <1>t DEF TestTyped
<1>9. \A h \in Hooks3 : /\ ends[h] \subseteq ends'[h] /\ ends'[h] \subseteq inits
                        /\ ends[h] = inits => ends'[h] = inits
  BY <1>7, <1>8, <1>t DEF InOrder
<1>10. PICK r : r = [q EXCEPT !.next = i + 1]
  OBVIOUS
<1>11. r \in CleanerRecords(S) /\ r.phase = k /\ r.list = q.list /\ r.next = i + 1
  BY <1>4, <1>5, <1>10 DEF CleanerRecords
<1>12. cleaner' = [cleaner EXCEPT ![c] = r]
  BY <1>1, <1>2, <1>5, <1>10
<1>13. cleaner' \in [Cleaners -> CleanerRecords(S)]
       /\ \A d \in Cleaners : cleaner'[d] = IF d = c THEN r ELSE cleaner[d]
  BY <1>1, <1>11, <1>12
<1>14. TestTyped'
  BY <1>1, <1>5, <1>8, <1>13, <1>t DEF TestTyped
<1>15. Through => Through'
  BY <1>5, <1>9 DEF Through
<1>16. ASSUME NEW p \in CleanerRecords(S), InCleaning(p, n)
       PROVE  InCleaning(p, n)'
  <2>1. ASSUME p.phase \in Hooks3
        PROVE  \/ p.list = <<>> /\ Through'
               \/ /\ Len(p.list) = n
                  /\ \A j \in 1 .. n : j < p.next => j \in ends'[p.phase]
                  /\ \A h \in Hooks3 : h < p.phase => ends'[h] = inits
    BY <1>9, <1>15, <1>16, <2>1 DEF InCleaning
  <2> QED BY <1>5, <1>15, <1>16, <2>1 DEF InCleaning
<1>17. InCleaning(r, n)'
  <2>1. ASSUME NEW j \in 1 .. n, j < i + 1
        PROVE  j \in ends'[k]
    <3>1. CASE j = i
      BY <1>5, <1>8, <3>1
    <3>2. CASE j # i
      <4>1. j < i
        BY <1>5, <2>1, <3>2
      <4> QED BY <1>5, <1>7, <1>9, <4>1
    <3> QED BY <3>1, <3>2
  <2>2. \A h \in Hooks3 : h < k => ends'[h] = inits
    BY <1>7, <1>9
  <2>3. k # 4
    BY <1>5 DEF Hooks3
  <2> QED BY <1>5, <1>7, <1>11, <2>1, <2>2, <2>3 DEF InCleaning
<1>18. ASSUME NEW d \in Cleaners
       PROVE  InCleaning(cleaner[d], n)'
  <2>1. PICK p \in CleanerRecords(S) : p = cleaner'[d]
    BY <1>13
  <2>2. InCleaning(p, n)'
    <3>1. CASE d = c
      BY <1>13, <1>17, <2>1, <3>1
    <3>2. CASE d # c
      <4>1. InCleaning(p, n)
        BY <1>13, <2>1, <3>2 DEF Cleaned
      <4> QED BY <1>16, <4>1
    <3> QED BY <3>1, <3>2
  <2> QED BY <2>1, <2>2
<1>19. Cleaned(n)'
  BY <1>5, <1>15, <1>18 DEF Cleaned
<1>20. InOrder'
  <2>1. ASSUME NEW h \in 2 .. 3, ends'[h] # {}
        PROVE  ends'[h - 1] = inits
    <3>1. h - 1 \in Hooks3 /\ h \in Hooks3 /\ h - 1 < h
      BY DEF Hooks3
    <3>2. CASE h = k
      BY <1>7, <1>9, <3>1, <3>2
    <3>3. CASE h # k
      <4>1. ends[h - 1] = inits
        BY <1>8, <1>t, <2>1, <3>1, <3>3 DEF InOrder
      <4> QED BY <1>9, <3>1, <4>1
    <3> QED BY <3>2, <3>3
  <2> QED BY <1>5, <1>9, <2>1 DEF InOrder
<1> QED BY <1>5, <1>14, <1>19, <1>20 DEF TestInv, Untouched, StartedInTurn, AllCleaned

LEMMA OnClean ==
    ASSUME TestInv, NEW c \in Cleaners, Test!Clean(c) \/ Test!CleanerStep(c)
    PROVE  TestInv'
<1>1. CASE Test!Clean(c)
  <2>1. /\ compiled = "ready" /\ UNCHANGED <<compiled, turn, objects, inits, ends>>
        /\ cleaner' = [cleaner EXCEPT ![c] = [phase |-> 1, next |-> 1, list |-> objects]]
    BY <1>1 DEF Test!Clean
  <2>2. PICK n \in Nat : Cleaned(n)
    BY <2>1 DEF TestInv, AllCleaned
  <2>3. \A h \in Hooks3 : ~(h < 1)
    BY DEF Hooks3
  <2>4. 1 \in 1 .. 4
    OBVIOUS
  <2> QED BY <2>1, <2>2, <2>3, <2>4, NextLoop
<1>2. ASSUME Test!InPhase(c)
      PROVE  compiled = "ready" /\ cleaner[c].phase \in Hooks3
  <2>1. cleaner[c].phase \in Hooks3 /\ cleaner[c].phase # 0
    BY <1>2, ThreeEndings DEF Test!InPhase, Hooks3
  <2>2. cleaner[c] # Fresh
    BY <2>1 DEF Fresh
  <2> QED BY <2>1, <2>2 DEF TestInv, Untouched
<1>3. CASE Test!EndSettles(c)
  <2>1. compiled = "ready"
    BY <1>2, <1>3 DEF Test!EndSettles
  <2>2. PICK n \in Nat : Cleaned(n)
    BY <2>1 DEF TestInv, AllCleaned
  <2> QED BY <1>3, <2>1, <2>2, OnEndSettles
<1>4. CASE Test!PhaseEnds(c)
  <2>1. /\ compiled = "ready" /\ cleaner[c].phase \in Hooks3
        /\ cleaner[c].next > Len(cleaner[c].list)
        /\ cleaner' = [cleaner EXCEPT ![c] = [phase |-> cleaner[c].phase + 1, next |-> 1, list |-> objects]]
        /\ objects' = IF cleaner[c].phase = 3 THEN <<>> ELSE objects
        /\ UNCHANGED <<compiled, turn, inits, ends>>
    BY <1>2, <1>4, ThreeEndings DEF Test!PhaseEnds
  <2>2. PICK n \in Nat : Cleaned(n)
    BY <2>1 DEF TestInv, AllCleaned
  <2>3. PICK k : k = cleaner[c].phase + 1
    OBVIOUS
  <2>4. k \in 1 .. 4 /\ (k = 4 <=> cleaner[c].phase = 3) /\ \A h \in Hooks3 : h < k => h <= cleaner[c].phase
    BY <2>1, <2>3 DEF Hooks3
  <2>5. \A h \in Hooks3 : h < k => ends[h] = inits
    <3>0. PICK S : cleaner \in [Cleaners -> CleanerRecords(S)]
      BY DEF TestInv, TestTyped
    <3>1. PICK q \in CleanerRecords(S) : q = cleaner[c]
      BY <3>0
    <3>2. InCleaning(q, n) /\ inits = 1 .. n /\ q.next \in Nat
      BY <2>2, <3>1 DEF Cleaned, CleanerRecords
    <3>3. CASE Through
      BY <3>3 DEF Through
    <3>4. CASE ~Through
      <4>1. /\ Len(q.list) = n /\ \A i \in 1 .. n : i < q.next => i \in ends[q.phase]
            /\ \A h \in Hooks3 : h < q.phase => ends[h] = inits
        BY <2>1, <3>1, <3>2, <3>4 DEF InCleaning
      <4>2. \A i \in 1 .. n : i \in ends[q.phase]
        BY <2>1, <3>1, <3>2, <4>1
      <4>3. ends[q.phase] = inits
        BY <2>1, <3>1, <3>2, <4>2 DEF TestInv, InOrder
      <4>4. \A h \in Hooks3 : h < k => h = q.phase \/ h < q.phase
        BY <2>1, <2>4, <3>1 DEF Hooks3
      <4> QED BY <4>1, <4>3, <4>4
    <3> QED BY <3>3, <3>4
  <2>6. cleaner' = [cleaner EXCEPT ![c] = [phase |-> k, next |-> 1, list |-> objects]]
    BY <2>1, <2>3
  <2>7. objects' = objects \/ (k = 4 /\ objects' = <<>>)
    BY <2>1, <2>4
  <2> QED BY <2>1, <2>2, <2>4, <2>5, <2>6, <2>7, NextLoop
<1> QED BY <1>1, <1>3, <1>4 DEF Test!CleanerStep

LEMMA TestStep == ASSUME TestInv, [Test!Next]_testing PROVE TestInv'
<1>0. turn \in Nat \ {0} /\ turn + 1 \in Nat \ {0}
  BY DEF TestInv, TestTyped
<1>1. CASE UNCHANGED testing
  BY <1>1, TestStays DEF testing
<1>2. ASSUME NEW m, Test!Override(m)
      PROVE  TestInv'
  <2>1. /\ compiled \in {"no", "building"} /\ compiled' \in {"no", "building"}
        /\ UNCHANGED <<objects, turn, inits, ends, cleaner>>
    BY <1>2 DEF Test!Override
  <2> QED BY <1>0, <2>1, BeforeStart
<1>3. ASSUME NEW t, Test!Resolve(t)
      PROVE  TestInv'
  BY <1>3, TestStays DEF Test!Resolve
<1>4. CASE Test!Compile \/ Test!Take \/ Test!Build \/ Test!BuildFails
  <2>1. /\ compiled \in {"no", "building"} /\ compiled' \in {"no", "building"}
        /\ UNCHANGED <<inits, ends, cleaner>> /\ turn' \in Nat \ {0}
    BY <1>0, <1>4 DEF Test!Compile, Test!Take, Test!Build, Test!BuildFails
  <2>2. \E x : objects' = objects \/ objects' = Append(objects, x)
    BY <1>4 DEF Test!Compile, Test!Take, Test!Build, Test!BuildFails, Test!Pushed
  <2> QED BY <2>1, <2>2, BeforeStart
<1>5. CASE Test!AllBuilt \/ Test!Start \/ Test!StartFails \/ Test!Compiled
  BY <1>5, OnStart
<1>6. ASSUME NEW c \in Cleaners, Test!Clean(c) \/ Test!CleanerStep(c)
      PROVE  TestInv'
  BY <1>6, OnClean
<1> QED BY <1>1, <1>2, <1>3, <1>4, <1>5, <1>6 DEF Test!Next

LEMMA TestKeeps == ASSUME TestInv PROVE Test!TestsCleanUp
<1>1. DOMAIN ends = 1 .. 3 /\ Hooks3 = 1 .. 3
  BY DEF TestInv, TestTyped, Hooks3
<1>2. ASSUME compiled = "ready", objects # <<>>
      PROVE  inits = DOMAIN objects
  <2>1. PICK n \in Nat : Cleaned(n)
    BY <1>2 DEF TestInv, AllCleaned
  <2>2. \E S : objects \in Seq(S)
    BY DEF TestInv, TestTyped
  <2>3. DOMAIN objects = 1 .. Len(objects)
    BY <2>2, LenProperties
  <2>4. inits = 1 .. n /\ Len(objects) = n
    BY <1>2, <2>1 DEF Cleaned
  <2> QED BY <2>3, <2>4
<1>3. ASSUME NEW c \in Cleaners, cleaner[c].phase > 3
      PROVE  \A h \in DOMAIN ends : ends[h] = inits
  <2>1. PICK S : cleaner \in [Cleaners -> CleanerRecords(S)]
    BY DEF TestInv, TestTyped
  <2>2. cleaner[c].phase = 4
    <3>1. cleaner[c] \in CleanerRecords(S)
      BY <2>1
    <3>2. cleaner[c].phase \in 0 .. 4
      BY <3>1 DEF CleanerRecords
    <3> QED BY <1>3, <3>2
  <2>3. cleaner[c] # Fresh
    BY <2>2 DEF Fresh
  <2>4. PICK n \in Nat : Cleaned(n)
    BY <2>3 DEF TestInv, Untouched, AllCleaned
  <2>5. Through
    BY <2>2, <2>4 DEF Cleaned, InCleaning
  <2> QED BY <1>1, <2>5 DEF Through
<1>4. \A h \in 2 .. 3 : ends[h] # {} => ends[h - 1] = inits
  BY DEF TestInv, InOrder
<1> QED BY <1>2, <1>3, <1>4, ThreeEndings DEF Test!TestsCleanUp

(***************************************************************************)
(* The testing package: what get() yields                                  *)
(***************************************************************************)
\* What holds of zero and of the number after one it holds of holds of all.
LEMMA CountsUp ==
    ASSUME NEW n \in Nat, NEW S, 0 \in S, \A i \in 1 .. n : i - 1 \in S => i \in S
    PROVE  0 .. n \subseteq S
<1> SUFFICES ASSUME NEW k \in 0 .. n, k \notin S PROVE FALSE
  OBVIOUS
<1>1. PICK U : U = {i \in 0 .. n : i \notin S}
  OBVIOUS
<1>2. U \in SUBSET Nat /\ U # {}
  BY <1>1
<1>3. PICK m \in U : \A j \in U : m <= j
  BY <1>2, LeastOf
<1>4. m \in 1 .. n /\ m \notin S
  BY <1>1, <1>3
<1>5. m - 1 \in 0 .. n /\ m - 1 \notin U
  BY <1>1, <1>3, <1>4
<1> QED BY <1>1, <1>4, <1>5

\* A provider that compile() may register: an override, or declared and not overridden.
Genuine(p) ==
    /\ p \in Test!Provider /\ p.token # Test!Nothing
    /\ (\E i \in DOMAIN overrides : overrides[i] = p) \/ Test!Overriding(p.token) = {}
GenuineSet == {p \in Test!Provider : Genuine(p)}

\* Every provider up to the one whose turn it is has been built or has failed.
Tried(j) ==
    Test!Kept(providers[j].token).kind # "alias" => providers[j].token \in ready \cup faulty

MockInv ==
    /\ bench \in Benches /\ overrides \in Seq(Mocks) /\ turn \in Nat \ {0}
    /\ providers \in Seq(GenuineSet) /\ ready \subseteq Test!Registered
    /\ compiled = "no" => providers = <<>> /\ turn = 1
    /\ compiled = "building" => \A j \in 1 .. Len(providers) : j < turn => Tried(j)
    /\ compiled \notin {"no", "building"} => \A j \in 1 .. Len(providers) : Tried(j)

LEMMA MockInit == ASSUME Test!Init PROVE MockInv
<1>1. /\ bench \in Benches /\ overrides = <<>> /\ providers = <<>> /\ compiled = "no" /\ turn = 1
      /\ ready = {}
  BY DEF Test!Init
<1>2. <<>> \in Seq(Mocks) /\ <<>> \in Seq(GenuineSet)
  BY EmptySeq
<1> QED BY <1>1, <1>2 DEF MockInv

LEMMA ReplacedIs ==
    ASSUME ApplicationAssumption, overrides \in Seq(Mocks),
           NEW p \in Test!Provider, p.token # Test!Nothing
    PROVE  Test!Replaced(p) \in GenuineSet
<1>1. CASE Test!Overriding(p.token) = {}
  BY <1>1 DEF Test!Replaced, Genuine, GenuineSet
<1>2. CASE Test!Overriding(p.token) # {}
  <2>1. PICK N \in Nat : DOMAIN overrides = 1 .. N /\ N = Len(overrides)
    BY LenProperties
  <2>2. PICK O : O = Test!Overriding(p.token)
    OBVIOUS
  <2>3. O \in SUBSET Nat /\ O # {} /\ O \subseteq DOMAIN overrides
    BY <1>2, <2>1, <2>2 DEF Test!Overriding
  <2>4. \E i \in O : \A j \in O : i <= j
    BY <2>3, LeastOf
  <2>5. PICK first : first = CHOOSE i \in O : \A j \in O : i <= j
    OBVIOUS
  <2>6. first \in DOMAIN overrides
    BY <2>3, <2>4, <2>5
  <2>7. Test!Replaced(p) = overrides[first]
    BY <1>2, <2>2, <2>5 DEF Test!Replaced
  <2>8. overrides[first] \in Mocks
    BY <2>1, <2>6, ElementOfSeq
  <2>9. overrides[first] \in Test!Provider /\ overrides[first].token # Test!Nothing
    BY <2>8 DEF ApplicationAssumption, Test!TestingAssumption
  <2> QED BY <2>6, <2>7, <2>9 DEF Genuine, GenuineSet
<1> QED BY <1>1, <1>2

LEMMA AddedIsIn ==
    ASSUME NEW T, NEW s \in Seq(T), NEW p \in T
    PROVE  Test!AddProvider(s, p) \in Seq(T)
<1>1. PICK N \in Nat : DOMAIN s = 1 .. N /\ N = Len(s)
  BY LenProperties
<1>2. CASE \E i \in DOMAIN s : s[i].token = p.token
  <2>1. Test!AddProvider(s, p) = [i \in 1 .. N |-> IF s[i].token = p.token THEN p ELSE s[i]]
    BY <1>1, <1>2 DEF Test!AddProvider
  <2>2. \A i \in 1 .. N : (IF s[i].token = p.token THEN p ELSE s[i]) \in T
    BY <1>1, ElementOfSeq
  <2>3. [i \in 1 .. N |-> IF s[i].token = p.token THEN p ELSE s[i]] \in [1 .. N -> T]
    BY <2>2
  <2> QED BY <2>1, <2>3, SeqDef
<1>3. CASE ~ \E i \in DOMAIN s : s[i].token = p.token
  <2>1. Test!AddProvider(s, p) = Append(s, p)
    BY <1>3 DEF Test!AddProvider
  <2> QED BY <2>1, AppendProperties
<1> QED BY <1>2, <1>3

\* What compile() has registered after the first n of the bench and the overrides.
Lists(map, T, n) ==
    LET b == Len(bench) IN
    /\ map \in [0 .. n -> Seq(T)] /\ map[0] = <<>>
    /\ \A k \in 1 .. n :
         map[k] = IF k <= b THEN Test!AddProvider(map[k - 1], Test!Replaced(bench[k]))
                  ELSE IF Test!Declared(overrides[k - b].token) THEN map[k - 1]
                  ELSE Test!AddProvider(map[k - 1], overrides[k - b])

LEMMA EntriesAre ==
    ASSUME ApplicationAssumption, bench \in Benches, overrides \in Seq(Mocks)
    PROVE  /\ Len(bench) \in Nat /\ Len(overrides) \in Nat
           /\ \A k \in 1 .. Len(bench) : Test!Replaced(bench[k]) \in GenuineSet
           /\ \A k \in 1 .. Len(overrides) : overrides[k] \in GenuineSet
<1>1. bench \in Seq(Test!Provider) /\ \A i \in DOMAIN bench : bench[i].token # Test!Nothing
  BY DEF ApplicationAssumption, Test!TestingAssumption
<1>2. Len(bench) \in Nat /\ DOMAIN bench = 1 .. Len(bench)
      /\ Len(overrides) \in Nat /\ DOMAIN overrides = 1 .. Len(overrides)
  BY <1>1, LenProperties
<1>3. ASSUME NEW k \in 1 .. Len(bench)
      PROVE  Test!Replaced(bench[k]) \in GenuineSet
  <2>1. bench[k] \in Test!Provider /\ bench[k].token # Test!Nothing
    BY <1>1, <1>2, ElementOfSeq
  <2> QED BY <2>1, ReplacedIs
<1>4. ASSUME NEW k \in 1 .. Len(overrides)
      PROVE  overrides[k] \in GenuineSet
  <2>1. overrides[k] \in Mocks
    BY <1>2, ElementOfSeq
  <2>2. overrides[k] \in Test!Provider /\ overrides[k].token # Test!Nothing
    BY <2>1 DEF ApplicationAssumption, Test!TestingAssumption
  <2> QED BY <1>2, <2>2 DEF Genuine, GenuineSet
<1> QED BY <1>2, <1>3, <1>4

LEMMA ListsExist ==
    ASSUME ApplicationAssumption, bench \in Benches, overrides \in Seq(Mocks)
    PROVE  \E map : Lists(map, GenuineSet, Len(bench) + Len(overrides))
<1>1. PICK b \in Nat : b = Len(bench)
  BY EntriesAre
<1>2. PICK N \in Nat : N = Len(bench) + Len(overrides)
  BY EntriesAre
<1>3. PICK G : G = GenuineSet
  OBVIOUS
<1>4. PICK U : U = {n \in 0 .. N : \E map : Lists(map, G, n)}
  OBVIOUS
<1>5. 0 \in U
  <2>1. <<>> \in Seq(G)
    BY EmptySeq
  <2>2. PICK map : map = [k \in 0 .. 0 |-> <<>>]
    OBVIOUS
  <2>3. map \in [0 .. 0 -> Seq(G)] /\ map[0] = <<>>
    BY <2>1, <2>2
  <2>4. Lists(map, G, 0)
    BY <2>3 DEF Lists
  <2> QED BY <1>4, <2>4
<1>6. ASSUME NEW n \in 1 .. N, n - 1 \in U PROVE n \in U
  <2>1. PICK f : Lists(f, G, n - 1)
    BY <1>4, <1>6
  <2>2. /\ f \in [0 .. n - 1 -> Seq(G)] /\ f[0] = <<>>
        /\ \A k \in 1 .. n - 1 :
             f[k] = IF k <= b THEN Test!AddProvider(f[k - 1], Test!Replaced(bench[k]))
                    ELSE IF Test!Declared(overrides[k - b].token) THEN f[k - 1]
                    ELSE Test!AddProvider(f[k - 1], overrides[k - b])
    BY <1>1, <2>1 DEF Lists
  <2>3. PICK e : e = IF n <= b THEN Test!AddProvider(f[n - 1], Test!Replaced(bench[n]))
                     ELSE IF Test!Declared(overrides[n - b].token) THEN f[n - 1]
                     ELSE Test!AddProvider(f[n - 1], overrides[n - b])
    OBVIOUS
  <2>4. f[n - 1] \in Seq(G)
    BY <2>2
  <2>5. e \in Seq(G)
    <3>1. CASE n <= b
      <4>1. Test!Replaced(bench[n]) \in G
        BY <1>1, <1>3, <3>1, EntriesAre
      <4> QED BY <2>3, <2>4, <3>1, <4>1, AddedIsIn
    <3>2. CASE ~(n <= b)
      <4>1. n - b \in 1 .. Len(overrides)
        BY <1>1, <1>2, <3>2, EntriesAre
      <4>2. overrides[n - b] \in G
        BY <1>3, <4>1, EntriesAre
      <4>3. Test!AddProvider(f[n - 1], overrides[n - b]) \in Seq(G)
        BY <2>4, <4>2, AddedIsIn
      <4> QED BY <2>3, <2>4, <3>2, <4>3
    <3> QED BY <3>1, <3>2
  <2>6. PICK g : g = [k \in 0 .. n |-> IF k = n THEN e ELSE f[k]]
    OBVIOUS
  <2>7. g \in [0 .. n -> Seq(G)] /\ g[0] = <<>> /\ g[n] = e /\ \A k \in 0 .. n - 1 : g[k] = f[k]
    BY <2>2, <2>5, <2>6
  <2>8. ASSUME NEW k \in 1 .. n
        PROVE  g[k] = IF k <= b THEN Test!AddProvider(g[k - 1], Test!Replaced(bench[k]))
                      ELSE IF Test!Declared(overrides[k - b].token) THEN g[k - 1]
                      ELSE Test!AddProvider(g[k - 1], overrides[k - b])
    <3>1. g[k - 1] = f[k - 1]
      BY <2>7
    <3>2. CASE k = n
      BY <2>3, <2>7, <3>1, <3>2
    <3>3. CASE k # n
      <4>1. k \in 1 .. n - 1 /\ g[k] = f[k]
        BY <2>7, <3>3
      <4> QED BY <2>2, <3>1, <4>1
    <3> QED BY <3>2, <3>3
  <2>9. Lists(g, G, n)
    BY <1>1, <2>7, <2>8 DEF Lists
  <2> QED BY <1>4, <2>9
<1>7. 0 .. N \subseteq U
  BY <1>5, <1>6, CountsUp
<1>8. N \in U
  BY <1>7
<1> QED BY <1>2, <1>3, <1>4, <1>8

LEMMA ProvidedIs ==
    ASSUME ApplicationAssumption, bench \in Benches, overrides \in Seq(Mocks)
    PROVE  Test!Provided \in Seq(GenuineSet)
<1>1. PICK b \in Nat : b = Len(bench)
  BY EntriesAre
<1>2. PICK N \in Nat : N = b + Len(overrides)
  BY <1>1, EntriesAre
<1>3. PICK G : G = GenuineSet
  OBVIOUS
<1>4. PICK f : Lists(f, G, N)
  BY <1>1, <1>2, <1>3, ListsExist
<1>5. /\ f \in [0 .. N -> Seq(G)] /\ f[0] = <<>>
      /\ \A k \in 1 .. N :
           f[k] = IF k <= b THEN Test!AddProvider(f[k - 1], Test!Replaced(bench[k]))
                  ELSE IF Test!Declared(overrides[k - b].token) THEN f[k - 1]
                  ELSE Test!AddProvider(f[k - 1], overrides[k - b])
  BY <1>1, <1>4 DEF Lists
<1>6. f = [k \in 0 .. N |-> IF k = 0 THEN <<>>
             ELSE IF k <= b THEN Test!AddProvider(f[k - 1], Test!Replaced(bench[k]))
             ELSE IF Test!Declared(overrides[k - b].token) THEN f[k - 1]
             ELSE Test!AddProvider(f[k - 1], overrides[k - b])]
  <2>1. ASSUME NEW k \in 0 .. N
        PROVE  f[k] = IF k = 0 THEN <<>>
             ELSE IF k <= b THEN Test!AddProvider(f[k - 1], Test!Replaced(bench[k]))
             ELSE IF Test!Declared(overrides[k - b].token) THEN f[k - 1]
             ELSE Test!AddProvider(f[k - 1], overrides[k - b])
    <3>1. CASE k = 0
      BY <1>5, <3>1
    <3>2. CASE k # 0
      <4>1. k \in 1 .. N
        BY <3>2
      <4> QED BY <1>5, <3>2, <4>1
    <3> QED BY <3>1, <3>2
  <2>2. f = [k \in 0 .. N |-> f[k]]
    BY <1>5
  <2> QED BY <2>1, <2>2
<1>7. PICK g : g = CHOOSE map : map = [k \in 0 .. N |-> IF k = 0 THEN <<>>
             ELSE IF k <= b THEN Test!AddProvider(map[k - 1], Test!Replaced(bench[k]))
             ELSE IF Test!Declared(overrides[k - b].token) THEN map[k - 1]
             ELSE Test!AddProvider(map[k - 1], overrides[k - b])]
  OBVIOUS
<1>8. g = [k \in 0 .. N |-> IF k = 0 THEN <<>>
             ELSE IF k <= b THEN Test!AddProvider(g[k - 1], Test!Replaced(bench[k]))
             ELSE IF Test!Declared(overrides[k - b].token) THEN g[k - 1]
             ELSE Test!AddProvider(g[k - 1], overrides[k - b])]
  BY <1>6, <1>7
<1>9. PICK U : U = {k \in 0 .. N : g[k] = f[k]}
  OBVIOUS
<1>10. 0 \in U
  <2>1. 0 \in 0 .. N
    OBVIOUS
  <2>2. g[0] = <<>>
    BY <1>8, <2>1
  <2> QED BY <1>5, <1>9, <2>1, <2>2
<1>11. ASSUME NEW k \in 1 .. N, k - 1 \in U PROVE k \in U
  <2>1. k \in 0 .. N /\ k # 0 /\ g[k - 1] = f[k - 1]
    BY <1>9, <1>11
  <2>2. g[k] = IF k <= b THEN Test!AddProvider(g[k - 1], Test!Replaced(bench[k]))
               ELSE IF Test!Declared(overrides[k - b].token) THEN g[k - 1]
               ELSE Test!AddProvider(g[k - 1], overrides[k - b])
    BY <1>8, <2>1
  <2> QED BY <1>5, <1>9, <2>1, <2>2
<1>12. 0 .. N \subseteq U
  BY <1>10, <1>11, CountsUp
<1>13. N \in 0 .. N /\ g[N] = f[N]
  BY <1>9, <1>12
<1>14. Test!Provided = g[N]
  BY <1>1, <1>2, <1>7 DEF Test!Provided
<1> QED BY <1>3, <1>5, <1>13, <1>14

\* Along the line of a token, which begins with the token itself.
LEMMA LineBegins ==
    ASSUME NEW t, Len(providers) \in Nat
    PROVE  Test!Line(t)[0] = t
<1>1. PICK N \in Nat : N = Len(providers)
  OBVIOUS
<1>2. PICK U : U = {n \in 0 .. N :
          \E f : f = [i \in 0 .. n |-> IF i = 0 THEN t ELSE Test!Needed(f[i - 1])]}
  OBVIOUS
<1>3. 0 \in U
  <2>1. PICK f : f = [i \in 0 .. 0 |-> t]
    OBVIOUS
  <2>2. f = [i \in 0 .. 0 |-> IF i = 0 THEN t ELSE Test!Needed(f[i - 1])]
    BY <2>1
  <2> QED BY <1>2, <2>2
<1>4. ASSUME NEW n \in 1 .. N, n - 1 \in U PROVE n \in U
  <2>1. PICK f : f = [i \in 0 .. n - 1 |-> IF i = 0 THEN t ELSE Test!Needed(f[i - 1])]
    BY <1>2, <1>4
  <2>2. PICK e : e = Test!Needed(f[n - 1])
    OBVIOUS
  <2>3. PICK g : g = [i \in 0 .. n |-> IF i = n THEN e ELSE f[i]]
    OBVIOUS
  <2>4. g[n] = e /\ \A i \in 0 .. n - 1 : g[i] = f[i]
    BY <2>3
  <2>5. ASSUME NEW i \in 0 .. n
        PROVE  g[i] = IF i = 0 THEN t ELSE Test!Needed(g[i - 1])
    <3>1. CASE i = n
      <4>1. i # 0 /\ g[i - 1] = f[n - 1] /\ g[i] = e
        BY <2>4, <3>1
      <4> QED BY <2>2, <4>1
    <3>2. CASE i # n
      <4>1. i \in 0 .. n - 1 /\ (i # 0 => i - 1 \in 0 .. n - 1)
        BY <3>2
      <4>2. f[i] = IF i = 0 THEN t ELSE Test!Needed(f[i - 1])
        BY <2>1, <4>1
      <4>3. g[i] = f[i] /\ (i # 0 => g[i - 1] = f[i - 1])
        BY <2>4, <4>1
      <4> QED BY <4>2, <4>3
    <3> QED BY <3>1, <3>2
  <2>6. g = [i \in 0 .. n |-> g[i]]
    BY <2>3
  <2>7. g = [i \in 0 .. n |-> IF i = 0 THEN t ELSE Test!Needed(g[i - 1])]
    BY <2>5, <2>6
  <2> QED BY <1>2, <2>7
<1>5. 0 .. N \subseteq U
  BY <1>3, <1>4, CountsUp
<1>6. N \in U
  BY <1>5
<1>7. \E f : f = [i \in 0 .. N |-> IF i = 0 THEN t ELSE Test!Needed(f[i - 1])]
  BY <1>2, <1>6
<1>8. PICK g : g = CHOOSE f : f = [i \in 0 .. N |-> IF i = 0 THEN t ELSE Test!Needed(f[i - 1])]
  OBVIOUS
<1>9. g = [i \in 0 .. N |-> IF i = 0 THEN t ELSE Test!Needed(g[i - 1])]
  BY <1>7, <1>8
<1>10. g[0] = t
  <2>1. 0 \in 0 .. N
    OBVIOUS
  <2> QED BY <1>9, <2>1
<1>11. Test!Line(t) = g
  BY <1>1, <1>8 DEF Test!Line
<1> QED BY <1>10, <1>11

\* What loading resolves is registered, and with nothing missing that begins with the token.
LEMMA MadeAre ==
    ASSUME MockInv, NEW t \in Test!Registered, Test!Kept(t).kind # "alias"
    PROVE  /\ Test!Complete(t) => \A k \in Nat : Test!Made(t, k) \subseteq Test!Registered
           /\ t \in Test!Made(t, 0)
<1>1. Len(providers) \in Nat /\ DOMAIN providers = 1 .. Len(providers)
  BY LenProperties DEF MockInv
<1>2. ASSUME Test!Complete(t), NEW k \in Nat
      PROVE  Test!Made(t, k) \subseteq Test!Registered
  <2>1. \A n \in k .. Len(providers) : n \in 0 .. Len(providers)
    BY <1>1
  <2> QED BY <1>2, <2>1 DEF Test!Complete, Test!Made
<1>3. t # Test!Nothing
  <2>1. PICK i \in DOMAIN providers : t = providers[i].token
    BY DEF Test!Registered
  <2>2. providers[i] \in GenuineSet
    BY <1>1, <2>1, ElementOfSeq DEF MockInv
  <2> QED BY <2>1, <2>2 DEF GenuineSet, Genuine
<1>4. t \in Test!Made(t, 0)
  <2>1. 0 \in 0 .. Len(providers)
    BY <1>1
  <2>2. t \in {Test!Line(t)[n] : n \in 0 .. Len(providers)}
    BY <1>1, <2>1, LineBegins
  <2> QED BY <1>3, <2>2 DEF Test!Made
<1> QED BY <1>2, <1>4

LEMMA MockStays ==
    ASSUME MockInv, UNCHANGED <<bench, overrides, providers, faulty>>,
           ready' = ready, turn' \in Nat \ {0},
           compiled' = "no" => compiled = "no" /\ turn' = turn,
           compiled' = "building" => compiled = "building" /\ turn' = turn,
           compiled' \notin {"no", "building"} =>
              \/ compiled \notin {"no", "building"}
              \/ compiled = "building" /\ turn > Len(providers)
    PROVE  MockInv'
<1>1. Len(providers) \in Nat /\ turn \in Nat
  BY LenProperties DEF MockInv
<1>2. GenuineSet' = GenuineSet /\ Test!Registered' = Test!Registered
  BY DEF GenuineSet, Genuine, Test!Registered, Test!Overriding, Test!Provider
<1>3. \A j : Tried(j)' <=> Tried(j)
  BY DEF Tried, Test!Kept
<1>4. compiled = "building" /\ turn > Len(providers) => \A j \in 1 .. Len(providers) : j < turn
  BY <1>1
<1>5. compiled' \notin {"no", "building"} => \A j \in 1 .. Len(providers) : Tried(j)
  BY <1>4 DEF MockInv
<1>6. compiled' = "building" => \A j \in 1 .. Len(providers) : j < turn' => Tried(j)
  BY DEF MockInv
<1> QED BY <1>2, <1>3, <1>5, <1>6 DEF MockInv

LEMMA OnOverride ==
    ASSUME ApplicationAssumption, MockInv, NEW m \in Mocks, Test!Override(m)
    PROVE  MockInv'
<1>1. /\ compiled = "no" /\ compiled' = "no" /\ overrides' = Append(overrides, m)
      /\ UNCHANGED <<bench, providers, turn, ready>>
  BY DEF Test!Override
<1>2. overrides' \in Seq(Mocks)
  BY <1>1, AppendProperties DEF MockInv
<1>3. providers = <<>> /\ <<>> \in Seq(GenuineSet')
  BY <1>1, EmptySeq DEF MockInv
<1>4. providers' \in Seq(GenuineSet')
  BY <1>1, <1>3
<1>5. Test!Registered' = Test!Registered
  BY <1>1 DEF Test!Registered
<1> QED BY <1>1, <1>2, <1>4, <1>5 DEF MockInv

LEMMA OnCompile ==
    ASSUME ApplicationAssumption, MockInv, Test!Compile
    PROVE  MockInv'
<1>1. /\ compiled = "no" /\ compiled' = "building" /\ providers' = Test!Provided
      /\ ready' = {providers'[i].token : i \in {j \in DOMAIN providers' :
                                                    providers'[j].kind = "value"}}
      /\ UNCHANGED <<bench, overrides, turn>>
  BY DEF Test!Compile
<1>2. GenuineSet' = GenuineSet
  BY <1>1 DEF GenuineSet, Genuine, Test!Overriding, Test!Provider
<1>3. providers' \in Seq(GenuineSet)
  BY <1>1, ProvidedIs DEF MockInv
<1>4. ready' \subseteq Test!Registered'
  BY <1>1 DEF Test!Registered
<1>5. \A j \in 1 .. Len(providers') : ~(j < turn')
  <2>1. turn' = 1
    BY <1>1 DEF MockInv
  <2> QED BY <2>1
<1> QED BY <1>1, <1>2, <1>3, <1>4, <1>5 DEF MockInv

\* One provider of compile(): what is resolved stays, the one whose turn it is is tried.
LEMMA OnTurn ==
    ASSUME MockInv, compiled = "building", turn <= Len(providers), compiled' = compiled,
           UNCHANGED <<bench, overrides, providers>>, turn' = turn + 1,
           ready \subseteq ready', ready' \subseteq Test!Registered,
           faulty \subseteq faulty', NEW k, k = turn, Tried(k)'
    PROVE  MockInv'
<1>1. Len(providers) \in Nat /\ turn \in Nat \ {0}
  BY LenProperties DEF MockInv
<1>2. GenuineSet' = GenuineSet /\ Test!Registered' = Test!Registered
  BY DEF GenuineSet, Genuine, Test!Registered, Test!Overriding, Test!Provider
<1>3. \A j : Tried(j) => Tried(j)'
  BY DEF Tried, Test!Kept
<1>4. ASSUME NEW j \in 1 .. Len(providers), j < turn'
      PROVE  Tried(j)'
  <2>1. CASE j = turn
    BY <2>1 DEF Tried, Test!Kept
  <2>2. CASE j # turn
    <3>1. j < turn
      BY <1>1, <1>4, <2>2
    <3> QED BY <1>3, <3>1 DEF MockInv
  <2> QED BY <2>1, <2>2
<1>5. turn' \in Nat \ {0}
  BY <1>1
<1> QED BY <1>2, <1>4, <1>5 DEF MockInv

LEMMA OnBuilding ==
    ASSUME MockInv, Test!Take \/ Test!Build \/ Test!BuildFails
    PROVE  MockInv'
<1>1. PICK t : t = providers[turn].token
  OBVIOUS
<1>2. /\ compiled = "building" /\ turn <= Len(providers) /\ compiled' = compiled
      /\ UNCHANGED <<bench, overrides, providers>> /\ turn' = turn + 1
  BY DEF Test!Take, Test!Build, Test!BuildFails
<1>3. t \in Test!Registered
  <2>1. Len(providers) \in Nat /\ DOMAIN providers = 1 .. Len(providers) /\ turn \in Nat \ {0}
    BY LenProperties DEF MockInv
  <2>2. turn \in DOMAIN providers
    BY <1>2, <2>1
  <2> QED BY <1>1, <2>2 DEF Test!Registered
<1>4. /\ ready \subseteq ready' /\ ready' \subseteq Test!Registered /\ faulty \subseteq faulty'
      /\ Test!Kept(t).kind # "alias" => t \in ready' \cup faulty'
  <2>1. ready \subseteq Test!Registered
    BY DEF MockInv
  <2>2. CASE Test!Take
    BY <1>1, <2>1, <2>2 DEF Test!Take
  <2>3. CASE Test!Build
    <3>1. /\ Test!Kept(t).kind # "alias" /\ Test!Complete(t)
          /\ ready' = ready \cup Test!Made(t, 0) /\ faulty' = faulty
      BY <1>1, <2>3 DEF Test!Build
    <3>2. Test!Made(t, 0) \subseteq Test!Registered /\ t \in Test!Made(t, 0)
      BY <1>3, <3>1, MadeAre
    <3> QED BY <2>1, <3>1, <3>2
  <2>4. CASE Test!BuildFails
    <3>1. /\ Test!Kept(t).kind # "alias" /\ faulty' = faulty \cup {t}
          /\ \/ ready' = ready
             \/ /\ Test!Complete(t)
                /\ \E k \in 0 .. Len(providers) : ready' = ready \cup Test!Made(t, k + 1)
      BY <1>1, <2>4 DEF Test!BuildFails
    <3>2. \A k \in 0 .. Len(providers) : k + 1 \in Nat
      BY LenProperties DEF MockInv
    <3>3. ready' # ready => ready \subseteq ready' /\ ready' \subseteq Test!Registered
      BY <1>3, <2>1, <3>1, <3>2, MadeAre
    <3> QED BY <2>1, <3>1, <3>3
  <2> QED BY <2>2, <2>3, <2>4
<1>5. PICK k : k = turn
  OBVIOUS
<1>6. Tried(k)'
  BY <1>1, <1>2, <1>4, <1>5 DEF Tried, Test!Kept
<1> QED BY <1>2, <1>4, <1>5, <1>6, OnTurn

LEMMA MockStep ==
    ASSUME ApplicationAssumption, MockInv, [Test!Next]_testing
    PROVE  MockInv'
<1>0. turn \in Nat \ {0} /\ turn + 1 \in Nat \ {0} /\ 1 \in Nat \ {0}
  BY DEF MockInv
<1>1. CASE UNCHANGED testing
  BY <1>0, <1>1, MockStays DEF testing
<1>2. ASSUME NEW m \in Mocks, Test!Override(m)
      PROVE  MockInv'
  BY <1>2, OnOverride
<1>3. ASSUME NEW t \in Test!Registered, Test!Resolve(t)
      PROVE  MockInv'
  <2>1. /\ compiled = "ready" /\ compiled' = compiled /\ Test!Complete(t)
        /\ Test!Kept(t).kind # "alias"
        /\ \E k \in 0 .. Len(providers) : ready' = ready \cup Test!Made(t, k)
        /\ UNCHANGED <<bench, overrides, providers, turn, faulty>>
    BY <1>3 DEF Test!Resolve
  <2>2. \A k \in 0 .. Len(providers) : k \in Nat
    BY LenProperties DEF MockInv
  <2>3. ready \subseteq ready' /\ ready' \subseteq Test!Registered
    <3>1. ready \subseteq Test!Registered
      BY DEF MockInv
    <3> QED BY <2>1, <2>2, <3>1, MadeAre
  <2>4. GenuineSet' = GenuineSet /\ Test!Registered' = Test!Registered
    BY <2>1 DEF GenuineSet, Genuine, Test!Registered, Test!Overriding, Test!Provider
  <2>5. \A j : Tried(j) => Tried(j)'
    BY <2>1, <2>3 DEF Tried, Test!Kept
  <2> QED BY <2>1, <2>3, <2>4, <2>5 DEF MockInv
<1>4. CASE Test!Compile
  BY <1>4, OnCompile
<1>5. CASE Test!Take \/ Test!Build \/ Test!BuildFails
  BY <1>5, OnBuilding
<1>6. CASE Test!AllBuilt
  <2>1. /\ compiled = "building" /\ compiled' = "starting" /\ turn > Len(providers) /\ turn' = 1
        /\ UNCHANGED <<bench, overrides, providers, faulty>> /\ ready' = ready
    BY <1>6 DEF Test!AllBuilt
  <2> QED BY <1>0, <2>1, MockStays
<1>7. CASE Test!Start \/ Test!StartFails \/ Test!Compiled
  <2>1. /\ compiled = "starting" /\ compiled' \in {"starting", "rejected", "ready"}
        /\ turn' \in {turn, turn + 1} /\ ready' = ready
        /\ UNCHANGED <<bench, overrides, providers, faulty>>
    BY <1>7 DEF Test!Start, Test!StartFails, Test!Compiled
  <2> QED BY <1>0, <2>1, MockStays
<1>8. ASSUME NEW c \in Cleaners, Test!Clean(c) \/ Test!CleanerStep(c)
      PROVE  MockInv'
  <2>1. /\ compiled' = compiled /\ turn' = turn /\ ready' = ready
        /\ UNCHANGED <<bench, overrides, providers, faulty>>
    BY <1>8 DEF Test!Clean, Test!CleanerStep, Test!EndSettles, Test!PhaseEnds
  <2> QED BY <1>0, <2>1, MockStays
<1> QED BY <1>1, <1>2, <1>3, <1>4, <1>5, <1>6, <1>7, <1>8 DEF Test!Next

LEMMA MockKeeps == ASSUME MockInv PROVE Test!MocksInForce
<1>1. Len(providers) \in Nat /\ DOMAIN providers = 1 .. Len(providers)
  BY LenProperties DEF MockInv
<1>2. ASSUME NEW t \in Test!Registered
      PROVE  \E i \in DOMAIN providers : Test!Kept(t) = providers[i] /\ providers[i].token = t
  BY <1>2 DEF Test!Registered, Test!Kept
<1>3. ASSUME NEW t \in ready, Test!Overriding(t) # {}
      PROVE  \E i \in DOMAIN overrides : overrides[i].token = t /\ Test!Got(t) = overrides[i].object
  <2>1. t \in Test!Registered
    BY DEF MockInv
  <2>2. PICK i \in DOMAIN providers : Test!Kept(t) = providers[i] /\ providers[i].token = t
    BY <1>2, <2>1
  <2>3. providers[i] \in GenuineSet
    BY <1>1, <2>2, ElementOfSeq DEF MockInv
  <2>4. PICK k \in DOMAIN overrides : overrides[k] = providers[i]
    BY <1>3, <2>2, <2>3 DEF GenuineSet, Genuine
  <2> QED BY <1>3, <2>2, <2>4 DEF Test!Got
<1>4. ASSUME compiled = "ready", NEW t \in Test!Registered, Test!Kept(t).kind # "alias"
      PROVE  t \in ready \cup faulty
  <2>1. PICK i \in DOMAIN providers : providers[i].token = t
    BY <1>2
  <2>2. Tried(i)
    BY <1>1, <1>4 DEF MockInv
  <2> QED BY <1>4, <2>1, <2>2 DEF Tried
<1> QED BY <1>3, <1>4 DEF Test!MocksInForce

(***************************************************************************)
(* The error hooks                                                         *)
(***************************************************************************)
Webbed == {0, 1} \cup Webs
Answers == {"none", "elysia", "filter", "response", "internal", "notfound"}
Faulted == [web : Webbed, cause : Causes \cup {"error"}, at : Nat, met : Nat, answer : Answers]

\* Once there are filters the first server has the hooks, and keeps them.
HooksTyped ==
    /\ httpServer \in Webbed /\ hooked \in Webbed
    /\ globalFilters \in Seq(Reactions)
    /\ call \in [Faults -> Faulted]
    /\ globalFilters # <<>> /\ httpServer # 0 => hooked # 0

\* A request that the hooks see has gone through filters that pass it over, in order; one that
\* they do not see came before there were filters or to another server than the first.
Seen(c) ==
    LET k == call[c].at IN
    call[c].web # 0 =>
        /\ call[c].met <= Len(globalFilters) /\ k <= Len(globalFilters) + 1
        /\ call[c].met # 0 => hooked # 0
        /\ k = 0 => call[c].answer = "elysia" /\ (call[c].met = 0 \/ call[c].web # hooked)
        /\ \A j \in 1 .. k - 1 : globalFilters[j] \in Errors!PassedOver
        /\ call[c].answer = "filter" => k <= Len(globalFilters) /\ globalFilters[k] = "answers"
        /\ call[c].answer = "elysia" /\ k # 0 =>
              k <= Len(globalFilters) /\ globalFilters[k] = "throws"
        /\ call[c].answer \in {"response", "internal", "notfound"} => k > call[c].met

ErrorsInv == HooksTyped /\ \A c \in Faults : Seen(c)

LEMMA ErrorsInit == ASSUME Errors!Init PROVE ErrorsInv
<1>1. PICK r : r = [web |-> 0, cause |-> "error", at |-> 0, met |-> 0, answer |-> "none"]
  OBVIOUS
<1>2. r \in Faulted /\ r.web = 0
  BY <1>1 DEF Faulted, Webbed, Answers
<1>3. call = [c \in Faults |-> r] /\ httpServer \in {0, 1} /\ hooked = 0 /\ globalFilters = <<>>
  BY <1>1 DEF Errors!Init
<1> QED BY <1>2, <1>3 DEF ErrorsInv, HooksTyped, Seen, Webbed

LEMMA FiltersAre ==
    ASSUME HooksTyped
    PROVE  /\ Len(globalFilters) \in Nat /\ DOMAIN globalFilters = 1 .. Len(globalFilters)
           /\ globalFilters # <<>> <=> Len(globalFilters) # 0
           /\ \A c \in Faults : call[c] \in Faulted /\ call[c].at \in Nat /\ call[c].met \in Nat
<1>1. globalFilters \in Seq(Reactions)
  BY DEF HooksTyped
<1>2. /\ Len(globalFilters) \in Nat /\ DOMAIN globalFilters = 1 .. Len(globalFilters)
      /\ globalFilters # <<>> <=> Len(globalFilters) # 0
  BY <1>1, LenProperties, EmptySeq
<1> QED BY <1>2 DEF HooksTyped, Faulted

\* Filters are added, and the hooks put on a server, under requests that go on as they were.
LEMMA OnFilters ==
    ASSUME ErrorsInv,
           \/ \E f \in Reactions : Errors!UseGlobalFilters(f)
           \/ \E w \in Webs : Errors!SetHttpServer(w)
           \/ Errors!InitGlobalFilters
    PROVE  ErrorsInv'
<1>0. HooksTyped /\ UNCHANGED call
  BY DEF ErrorsInv, Errors!UseGlobalFilters, Errors!SetHttpServer, Errors!InitGlobalFilters
<1>1. /\ Len(globalFilters) \in Nat /\ DOMAIN globalFilters = 1 .. Len(globalFilters)
      /\ globalFilters # <<>> <=> Len(globalFilters) # 0
      /\ \A c \in Faults : call[c] \in Faulted /\ call[c].at \in Nat /\ call[c].met \in Nat
  BY <1>0, FiltersAre
<1>2. /\ globalFilters' \in Seq(Reactions) /\ Len(globalFilters') \in Nat
      /\ Len(globalFilters') >= Len(globalFilters)
      /\ \A j \in 1 .. Len(globalFilters) : globalFilters'[j] = globalFilters[j]
  <2>1. ASSUME NEW f \in Reactions, Errors!UseGlobalFilters(f)
        PROVE  /\ globalFilters' \in Seq(Reactions) /\ Len(globalFilters') = Len(globalFilters) + 1
               /\ \A j \in 1 .. Len(globalFilters) : globalFilters'[j] = globalFilters[j]
    <3>1. globalFilters' = Append(globalFilters, f) /\ globalFilters \in Seq(Reactions)
      BY <1>0, <2>1 DEF Errors!UseGlobalFilters, HooksTyped
    <3> QED BY <3>1, AppendProperties
  <2>2. CASE UNCHANGED globalFilters
    BY <1>0, <1>1, <2>2 DEF HooksTyped
  <2> QED BY <1>1, <2>1, <2>2 DEF Errors!SetHttpServer, Errors!InitGlobalFilters
<1>3. /\ hooked' \in Webbed /\ httpServer' \in Webbed
      /\ hooked # 0 => hooked' = hooked
      /\ globalFilters' # <<>> /\ httpServer' # 0 => hooked' # 0
  <2>1. ASSUME NEW f \in Reactions, Errors!UseGlobalFilters(f)
        PROVE  /\ hooked' = (IF hooked = 0 THEN httpServer ELSE hooked) /\ httpServer' = httpServer
    BY <2>1 DEF Errors!UseGlobalFilters, Errors!ApplyHttpErrorHooks
  <2>2. ASSUME NEW w \in Webs, Errors!SetHttpServer(w)
        PROVE  /\ hooked' = (IF globalFilters # <<>> THEN IF hooked = 0 THEN w ELSE hooked ELSE hooked)
               /\ httpServer' = w /\ UNCHANGED globalFilters
    BY <2>2 DEF Errors!SetHttpServer, Errors!ApplyHttpErrorHooks
  <2>3. ASSUME Errors!InitGlobalFilters
        PROVE  /\ hooked' = (IF hooked = 0 THEN httpServer ELSE hooked) /\ httpServer' = httpServer
    BY <2>3 DEF Errors!InitGlobalFilters, Errors!ApplyHttpErrorHooks
  <2> QED BY <1>0, <2>1, <2>2, <2>3 DEF HooksTyped, Webbed
<1>4. HooksTyped'
  BY <1>0, <1>2, <1>3 DEF HooksTyped
<1>5. ASSUME NEW c \in Faults PROVE Seen(c)'
  <2>1. SUFFICES ASSUME call[c].web # 0 PROVE Seen(c)'
    BY <1>0 DEF Seen
  <2>2. PICK k, m \in Nat : k = call[c].at /\ m = call[c].met
    BY <1>1
  <2>3. /\ m <= Len(globalFilters) /\ k <= Len(globalFilters) + 1
        /\ m # 0 => hooked # 0
        /\ k = 0 => call[c].answer = "elysia" /\ (m = 0 \/ call[c].web # hooked)
        /\ \A j \in 1 .. k - 1 : globalFilters[j] \in Errors!PassedOver
        /\ call[c].answer = "filter" => k <= Len(globalFilters) /\ globalFilters[k] = "answers"
        /\ call[c].answer = "elysia" /\ k # 0 =>
              k <= Len(globalFilters) /\ globalFilters[k] = "throws"
        /\ call[c].answer \in {"response", "internal", "notfound"} => k > m
    BY <2>1, <2>2 DEF ErrorsInv, Seen
  <2>4. k \in Nat /\ m <= Len(globalFilters') /\ k <= Len(globalFilters') + 1
    BY <1>1, <1>2, <2>2, <2>3
  <2>5. /\ m # 0 => hooked' # 0
        /\ k = 0 => call[c].answer = "elysia" /\ (m = 0 \/ call[c].web # hooked')
    BY <1>3, <2>3
  <2>6. \A j \in 1 .. k - 1 : globalFilters'[j] \in Errors!PassedOver
    BY <1>1, <1>2, <2>3, <2>4
  <2>7. ASSUME k # 0, k <= Len(globalFilters)
        PROVE  globalFilters'[k] = globalFilters[k] /\ k <= Len(globalFilters')
    BY <1>1, <1>2, <2>4, <2>7
  <2>8. /\ call[c].answer = "filter" => k <= Len(globalFilters') /\ globalFilters'[k] = "answers"
        /\ call[c].answer = "elysia" /\ k # 0 =>
              k <= Len(globalFilters') /\ globalFilters'[k] = "throws"
    BY <2>3, <2>7
  <2> QED BY <1>0, <2>2, <2>3, <2>4, <2>5, <2>6, <2>8 DEF Seen
<1> QED BY <1>4, <1>5 DEF ErrorsInv

\* A request is at the place it was given, and nothing of the server changes.
LEMMA OnCall ==
    ASSUME ErrorsInv, UNCHANGED <<httpServer, hooked, globalFilters>>, NEW c \in Faults,
           NEW r \in Faulted, call' = [call EXCEPT ![c] = r], r.web # 0,
           r.met <= Len(globalFilters), r.at <= Len(globalFilters) + 1,
           r.met # 0 => hooked # 0,
           r.at = 0 => r.answer = "elysia" /\ (r.met = 0 \/ r.web # hooked),
           \A j \in 1 .. r.at - 1 : globalFilters[j] \in Errors!PassedOver,
           r.answer = "filter" => r.at <= Len(globalFilters) /\ globalFilters[r.at] = "answers",
           r.answer = "elysia" /\ r.at # 0 =>
              r.at <= Len(globalFilters) /\ globalFilters[r.at] = "throws",
           r.answer \in {"response", "internal", "notfound"} => r.at > r.met
    PROVE  ErrorsInv'
<1>1. /\ call' \in [Faults -> Faulted] /\ call'[c] = r
      /\ \A d \in Faults : d # c => call'[d] = call[d]
  BY DEF ErrorsInv, HooksTyped
<1>2. HooksTyped'
  BY <1>1 DEF ErrorsInv, HooksTyped
<1>3. ASSUME NEW d \in Faults PROVE Seen(d)'
  <2>1. CASE d = c
    BY <1>1, <2>1 DEF Seen
  <2>2. CASE d # c
    BY <1>1, <2>2 DEF ErrorsInv, Seen
  <2> QED BY <2>1, <2>2
<1> QED BY <1>2, <1>3 DEF ErrorsInv

LEMMA OnRaise ==
    ASSUME ErrorsInv, NEW c \in Faults, NEW x \in Causes, Errors!Raise(c, x)
    PROVE  ErrorsInv'
<1>1. PICK r : r = [web |-> httpServer, cause |-> x, met |-> Len(globalFilters),
                    at |-> IF hooked = httpServer THEN 1 ELSE 0,
                    answer |-> IF hooked = httpServer THEN "none" ELSE "elysia"]
  OBVIOUS
<1>2. /\ call' = [call EXCEPT ![c] = r] /\ httpServer # 0
      /\ UNCHANGED <<httpServer, hooked, globalFilters>>
  BY <1>1 DEF Errors!Raise
<1>3. /\ Len(globalFilters) \in Nat /\ httpServer \in Webbed
      /\ Len(globalFilters) # 0 => hooked # 0
  BY <1>2, FiltersAre DEF ErrorsInv, HooksTyped
<1>4. /\ r \in Faulted /\ r.web = httpServer /\ r.met = Len(globalFilters) /\ r.at \in {0, 1}
      /\ r.at = 0 => r.answer = "elysia" /\ r.web # hooked
      /\ r.at = 1 => r.answer = "none"
  BY <1>1, <1>3 DEF Faulted, Answers
<1>5. 1 .. r.at - 1 = {}
  BY <1>4
<1>6. /\ r.answer \notin {"filter", "response", "internal", "notfound"}
      /\ r.answer = "elysia" => r.at = 0
  BY <1>4
<1>7. /\ r.web # 0 /\ r.met <= Len(globalFilters) /\ r.at <= Len(globalFilters) + 1
      /\ r.met # 0 => hooked # 0
      /\ r.at = 0 => r.answer = "elysia" /\ (r.met = 0 \/ r.web # hooked)
      /\ \A j \in 1 .. r.at - 1 : globalFilters[j] \in Errors!PassedOver
  BY <1>2, <1>3, <1>4, <1>5
<1> QED BY <1>2, <1>4, <1>6, <1>7, OnCall

\* A filter passes an exception over, answers it or throws; after the last there is the
\* fallback.
LEMMA OnFilter ==
    ASSUME ApplicationAssumption, ErrorsInv, NEW c \in Faults,
           Errors!RunFilter(c) \/ Errors!NoFilter(c)
    PROVE  ErrorsInv'
<1>1. PICK r : r = call[c]
  OBVIOUS
<1>2. /\ r \in Faulted /\ r.web # 0 /\ r.answer = "none" /\ r.cause \in Causes \cup {"error"}
      /\ UNCHANGED <<httpServer, hooked, globalFilters>>
      /\ call \in [Faults -> Faulted]
  BY <1>1 DEF ErrorsInv, HooksTyped, Errors!RunFilter, Errors!NoFilter, Errors!Raised, Faulted
<1>3. /\ r.at \in Nat \ {0} /\ r.met \in Nat /\ Len(globalFilters) \in Nat
      /\ r.met <= Len(globalFilters) /\ r.at <= Len(globalFilters) + 1
      /\ r.met # 0 => hooked # 0
      /\ \A j \in 1 .. r.at - 1 : globalFilters[j] \in Errors!PassedOver
  <2>1. Seen(c) /\ r.at \in Nat /\ r.met \in Nat /\ Len(globalFilters) \in Nat
    BY <1>1, FiltersAre DEF ErrorsInv
  <2> QED BY <1>1, <1>2, <2>1 DEF Seen
<1>4. CASE Errors!NoFilter(c)
  <2>1. PICK f : f = Errors!Fallback(r.cause)
    OBVIOUS
  <2>2. f \in {"response", "internal", "notfound"}
    BY <1>2, <2>1 DEF Errors!Fallback, ApplicationAssumption, Errors!ErrorHooksAssumption
  <2>3. PICK q : q = [r EXCEPT !.answer = f]
    OBVIOUS
  <2>4. call' = [call EXCEPT ![c] = q]
    BY <1>1, <1>4, <2>1, <2>3 DEF Errors!NoFilter, Errors!Answered
  <2>5. /\ q \in Faulted /\ q.web = r.web /\ q.at = r.at /\ q.met = r.met /\ q.answer = f
    BY <1>2, <2>2, <2>3 DEF Faulted, Answers
  <2>6. r.at > Len(globalFilters)
    BY <1>1, <1>4 DEF Errors!NoFilter
  <2>7. r.at > r.met
    BY <1>3, <2>6
  <2> QED BY <1>2, <1>3, <2>2, <2>4, <2>5, <2>7, OnCall
<1>5. CASE Errors!RunFilter(c)
  <2>1. PICK f : f = globalFilters[r.at]
    OBVIOUS
  <2>2. /\ r.at <= Len(globalFilters)
        /\ \/ f \in Errors!PassedOver /\ call' = [call EXCEPT ![c].at = @ + 1]
           \/ f = "answers" /\ call' = [call EXCEPT ![c].answer = "filter"]
           \/ f = "throws" /\ call' = [call EXCEPT ![c].answer = "elysia"]
    BY <1>1, <1>5, <2>1 DEF Errors!RunFilter, Errors!Answered
  <2>3. CASE f \in Errors!PassedOver /\ call' = [call EXCEPT ![c].at = @ + 1]
    <3>1. PICK q : q = [r EXCEPT !.at = @ + 1]
      OBVIOUS
    <3>2. call' = [call EXCEPT ![c] = q]
      BY <1>1, <2>3, <3>1
    <3>3. /\ q \in Faulted /\ q.web = r.web /\ q.at = r.at + 1 /\ q.met = r.met /\ q.answer = "none"
      <4>1. r.at + 1 \in Nat
        BY <1>3
      <4> QED BY <1>2, <3>1, <4>1 DEF Faulted
    <3>4. ASSUME NEW j \in 1 .. q.at - 1 PROVE globalFilters[j] \in Errors!PassedOver
      <4>1. j = r.at \/ j \in 1 .. r.at - 1
        BY <1>3, <3>3
      <4> QED BY <1>3, <2>1, <2>3, <4>1
    <3>5. q.at <= Len(globalFilters) + 1 /\ q.at # 0
      BY <1>3, <2>2, <3>3
    <3> QED BY <1>2, <1>3, <3>2, <3>3, <3>4, <3>5, OnCall
  <2>4. ASSUME NEW a \in {"filter", "elysia"}, call' = [call EXCEPT ![c].answer = a],
               f = IF a = "filter" THEN "answers" ELSE "throws"
        PROVE  ErrorsInv'
    <3>1. PICK q : q = [r EXCEPT !.answer = a]
      OBVIOUS
    <3>2. call' = [call EXCEPT ![c] = q]
      BY <1>1, <2>4, <3>1
    <3>3. /\ q \in Faulted /\ q.web = r.web /\ q.at = r.at /\ q.met = r.met /\ q.answer = a
      BY <1>2, <3>1 DEF Faulted, Answers
    <3>4. q.answer = "filter" => globalFilters[q.at] = "answers"
      BY <2>1, <2>4, <3>3
    <3>5. q.answer = "elysia" => globalFilters[q.at] = "throws"
      BY <2>1, <2>4, <3>3
    <3> QED BY <1>2, <1>3, <2>2, <3>2, <3>3, <3>4, <3>5, OnCall
  <2> QED BY <2>2, <2>3, <2>4
<1> QED BY <1>4, <1>5

LEMMA ErrorsStep ==
    ASSUME ApplicationAssumption, ErrorsInv, [Errors!Next]_errors
    PROVE  ErrorsInv'
<1>1. CASE UNCHANGED errors
  BY <1>1 DEF errors, ErrorsInv, HooksTyped, Seen
<1> QED BY <1>1, OnFilters, OnRaise, OnFilter DEF Errors!Next

LEMMA ErrorsKeeps == ASSUME ApplicationAssumption, ErrorsInv PROVE Errors!ErrorsAnswered
<1>1. \A x \in Causes : Errors!Fallback(x) \in {"response", "internal", "notfound"}
  BY DEF Errors!Fallback, ApplicationAssumption, Errors!ErrorHooksAssumption
<1>2. \A c \in Faults : Seen(c)
  BY DEF ErrorsInv
<1> QED BY <1>1, <1>2 DEF Seen, Errors!ErrorsAnswered

(***************************************************************************)
\* A step is one of the stage considered; the others keep still.
LEMMA StageStep ==
    ASSUME [Next]_vars
    PROVE  /\ [Setup!Next]_setup /\ [Lifecycle!Next]_lifecycle
           /\ [Test!Next]_testing /\ [Hybrid!Next]_hybrid
           /\ [Explorer!Next]_explorer /\ [Errors!Next]_errors
<1>1. CASE UNCHANGED vars
  BY <1>1 DEF vars
<1>2. CASE SetsUp
  BY <1>2 DEF SetsUp
<1>3. CASE Registers \/ Explores \/ Errs
  BY <1>3 DEF Registers, Explores, Errs
<1>4. CASE Lives
  BY <1>4 DEF Lives
<1>5. CASE IsTested
  BY <1>5 DEF IsTested
<1>6. CASE Starts
  BY <1>6 DEF Starts
<1> QED BY <1>1, <1>2, <1>3, <1>4, <1>5, <1>6 DEF Next

\* core/src/module: no provider of the root module is initialized before every module body
\* that was entered has ended, in a module graph of any shape and size.
THEOREM RootIsLast == Spec => []RootLast
<1>1. Init => GraphInv
  BY ApplicationAssumption, GraphInit DEF Init
<1>2. GraphInv /\ [Next]_vars => GraphInv'
  BY ApplicationAssumption, GraphStep, StageStep
<1>3. GraphInv => RootLast
  BY ApplicationAssumption, GraphKeeps
<1> QED BY <1>1, <1>2, <1>3, PTL DEF Spec

\* ElysiaNestApplication.close() and the hybrid transports: an application that has stopped
\* has been through onModuleDestroy and beforeApplicationShutdown of all its own instances,
\* however many calls of close() overlap and whatever throws; and no transport of it
\* listens.  Applications follow one another: with several at a time, they share the one
\* LifecycleManager, and nothing of the kind is said.
THEOREM StopsGracefully == ASSUME OneAtATime PROVE Spec => []GracefulStop
<1> DEFINE Inv == LifeInv /\ HybridInv
<1>1. Init => Inv
  BY ApplicationAssumption, LifeInit, HybridInit DEF Init
<1>2. Inv /\ [Next]_vars => Inv'
  BY ApplicationAssumption, OneAtATime, LifeStep, HybridStep, StageStep
<1>3. Inv => GracefulStop
  BY ApplicationAssumption, LifeKeeps, HybridKeeps DEF GracefulStop
<1> QED BY <1>1, <1>2, <1>3, PTL DEF Spec

\* LifecycleManager and the testing package: a close() that resolves has seen every hook of
\* every instance of its own; each is initialized and bootstrapped once, none before the
\* others are initialized; a test's close() has run every hook of the end on every instance.
THEOREM HooksFire == ASSUME OneAtATime PROVE Spec => []EveryHookFires
<1> DEFINE Inv == LifeInv /\ TestInv
<1>1. Init => Inv
  BY ApplicationAssumption, LifeInit, TestInit DEF Init
<1>2. Inv /\ [Next]_vars => Inv'
  BY ApplicationAssumption, OneAtATime, LifeStep, TestStep, StageStep
<1>3. Inv => EveryHookFires
  BY ApplicationAssumption, LifeKeeps, TestKeeps DEF EveryHookFires
<1> QED BY <1>1, <1>2, <1>3, PTL DEF Spec

\* The explorers, the hybrid transports and the error hooks: every wrapper that counts has
\* registered each method that the decorators of its class and of the bases ask for, and
\* nothing else unless classes of one family tree share a list, for class hierarchies,
\* containers and programs of any size; no transport can emit an error nobody listens to; and a
\* request that fails is answered by the first filter that answers, in order of registration.
THEOREM HandlersFound == Spec => []HandlersRegistered
<1> DEFINE Inv == DiscoveryInv /\ HybridInv /\ Heard /\ ErrorsInv
<1>1. Init => Inv
  <2>1. ASSUME Init PROVE Heard
    BY <2>1 DEF Init, Hybrid!Init, Heard
  <2> QED BY <2>1, ApplicationAssumption, DiscoveryInit, HybridInit, ErrorsInit DEF Init
<1>2. Inv /\ [Next]_vars => Inv'
  BY ApplicationAssumption, DiscoveryStep, HybridStep, HeardStep, ErrorsStep, StageStep
<1>3. Inv => HandlersRegistered
  BY ApplicationAssumption, DiscoveryKeeps, ErrorsKeeps
  DEF HandlersRegistered, Hybrid!ErrorsLogged, Heard
<1> QED BY <1>1, <1>2, <1>3, PTL DEF Spec

\* core/src/module and the hybrid transports: an application that boots has built a provider
\* of every registration and resolved every controller, down to what they depend on, in a
\* module graph of any shape; a transport that has started listens, however many calls overlap.
THEOREM BootsOrFails == Spec => []FailsFast
<1> DEFINE Inv == GraphInv /\ Wired /\ PathsInv /\ HybridInv /\ AllGetting
<1>1. Init => Inv
  BY ApplicationAssumption, GraphInit, PathsInit, HybridInit, GettingInit DEF Init
<1>2. Inv /\ [Next]_vars => Inv'
  <2>1. ASSUME Inv, [Next]_vars PROVE GraphInv' /\ HybridInv'
    BY <2>1, ApplicationAssumption, GraphStep, HybridStep, StageStep
  <2>2. ASSUME Inv, [Next]_vars PROVE Wired' /\ PathsInv'
    BY <2>2, ApplicationAssumption, WiredStep, PathsStep, StageStep
  <2>3. ASSUME Inv, [Next]_vars PROVE AllGetting'
    BY <2>3, <2>1, GettingStep, StageStep
  <2> QED BY <2>1, <2>2, <2>3
<1>3. Inv => FailsFast
  BY ApplicationAssumption, WiredFailsFast, GettingKeeps DEF FailsFast
<1> QED BY <1>1, <1>2, <1>3, PTL DEF Spec

\* elysia-plugin.factory.ts and injector.ts, for any module graph, over all interleavings of the
\* bodies and of the gets on their one resolution chain: gets come upon each other only where two
\* controllers lead to one provider.  As long as none comes upon a provider that another is building,
\* importers of a module share its instances where no module is dynamic and no global one is offered
\* before it is ready; and where every module is imported once, a graph that lists and exports what
\* it uses boots, with one instance of each.  Where gets do meet, nothing of this is promised.
THEOREM ModulesShare == Spec => []Setup!SharesInstances
<1> DEFINE Inv == /\ GraphInv /\ Wired /\ PathsInv /\ Coloured /\ Ranked /\ Alone
                  /\ Running /\ Enlisted /\ Shared
<1>1. Init => Inv
  BY ApplicationAssumption, GraphInit, PathsInit, ColouredInit, RankedInit, AloneInit,
     RunningInit, EnlistedInit, SharedInit DEF Init
<1>2. Inv /\ [Next]_vars => Inv'
  <2>1. ASSUME Inv, [Next]_vars PROVE GraphInv' /\ Wired' /\ PathsInv' /\ [Setup!Next]_setup
    BY <2>1, ApplicationAssumption, GraphStep, WiredStep, PathsStep, StageStep
  <2>2. ASSUME Inv, [Next]_vars PROVE Coloured' /\ Ranked' /\ Alone'
    BY <2>1, <2>2, ApplicationAssumption, ColouredStep, RankedStep, AloneStep
  <2>3. ASSUME Inv, [Next]_vars PROVE Running' /\ Enlisted'
    BY <2>1, <2>3, ApplicationAssumption, RunningStep, EnlistedStep
  <2>4. ASSUME Inv, [Next]_vars PROVE Shared'
    BY <2>1, <2>4, ApplicationAssumption, SharedStep
  <2> QED BY <2>1, <2>2, <2>3, <2>4
<1>3. Inv => Setup!SharesInstances
  BY ApplicationAssumption, SharedKeeps
<1> QED BY <1>1, <1>2, <1>3, PTL DEF Spec

\* The testing package: of a token that is overridden get() yields an override and never
\* what was declared, however many providers and overrides there are and whatever compile()
\* passes over; and what compile() can build is built or has thrown.
THEOREM MocksStand == Spec => []Test!MocksInForce
<1>1. Init => MockInv
  BY MockInit DEF Init
<1>2. MockInv /\ [Next]_vars => MockInv'
  BY ApplicationAssumption, MockStep, StageStep
<1>3. MockInv => Test!MocksInForce
  BY MockKeeps
<1> QED BY <1>1, <1>2, <1>3, PTL DEF Spec
=============================================================================
