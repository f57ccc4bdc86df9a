------------------------- MODULE ModuleGraph_proofs -------------------------
(***************************************************************************)
(* Proofs about ModuleGraph, as a stage of Application, for any graph: in  *)
(* which order the modules are set up, how the gets go on that overlap on  *)
(* one resolution chain, what has been built when the application boots    *)
(* and who shares it.                                                      *)
(***************************************************************************)
EXTENDS Application, SequenceTheorems, WellFoundedInduction, TLAPS

(***************************************************************************)
(* The set-up of the module graph                                          *)
(***************************************************************************)
Frames == [m : Modules, next : Nat \ {0}]
EdgeStates == {"idle", "called", "returned", "applied"}

GraphTyped ==
    /\ graph \in Setup!Graph
    /\ stack \in Seq(Frames)
    /\ body \in [Modules -> Setup!Bodies]
    /\ DOMAIN edge = Modules
    /\ \A p \in Modules : edge[p] \in [DOMAIN graph.imports[p] -> EdgeStates]

\* A module is in the stack once, after it was entered; the imports it has not come to
\* yet are untouched.
Entering ==
    /\ body[Root] # "none"
    /\ \A p \in Modules : body[p] = "none" =>
         \A i \in DOMAIN graph.imports[p] : edge[p][i] = "idle"
    /\ \A k \in DOMAIN stack :
         /\ body[stack[k].m] # "none"
         /\ body[stack[k].m] = "running" =>
              \A i \in DOMAIN graph.imports[stack[k].m] :
                  i >= stack[k].next => edge[stack[k].m][i] = "idle"
    /\ \A j, k \in DOMAIN stack : stack[j].m = stack[k].m => j = k

\* A body that is past its imports has seen every one of them settle.
PastImports == {"validating", "hooks", "done"}
Imported == \A p \in Modules : body[p] \in PastImports =>
                \A i \in DOMAIN graph.imports[p] : edge[p][i] = "applied"

\* The import that waits for the body it started, or has waited for it.
Started(p, i) ==
    \/ edge[p][i] = "called"
    \/ edge[p][i] = "applied" /\ body[graph.imports[p][i]] = "done"

\* Every body that was entered was started by an import of one that was entered before:
\* a set of modules that has the root, and what its imports started, has them all.
Closed(S) == /\ Root \in S
             /\ \A p \in S : \A i \in DOMAIN graph.imports[p] :
                    Started(p, i) => graph.imports[p][i] \in S
Reached == \A S \in SUBSET Modules :
               Closed(S) => \A m \in Modules : body[m] # "none" => m \in S

Booted == boot \in {"providers", "ok"} => body[Root] = "done"

\* A module waits for the controllers it asked for something: for one at a time while it
\* validates them, and as long as it waits for one its body is not on the stack.  What
\* has failed it is never there in the end.
AskStates == {"no", "validating", "found", "missing", "hooking", "hooked"}
Asks ==
    /\ asked \in [Controllers -> AskStates]
    /\ \A c \in Controllers :
         /\ asked[c] = "validating" =>
              /\ body[graph.seat[c]] = "validating" /\ c \in Setup!Validated(graph.seat[c])
              /\ \A k \in DOMAIN stack : stack[k].m # graph.seat[c]
         /\ asked[c] = "hooking" =>
              /\ body[graph.seat[c]] \in {"hooks", "failed"} /\ c \in Setup!Hooked(graph.seat[c])
              /\ body[graph.seat[c]] = "failed" =>
                   \E d \in Setup!Hooked(graph.seat[c]) : asked[d] = "missing"
    /\ \A c, d \in Controllers :
         asked[c] = "validating" /\ asked[d] = "validating" /\ graph.seat[c] = graph.seat[d] => c = d

GraphCore == GraphTyped /\ Entering /\ Imported /\ Reached /\ Booted
GraphInv == GraphCore /\ Asks

LEMMA ImportsTyped ==
    ASSUME graph \in Setup!Graph, NEW p \in Modules
    PROVE  /\ graph.imports[p] \in Seq(Modules \ {Root})
           /\ Len(graph.imports[p]) \in Nat /\ DOMAIN graph.imports[p] = 1 .. Len(graph.imports[p])
           /\ \A i \in DOMAIN graph.imports[p] : graph.imports[p][i] \in Modules
<1>1. graph.imports \in [Modules -> Seq(Modules \ {Root})]
  BY DEF Setup!Graph
<1>2. graph.imports[p] \in Seq(Modules \ {Root})
  BY <1>1
<1>3. Len(graph.imports[p]) \in Nat /\ DOMAIN graph.imports[p] = 1 .. Len(graph.imports[p])
  BY <1>2, LenProperties
<1> QED BY <1>2, <1>3, ElementOfSeq

\* As long as no body that is done is entered again, and no import that has started one
\* is forgotten, what was reached stays reached.
LEMMA ReachedOn ==
    ASSUME GraphTyped, Reached, UNCHANGED graph,
           NEW e \in SUBSET Modules,
           \A m \in Modules : body'[m] # "none" => body[m] # "none" \/ m \in e,
           \A m \in Modules : body[m] = "done" => body'[m] = "done",
           \A p \in Modules : \A i \in DOMAIN graph.imports[p] :
               edge[p][i] \in {"called", "applied"} /\ edge'[p][i] # edge[p][i] =>
                   edge[p][i] = "called" /\ edge'[p][i] = "applied" /\ body[graph.imports[p][i]] = "done",
           \A m \in e : \E p \in Modules : \E i \in DOMAIN graph.imports[p] :
               /\ body[p] # "none" /\ edge'[p][i] = "called" /\ graph.imports[p][i] = m
    PROVE  Reached'
<1>1. SUFFICES ASSUME NEW S \in SUBSET Modules, Closed(S)', NEW m \in Modules, body'[m] # "none"
               PROVE  m \in S
  BY DEF Reached
<1>2. Closed(S)
  <2>1. SUFFICES ASSUME NEW p \in S, NEW i \in DOMAIN graph.imports[p], Started(p, i)
                 PROVE  graph.imports[p][i] \in S
    BY <1>1 DEF Closed
  <2>2. graph.imports[p][i] \in Modules
    BY ImportsTyped DEF GraphTyped
  <2>3. Started(p, i)'
    BY <2>1, <2>2 DEF Started
  <2> QED BY <1>1, <2>3 DEF Closed
<1>3. CASE body[m] # "none"
  BY <1>2, <1>3 DEF Reached
<1>4. CASE m \in e
  <2>0. PICK p \in Modules : \E i \in DOMAIN graph.imports[p] :
            body[p] # "none" /\ edge'[p][i] = "called" /\ graph.imports[p][i] = m
    BY <1>4
  <2>1. PICK i \in DOMAIN graph.imports[p] :
            body[p] # "none" /\ edge'[p][i] = "called" /\ graph.imports[p][i] = m
    BY <2>0
  <2>2. p \in S
    BY <1>2, <2>1 DEF Reached
  <2>3. Started(p, i)'
    BY <2>1 DEF Started
  <2> QED BY <1>1, <2>1, <2>2, <2>3 DEF Closed
<1> QED BY <1>1, <1>3, <1>4

LEMMA GraphInit == ASSUME ApplicationAssumption, Setup!Init PROVE GraphInv
<1>1. Root \in Modules /\ graph \in Setup!Graph
  BY DEF ApplicationAssumption, Setup!ModuleGraphAssumption, Setup!Init
<1>2. /\ body = [m \in Modules |-> IF m = Root THEN "running" ELSE "none"]
      /\ edge = [m \in Modules |-> [i \in DOMAIN graph.imports[m] |-> "idle"]]
      /\ boot = "modules"
  BY DEF Setup!Init, Setup!imports
<1>3. PICK f : f = [m |-> Root, next |-> 1]
  OBVIOUS
<1>4. f \in Frames /\ f.m = Root /\ f.next = 1 /\ stack = <<f>>
  BY <1>1, <1>3 DEF Setup!Init, Frames
<1>5. stack \in Seq(Frames) /\ DOMAIN stack = {1} /\ stack[1] = f
  BY <1>4
<1>6. GraphTyped
  BY <1>1, <1>2, <1>5 DEF GraphTyped, EdgeStates, Setup!Bodies
<1>7. Entering
  BY <1>1, <1>2, <1>4, <1>5 DEF Entering
<1>8. Imported
  BY <1>2 DEF Imported, PastImports
<1>9. Reached
  BY <1>2 DEF Reached, Closed
<1>10. Booted
  BY <1>2 DEF Booted
<1>11. Asks
  BY DEF Setup!Init, Asks, AskStates
<1> QED BY <1>6, <1>7, <1>8, <1>9, <1>10, <1>11 DEF GraphInv, GraphCore

\* The frames under the top one, which may be left, replaced, or pushed upon.
LEMMA Frames1 ==
    ASSUME NEW s \in Seq(Frames), s # <<>>
    PROVE  /\ Len(s) \in Nat \ {0} /\ s[Len(s)] \in Frames /\ Len(s) \in DOMAIN s
           /\ s[Len(s)].m \in Modules /\ s[Len(s)].next \in Nat \ {0}
           /\ SubSeq(s, 1, Len(s) - 1) \in Seq(Frames)
           /\ DOMAIN SubSeq(s, 1, Len(s) - 1) = 1 .. Len(s) - 1
           /\ Len(SubSeq(s, 1, Len(s) - 1)) = Len(s) - 1
           /\ \A k \in 1 .. Len(s) - 1 : k \in DOMAIN s /\ SubSeq(s, 1, Len(s) - 1)[k] = s[k]
<1>1. Len(s) \in Nat \ {0} /\ DOMAIN s = 1 .. Len(s)
  BY EmptySeq, LenProperties
<1>2. \A k \in 1 .. Len(s) : s[k] \in Frames
  BY ElementOfSeq
<1>0. Len(s) - 1 \in Nat
  BY <1>1
<1>3. PICK n \in Nat : n = Len(s) - 1
  BY <1>0
<1>4. PICK p : p = SubSeq(s, 1, n)
  OBVIOUS
<1>5. /\ p \in Seq(Frames) /\ Len(p) = n
      /\ \A k \in 1 .. n : p[k] = s[k]
  <2>1. \A k \in 1 .. n : s[k] \in Frames /\ 1 + k - 1 = k
    BY <1>1, <1>2, <1>3
  <2> QED BY <1>3, <1>4, <2>1, SubSeqProperties
<1>6. DOMAIN p = 1 .. n
  BY <1>5, LenProperties
<1> QED BY <1>1, <1>2, <1>3, <1>4, <1>5, <1>6 DEF Frames

LEMMA Pushed ==
    ASSUME NEW s \in Seq(Frames), NEW f \in Frames
    PROVE  /\ Append(s, f) \in Seq(Frames) /\ DOMAIN Append(s, f) = 1 .. Len(s) + 1
           /\ Len(s) \in Nat /\ DOMAIN s = 1 .. Len(s)
           /\ Append(s, f)[Len(s) + 1] = f
           /\ \A k \in 1 .. Len(s) : Append(s, f)[k] = s[k]
<1>1. /\ Append(s, f) \in Seq(Frames) /\ Len(Append(s, f)) = Len(s) + 1
      /\ Append(s, f)[Len(s) + 1] = f
      /\ \A k \in 1 .. Len(s) : Append(s, f)[k] = s[k]
  BY AppendProperties
<1> QED BY <1>1, LenProperties

LEMMA OnCallImport == ASSUME ApplicationAssumption, GraphInv, Setup!CallImport PROVE GraphCore'
<1> DEFINE p == stack[Len(stack)].m
           i == stack[Len(stack)].next
           m == graph.imports[p][i]
           below == SubSeq(stack, 1, Len(stack) - 1)
           s == Append(below, [m |-> p, next |-> i + 1])
<1>1. /\ stack # <<>> /\ body[p] = "running" /\ i <= Len(graph.imports[p])
      /\ \/ /\ body[m] # "none"
            /\ edge' = [edge EXCEPT ![p][i] = "returned"]
            /\ stack' = s /\ UNCHANGED body
         \/ /\ body[m] = "none"
            /\ edge' = [edge EXCEPT ![p][i] = "called"]
            /\ stack' = Append(s, [m |-> m, next |-> 1])
            /\ body' = [body EXCEPT ![m] = "running"]
      /\ UNCHANGED <<graph, boot>>
  BY DEF Setup!CallImport, Setup!On, Setup!Top, Setup!Popped, Setup!Below, Setup!imports, Setup!Entered
<1>t. GraphTyped /\ Entering /\ Imported /\ Reached /\ Booted
  BY DEF GraphInv, GraphCore
<1>2. /\ p \in Modules /\ i \in Nat \ {0} /\ Len(stack) \in DOMAIN stack /\ Len(stack) \in Nat \ {0}
      /\ below \in Seq(Frames) /\ DOMAIN below = 1 .. Len(stack) - 1 /\ Len(below) = Len(stack) - 1
      /\ \A k \in 1 .. Len(stack) - 1 : k \in DOMAIN stack /\ below[k] = stack[k]
  BY <1>1, <1>t, Frames1 DEF GraphTyped
<1>3. /\ m \in Modules /\ i \in DOMAIN graph.imports[p]
      /\ \A q \in Modules : edge[q] \in [DOMAIN graph.imports[q] -> EdgeStates]
  <2>1. graph \in Setup!Graph /\ \A q \in Modules : edge[q] \in [DOMAIN graph.imports[q] -> EdgeStates]
    BY <1>t DEF GraphTyped
  <2>2. /\ Len(graph.imports[p]) \in Nat /\ DOMAIN graph.imports[p] = 1 .. Len(graph.imports[p])
        /\ \A j \in DOMAIN graph.imports[p] : graph.imports[p][j] \in Modules
    BY <1>2, <2>1, ImportsTyped
  <2>3. i \in DOMAIN graph.imports[p]
    BY <1>1, <1>2, <2>2
  <2> QED BY <2>1, <2>2, <2>3
<1>4. PICK f : f = [m |-> p, next |-> i + 1]
  OBVIOUS
<1>5. f \in Frames /\ f.m = p /\ f.next = i + 1
  BY <1>2, <1>4 DEF Frames
<1>6. PICK g : g = [m |-> m, next |-> 1]
  OBVIOUS
<1>7. g \in Frames /\ g.m = m /\ g.next = 1
  BY <1>3, <1>6 DEF Frames
<1>9. /\ s \in Seq(Frames) /\ DOMAIN s = 1 .. Len(stack) /\ s[Len(stack)] = f
      /\ \A k \in 1 .. Len(stack) - 1 : s[k] = stack[k]
  BY <1>2, <1>4, <1>5, Pushed
<1> HIDE DEF p, i, m, below, s
<1>10. Len(s) = Len(stack)
  BY <1>2, <1>9, LenProperties
<1>11. Append(s, g) \in Seq(Frames) /\ DOMAIN Append(s, g) = 1 .. Len(stack) + 1
       /\ Append(s, g)[Len(stack) + 1] = g /\ \A k \in 1 .. Len(stack) : Append(s, g)[k] = s[k]
  BY <1>7, <1>9, <1>10, Pushed
<1>8. \A j \in DOMAIN graph.imports[p] : j >= i => edge[p][j] = "idle"
  <2>1. PICK k : k = Len(stack)
    OBVIOUS
  <2>2. k \in DOMAIN stack /\ stack[k].m = p /\ stack[k].next = i /\ body[stack[k].m] = "running"
    BY <1>1, <1>2, <2>1 DEF p, i
  <2>3. \A j \in DOMAIN graph.imports[stack[k].m] : j >= stack[k].next => edge[stack[k].m][j] = "idle"
    BY <1>t, <2>2 DEF Entering
  <2> QED BY <2>2, <2>3
<1>12. edge[p][i] = "idle"
  BY <1>2, <1>3, <1>8
<1>13. \E e \in {"returned", "called"} :
          /\ edge' = [edge EXCEPT ![p] = [edge[p] EXCEPT ![i] = e]]
          /\ e = "called" <=> body[m] = "none"
  BY <1>1, <1>3, <1>t DEF GraphTyped
<1>14. PICK e \in {"returned", "called"} :
          /\ edge' = [edge EXCEPT ![p] = [edge[p] EXCEPT ![i] = e]]
          /\ e = "called" <=> body[m] = "none"
  BY <1>13
<1>15. /\ DOMAIN edge' = Modules
       /\ \A q \in Modules : edge'[q] \in [DOMAIN graph.imports[q] -> EdgeStates]
       /\ edge'[p][i] = e
       /\ \A q \in Modules : \A j \in DOMAIN graph.imports[q] :
              q # p \/ j # i => edge'[q][j] = edge[q][j]
  BY <1>2, <1>3, <1>14, <1>t DEF GraphTyped, EdgeStates
<1>16. /\ body' \in [Modules -> Setup!Bodies]
       /\ body'[m] # "none" /\ body'[p] # "none"
       /\ \A q \in Modules : q # m \/ body[m] # "none" => body'[q] = body[q]
       /\ body[m] = "none" => body'[m] = "running"
  BY <1>1, <1>2, <1>3, <1>t DEF GraphTyped, Setup!Bodies
<1>17. GraphTyped'
  BY <1>1, <1>6, <1>9, <1>11, <1>15, <1>16, <1>t DEF GraphTyped
<1>18. Entering'
  <2>1. \A k \in 1 .. Len(stack) - 1 : s[k].m # p
    BY <1>2, <1>9, <1>t DEF Entering, p
  <2>2. \A k \in 1 .. Len(stack) : s[k].m \in Modules /\ body[s[k].m] # "none"
    <3>1. \A k \in 1 .. Len(stack) - 1 : body[s[k].m] # "none"
      BY <1>2, <1>9, <1>t DEF Entering
    <3>2. \A k \in 1 .. Len(stack) : s[k] \in Frames
      BY <1>9, <1>10, ElementOfSeq
    <3>3. \A k \in 1 .. Len(stack) : s[k].m \in Modules
      BY <3>2 DEF Frames
    <3>4. s[Len(stack)].m = p /\ body[p] # "none"
      BY <1>1, <1>5, <1>9
    <3>5. \A k \in 1 .. Len(stack) : k = Len(stack) \/ k \in 1 .. Len(stack) - 1
      BY <1>2
    <3> QED BY <3>1, <3>3, <3>4, <3>5
  <2>3. \A k \in 1 .. Len(stack) : body'[s[k].m] = body[s[k].m]
    BY <1>16, <2>2
  <2>4. ASSUME NEW j \in 1 .. Len(stack), NEW k \in 1 .. Len(stack), s[j].m = s[k].m
        PROVE  j = k
    <3>1. s[Len(stack)].m = p
      BY <1>5, <1>9
    <3>2. \A l \in 1 .. Len(stack) : l = Len(stack) \/ l \in 1 .. Len(stack) - 1
      BY <1>2
    <3>3. CASE j = Len(stack) \/ k = Len(stack)
      BY <2>1, <2>4, <3>1, <3>2, <3>3
    <3>4. CASE j \in 1 .. Len(stack) - 1 /\ k \in 1 .. Len(stack) - 1
      <4>1. j \in DOMAIN stack /\ k \in DOMAIN stack /\ stack[j].m = stack[k].m
        BY <1>2, <1>9, <2>4, <3>4
      <4> QED BY <1>t, <4>1 DEF Entering
    <3> QED BY <3>2, <3>3, <3>4
  <2>5. ASSUME NEW k \in 1 .. Len(stack), body[s[k].m] = "running",
               NEW j \in DOMAIN graph.imports[s[k].m], j >= s[k].next
        PROVE  edge'[s[k].m][j] = "idle"
    <3>1. CASE k = Len(stack)
      <4>1. j \in DOMAIN graph.imports[p] /\ j >= i + 1 /\ s[k].m = p
        BY <1>5, <1>9, <2>5, <3>1
      <4>2. j \in Nat /\ j >= i /\ j # i
        BY <1>2, <1>t, <4>1, ImportsTyped DEF GraphTyped
      <4>3. edge[p][j] = "idle"
        BY <1>8, <4>1, <4>2
      <4> QED BY <1>2, <1>15, <4>1, <4>2, <4>3
    <3>2. CASE k # Len(stack)
      <4>1. k \in 1 .. Len(stack) - 1
        BY <1>2, <3>2
      <4>2. s[k] = stack[k] /\ s[k].m # p /\ k \in DOMAIN stack
        BY <1>2, <1>9, <2>1, <4>1
      <4>3. edge[s[k].m][j] = "idle"
        BY <1>t, <2>5, <4>2 DEF Entering
      <4> QED BY <1>15, <2>2, <2>5, <4>2, <4>3
    <3> QED BY <3>1, <3>2
  <2>8. Root \in Modules /\ body'[Root] # "none"
    BY <1>t, <1>16 DEF Entering, ApplicationAssumption, Setup!ModuleGraphAssumption
  <2>9. ASSUME NEW q \in Modules, body'[q] = "none", NEW j \in DOMAIN graph.imports[q]
        PROVE  edge'[q][j] = "idle"
    <3>1. body[q] = "none" /\ q # p
      BY <1>16, <2>9
    <3>2. edge[q][j] = "idle"
      BY <1>t, <2>9, <3>1 DEF Entering
    <3> QED BY <1>15, <2>9, <3>1, <3>2
  <2>6. CASE body[m] # "none"
    <3>1. stack' = s /\ UNCHANGED <<body, graph>>
      BY <1>1, <2>6
    <3> QED BY <1>9, <2>2, <2>4, <2>5, <2>8, <2>9, <3>1 DEF Entering
  <2>7. CASE body[m] = "none"
    <3>1. stack' = Append(s, g) /\ UNCHANGED graph
      BY <1>1, <1>6, <2>7
    <3>2. m # p /\ \A k \in 1 .. Len(stack) : s[k].m # m
      BY <1>1, <2>2, <2>7
    <3>3. \A j \in DOMAIN graph.imports[m] : edge'[m][j] = "idle"
      BY <1>3, <1>15, <1>t, <2>7, <3>2 DEF Entering
    <3>4. PICK t : t = Append(s, g)
      OBVIOUS
    <3>5. /\ DOMAIN t = 1 .. Len(stack) + 1 /\ t[Len(stack) + 1] = g
          /\ \A k \in 1 .. Len(stack) : t[k] = s[k]
      BY <1>11, <3>4
    <3>6. \A k \in DOMAIN t : k \in 1 .. Len(stack) \/ k = Len(stack) + 1
      BY <1>2, <3>5
    <3>7. ASSUME NEW k \in DOMAIN t
          PROVE  /\ body'[t[k].m] # "none"
                 /\ body'[t[k].m] = "running" =>
                      \A j \in DOMAIN graph.imports[t[k].m] : j >= t[k].next => edge'[t[k].m][j] = "idle"
      <4>1. CASE k \in 1 .. Len(stack)
        BY <2>2, <2>3, <2>5, <3>5, <4>1
      <4>2. CASE k = Len(stack) + 1
        BY <1>7, <1>16, <3>3, <3>5, <4>2
      <4> QED BY <3>6, <4>1, <4>2
    <3>8. ASSUME NEW j \in DOMAIN t, NEW k \in DOMAIN t, t[j].m = t[k].m
          PROVE  j = k
      BY <1>7, <2>4, <3>2, <3>5, <3>6, <3>8
    <3> QED BY <2>8, <2>9, <3>1, <3>4, <3>7, <3>8 DEF Entering
  <2> QED BY <2>6, <2>7
<1>19. Imported'
  <2>1. SUFFICES ASSUME NEW q \in Modules, body'[q] \in PastImports, NEW j \in DOMAIN graph.imports[q]
                 PROVE  edge'[q][j] = "applied"
    BY <1>1 DEF Imported
  <2>2. q # m \/ body[m] # "none"
    BY <1>16, <2>1 DEF PastImports
  <2>3. body[q] \in PastImports /\ q # p
    BY <1>1, <1>16, <2>1, <2>2 DEF PastImports
  <2> QED BY <1>15, <1>t, <2>1, <2>3 DEF Imported
<1>20. Reached'
  <2>1. \A q \in Modules : body[q] = "done" => body'[q] = "done"
    BY <1>16
  <2>2. CASE body[m] # "none"
    <3>1. \A q \in Modules : body'[q] # "none" => body[q] # "none"
      BY <1>16, <2>2
    <3>2. PICK none \in SUBSET Modules : none = {}
      OBVIOUS
    <3>3. \A q \in Modules : \A j \in DOMAIN graph.imports[q] :
               edge[q][j] \in {"called", "applied"} => edge'[q][j] = edge[q][j]
      BY <1>12, <1>15
    <3> QED BY <1>1, <1>t, <2>1, <3>1, <3>2, <3>3, ReachedOn
  <2>3. CASE body[m] = "none"
    <3>1. \A q \in Modules : body'[q] # "none" => body[q] # "none" \/ q \in {m}
      BY <1>16
    <3>2. {m} \in SUBSET Modules /\ edge'[p][i] = "called"
      BY <1>3, <1>14, <1>15, <2>3
    <3>3. \A q \in {m} : \E u \in Modules : \E j \in DOMAIN graph.imports[u] :
             /\ body[u] # "none" /\ edge'[u][j] = "called" /\ graph.imports[u][j] = q
      BY <1>1, <1>2, <1>3, <3>2 DEF m
    <3>4. \A q \in Modules : \A j \in DOMAIN graph.imports[q] :
               edge[q][j] \in {"called", "applied"} => edge'[q][j] = edge[q][j]
      BY <1>12, <1>15
    <3> QED BY <1>1, <1>t, <2>1, <3>1, <3>2, <3>3, <3>4, ReachedOn
  <2> QED BY <2>2, <2>3
<1>21. Booted'
  <2>1. Root \in Modules
    BY DEF ApplicationAssumption, Setup!ModuleGraphAssumption
  <2> QED BY <1>1, <1>16, <1>t, <2>1 DEF Booted
<1> QED BY <1>17, <1>18, <1>19, <1>20, <1>21 DEF GraphInv, GraphCore

\* The stack t has what the stack has, and perhaps one frame of p.
Shorter(t, p) ==
    /\ \A k \in DOMAIN t : t[k].m = p \/ (k \in DOMAIN stack /\ t[k] = stack[k])
    /\ \A j, k \in DOMAIN t : t[j].m = t[k].m => j = k

\* A body goes on, without entering another.
LEMMA BodiesGoOn ==
    ASSUME ApplicationAssumption, GraphInv, UNCHANGED <<graph, edge>>,
           NEW p \in Modules, NEW b \in Setup!Bodies \ {"none", "running"},
           body[p] \notin {"none", "done"}, body' = [body EXCEPT ![p] = b],
           b \in PastImports => \A i \in DOMAIN graph.imports[p] : edge[p][i] = "applied",
           NEW t \in Seq(Frames), stack' = t, Shorter(t, p)
    PROVE  GraphTyped' /\ Entering' /\ Imported' /\ Reached'
<1>s. /\ \A k \in DOMAIN stack' : stack'[k].m = p \/ (k \in DOMAIN stack /\ stack'[k] = stack[k])
      /\ \A j, k \in DOMAIN stack' : stack'[j].m = stack'[k].m => j = k
  BY DEF Shorter
<1>t. GraphTyped /\ Entering /\ Imported /\ Reached
  BY DEF GraphInv, GraphCore
<1>1. /\ body' \in [Modules -> Setup!Bodies] /\ body'[p] = b
      /\ \A q \in Modules : q # p => body'[q] = body[q]
  BY <1>t DEF GraphTyped
<1>2. GraphTyped'
  BY <1>1, <1>t DEF GraphTyped
<1>3. Entering'
  <2>3. Root \in Modules /\ body'[Root] # "none"
    BY <1>1, <1>t DEF Entering, ApplicationAssumption, Setup!ModuleGraphAssumption
  <2>4. \A q \in Modules : body'[q] = "none" =>
            \A i \in DOMAIN graph.imports[q] : edge[q][i] = "idle"
    BY <1>1, <1>t DEF Entering
  <2>5. ASSUME NEW k \in DOMAIN stack'
        PROVE  /\ body'[stack'[k].m] # "none"
               /\ body'[stack'[k].m] = "running" =>
                    \A i \in DOMAIN graph.imports[stack'[k].m] :
                        i >= stack'[k].next => edge[stack'[k].m][i] = "idle"
    <3>2. CASE stack'[k].m = p
      BY <1>1, <3>2
    <3>3. CASE stack'[k].m # p
      <4>1. k \in DOMAIN stack /\ stack'[k] = stack[k]
        BY <1>s, <3>3
      <4>2. stack[k].m \in Modules
        <5>1. k \in 1 .. Len(stack)
          BY <1>t, <4>1, LenProperties DEF GraphTyped
        <5>2. stack[k] \in Frames
          BY <1>t, <5>1, ElementOfSeq DEF GraphTyped
        <5> QED BY <5>2 DEF Frames
      <4>3. body'[stack[k].m] = body[stack[k].m]
        BY <1>1, <3>3, <4>1, <4>2
      <4> QED BY <1>t, <4>1, <4>3 DEF Entering
    <3> QED BY <3>2, <3>3
  <2> QED BY <1>s, <2>3, <2>4, <2>5 DEF Entering
<1>4. Imported'
  BY <1>1, <1>t DEF Imported
<1>5. Reached'
  <2>1. \A q \in Modules : body[q] = "done" => body'[q] = "done"
    BY <1>1
  <2>2. \A q \in Modules : body'[q] # "none" => body[q] # "none"
    BY <1>1
  <2>3. PICK none \in SUBSET Modules : none = {}
    OBVIOUS
  <2> QED BY <1>t, <2>1, <2>2, <2>3, ReachedOn
<1> QED BY <1>2, <1>3, <1>4, <1>5

\* No body goes on, but a frame of one that is past its imports may come or go.
LEMMA StackGoesOn ==
    ASSUME ApplicationAssumption, GraphInv, UNCHANGED <<graph, body, edge, boot>>,
           NEW p \in Modules, body[p] \notin {"none", "running"},
           NEW t \in Seq(Frames), stack' = t, Shorter(t, p)
    PROVE  GraphCore'
<1>t. GraphTyped /\ Entering /\ Imported /\ Reached /\ Booted
  BY DEF GraphInv, GraphCore
<1>1. GraphTyped' /\ Imported' /\ Booted'
  BY <1>t DEF GraphTyped, Imported, Booted
<1>2. ASSUME NEW k \in DOMAIN t
      PROVE  /\ body[t[k].m] # "none"
             /\ body[t[k].m] = "running" =>
                  \A i \in DOMAIN graph.imports[t[k].m] : i >= t[k].next => edge[t[k].m][i] = "idle"
  BY <1>t DEF Entering, Shorter
<1>3. Entering'
  BY <1>2, <1>t DEF Entering, Shorter
<1>4. Reached'
  BY <1>t DEF Reached, Closed, Started
<1> QED BY <1>1, <1>3, <1>4 DEF GraphCore

\* What a body leaves of the stack when it ends its stretch of code, or awaits.
LEMMA TopGone ==
    ASSUME GraphTyped, Entering, stack # <<>>,
           NEW f \in Frames, f.m = Setup!Top.m
    PROVE  /\ Setup!Top.m \in Modules
           /\ Setup!Popped \in Seq(Frames) /\ Append(Setup!Popped, f) \in Seq(Frames)
           /\ \A t \in {Setup!Popped, Append(Setup!Popped, f)} : Shorter(t, Setup!Top.m)
<1>p. PICK p : p = Setup!Top.m
  OBVIOUS
<1>r. PICK rest : rest = Setup!Popped
  OBVIOUS
<1>1. /\ Len(stack) \in Nat \ {0} /\ Len(stack) \in DOMAIN stack /\ p \in Modules
      /\ rest \in Seq(Frames) /\ DOMAIN rest = 1 .. Len(stack) - 1 /\ Len(rest) = Len(stack) - 1
      /\ \A k \in 1 .. Len(stack) - 1 : k \in DOMAIN stack /\ rest[k] = stack[k]
  BY <1>p, <1>r, Frames1 DEF GraphTyped, Setup!Top, Setup!Popped, Setup!Below
<1>2. PICK t : t = Append(rest, f)
  OBVIOUS
<1>3. /\ t \in Seq(Frames) /\ DOMAIN t = 1 .. Len(stack) /\ t[Len(stack)] = f
      /\ \A k \in 1 .. Len(stack) - 1 : t[k] = rest[k]
  BY <1>1, <1>2, Pushed
<1>4. \A k \in 1 .. Len(stack) - 1 : rest[k].m # p
  <2>1. PICK n : n = Len(stack)
    OBVIOUS
  <2>2. n \in DOMAIN stack /\ stack[n].m = p /\ \A k \in 1 .. Len(stack) - 1 : k # n
    BY <1>1, <1>p, <2>1 DEF Setup!Top
  <2> QED BY <1>1, <2>2 DEF Entering
<1>5. \A j, k \in DOMAIN rest : rest[j].m = rest[k].m => j = k
  BY <1>1 DEF Entering
<1>6. \A k \in 1 .. Len(stack) : k = Len(stack) \/ k \in 1 .. Len(stack) - 1
  BY <1>1
<1>7. \A k \in DOMAIN t : t[k].m = p \/ (k \in DOMAIN stack /\ t[k] = stack[k])
  BY <1>1, <1>3, <1>6, <1>p
<1>8. ASSUME NEW j \in DOMAIN t, NEW k \in DOMAIN t, t[j].m = t[k].m
      PROVE  j = k
  <2>1. t[Len(stack)].m = p /\ \A l \in 1 .. Len(stack) - 1 : t[l].m = rest[l].m /\ t[l].m # p
    BY <1>3, <1>4, <1>p
  <2>2. CASE j = Len(stack) \/ k = Len(stack)
    BY <1>3, <1>6, <1>8, <2>1, <2>2
  <2>3. CASE j \in 1 .. Len(stack) - 1 /\ k \in 1 .. Len(stack) - 1
    BY <1>1, <1>5, <1>8, <2>1, <2>3
  <2> QED BY <1>3, <1>6, <2>2, <2>3
<1>9. \A k \in DOMAIN rest : rest[k].m = p \/ (k \in DOMAIN stack /\ rest[k] = stack[k])
  BY <1>1
<1>10. Shorter(rest, p) /\ Shorter(t, p)
  BY <1>5, <1>7, <1>8, <1>9 DEF Shorter
<1> QED BY <1>1, <1>2, <1>3, <1>p, <1>r, <1>10

\* The body is past its imports.
LEMMA OnRegisterModule ==
    ASSUME ApplicationAssumption, GraphInv, UNCHANGED <<graph, edge, boot>>,
           NEW p \in Modules, body[p] \notin {"none", "done"},
           NEW rest \in Seq(Frames), Setup!RegisterModule(p, rest),
           \A i \in DOMAIN graph.imports[p] : edge[p][i] = "applied",
           NEW f, f = [m |-> p, next |-> 1], Append(rest, f) \in Seq(Frames),
           \A t \in {rest, Append(rest, f)} : Shorter(t, p)
    PROVE  GraphCore'
<1>1. PICK b \in PastImports : body' = [body EXCEPT ![p] = b]
  BY DEF Setup!RegisterModule, Setup!AfterRegistration, Setup!AfterValidation, PastImports
<1>2. b \in Setup!Bodies \ {"none", "running"}
  BY DEF PastImports, Setup!Bodies
<1>3. stack' \in {rest, Append(rest, f)}
  BY DEF Setup!RegisterModule
<1>4. GraphTyped' /\ Entering' /\ Imported' /\ Reached'
  BY <1>1, <1>2, <1>3, BodiesGoOn
<1>5. Booted'
  BY <1>1 DEF GraphInv, GraphCore, GraphTyped, Booted
<1> QED BY <1>4, <1>5 DEF GraphInv, GraphCore

LEMMA OnEndOfImports == ASSUME ApplicationAssumption, GraphInv, Setup!EndOfImports PROVE GraphCore'
<1>p. PICK p : p = Setup!Top.m
  OBVIOUS
<1>r. PICK rest : rest = Setup!Popped
  OBVIOUS
<1>1. /\ stack # <<>> /\ body[p] = "running" /\ UNCHANGED <<graph, edge, boot>>
      /\ \/ graph.imports[p] = <<>> /\ Setup!RegisterModule(p, rest)
         \/ /\ body' = [body EXCEPT ![p] = "importing"] /\ stack' = rest
  BY <1>p, <1>r DEF Setup!EndOfImports, Setup!On, Setup!imports, Setup!RegisterModule
<1>t. GraphTyped /\ Entering /\ Booted
  BY DEF GraphInv, GraphCore
<1>2. p \in Modules
  <2>1. stack[Len(stack)] \in Frames
    BY <1>1, <1>t, Frames1 DEF GraphTyped
  <2> QED BY <1>p, <2>1 DEF Setup!Top, Frames
<1>3. PICK f : f = [m |-> p, next |-> 1]
  OBVIOUS
<1>4. f \in Frames /\ f.m = p
  BY <1>2, <1>3 DEF Frames
<1>5. /\ rest \in Seq(Frames) /\ Append(rest, f) \in Seq(Frames)
      /\ Shorter(rest, p) /\ Shorter(Append(rest, f), p)
  BY <1>1, <1>4, <1>t, <1>p, <1>r, TopGone
<1>6. CASE graph.imports[p] = <<>> /\ Setup!RegisterModule(p, rest)
  <2>1. \A i \in DOMAIN graph.imports[p] : edge[p][i] = "applied"
    BY <1>6
  <2> QED BY <1>1, <1>2, <1>3, <1>5, <1>6, <2>1, OnRegisterModule
<1>7. CASE body' = [body EXCEPT ![p] = "importing"] /\ stack' = rest
  <2>1. "importing" \in Setup!Bodies \ {"none", "running"} /\ "importing" \notin PastImports
    BY DEF Setup!Bodies, PastImports
  <2>2. GraphTyped' /\ Entering' /\ Imported' /\ Reached'
    BY <1>1, <1>2, <1>5, <1>7, <2>1, BodiesGoOn
  <2>3. Booted'
    BY <1>1, <1>7, <1>t DEF GraphTyped, Booted
  <2> QED BY <2>2, <2>3 DEF GraphInv, GraphCore
<1> QED BY <1>1, <1>6, <1>7

LEMMA OnValidate == ASSUME ApplicationAssumption, GraphInv, Setup!Validate PROVE GraphCore'
<1>p. PICK p : p = Setup!Top.m
  OBVIOUS
<1>r. PICK rest : rest = Setup!Popped
  OBVIOUS
<1>1. /\ stack # <<>> /\ body[p] = "validating" /\ UNCHANGED <<graph, edge, boot>>
      /\ \/ UNCHANGED body
         \/ \E b \in {"hooks", "done", "failed"} : body' = [body EXCEPT ![p] = b]
      /\ stack' = rest
  BY <1>p, <1>r DEF Setup!Validate, Setup!On, Setup!AfterValidation
<1>t. GraphTyped /\ Entering /\ Imported /\ Booted
  BY DEF GraphInv, GraphCore
<1>2. p \in Modules
  <2>1. stack[Len(stack)] \in Frames
    BY <1>1, <1>t, Frames1 DEF GraphTyped
  <2> QED BY <1>p, <2>1 DEF Setup!Top, Frames
<1>3. PICK f : f = [m |-> p, next |-> 1]
  OBVIOUS
<1>4. f \in Frames /\ f.m = p
  BY <1>2, <1>3 DEF Frames
<1>5. rest \in Seq(Frames) /\ Shorter(rest, p)
  BY <1>1, <1>4, <1>t, <1>p, <1>r, TopGone
<1>6. CASE UNCHANGED body
  BY <1>1, <1>2, <1>5, <1>6, StackGoesOn
<1>7. ASSUME NEW b \in {"hooks", "done", "failed"}, body' = [body EXCEPT ![p] = b] PROVE GraphCore'
  <2>1. b \in Setup!Bodies \ {"none", "running"}
    BY DEF Setup!Bodies
  <2>2. \A i \in DOMAIN graph.imports[p] : edge[p][i] = "applied"
    BY <1>1, <1>2, <1>t DEF Imported, PastImports
  <2>3. GraphTyped' /\ Entering' /\ Imported' /\ Reached'
    BY <1>1, <1>2, <1>5, <1>7, <2>1, <2>2, BodiesGoOn
  <2>4. Booted'
    BY <1>1, <1>7, <1>t DEF GraphTyped, Booted
  <2> QED BY <2>3, <2>4 DEF GraphCore
<1> QED BY <1>1, <1>6, <1>7

\* One body goes on while nothing runs synchronously.
LEMMA OneBody ==
    ASSUME ApplicationAssumption, GraphInv, UNCHANGED <<graph, stack, edge, boot>>, stack = <<>>,
           NEW p \in Modules, NEW b \in Setup!Bodies \ {"none", "running"},
           body[p] \notin {"none", "done"}, body' = [body EXCEPT ![p] = b],
           b \in PastImports => body[p] \in PastImports
    PROVE  GraphCore'
<1>1. Shorter(stack, p)
  BY DEF Shorter
<1>2. stack \in Seq(Frames)
  BY DEF GraphInv, GraphCore, GraphTyped
<1>3. b \in PastImports => \A i \in DOMAIN graph.imports[p] : edge[p][i] = "applied"
  BY DEF GraphInv, GraphCore, Imported
<1>4. GraphTyped' /\ Entering' /\ Imported' /\ Reached'
  BY <1>1, <1>2, <1>3, BodiesGoOn
<1>5. Booted'
  BY DEF GraphInv, GraphCore, GraphTyped, Booted
<1> QED BY <1>4, <1>5 DEF GraphInv, GraphCore

\* One frame may be put on the empty stack, or taken off.
LEMMA OneFrame ==
    ASSUME ApplicationAssumption, GraphInv, UNCHANGED <<graph, body, edge, boot>>,
           NEW p \in Modules, body[p] \notin {"none", "running"},
           stack' \in {<<>>, <<[m |-> p, next |-> 1]>>}
    PROVE  GraphCore'
<1>1. PICK f : f = [m |-> p, next |-> 1]
  OBVIOUS
<1>2. PICK t : t = stack'
  OBVIOUS
<1>3. f \in Frames /\ f.m = p /\ t \in {<<>>, <<f>>}
  BY <1>1, <1>2 DEF Frames
<1>4. t \in Seq(Frames) /\ DOMAIN t \subseteq {1} /\ \A k \in DOMAIN t : t[k] = f
  <2>1. CASE t = <<>>
    BY <2>1
  <2>2. CASE t = <<f>>
    <3>1. t \in Seq(Frames) /\ DOMAIN t = {1} /\ t[1] = f
      BY <1>3, <2>2
    <3> QED BY <3>1
  <2> QED BY <1>3, <2>1, <2>2
<1>5. Shorter(t, p)
  BY <1>3, <1>4 DEF Shorter
<1> QED BY <1>2, <1>4, <1>5, StackGoesOn

LEMMA OnImportFails ==
    ASSUME ApplicationAssumption, GraphInv, NEW p \in Modules, NEW i, Setup!ImportFails(p, i)
    PROVE  GraphCore'
<1>1. /\ stack = <<>> /\ UNCHANGED <<graph, stack, edge, boot>>
      /\ body[p] = "importing" /\ body' = [body EXCEPT ![p] = "failed"]
  BY DEF Setup!ImportFails, Setup!Idle
<1>2. "failed" \in Setup!Bodies \ {"none", "running"} /\ "failed" \notin PastImports
  BY DEF Setup!Bodies, PastImports
<1> QED BY <1>1, <1>2, OneBody

LEMMA Seats ==
    ASSUME graph \in Setup!Graph
    PROVE  /\ graph.seat \in [Controllers -> Modules]
           /\ \A p : Setup!Hooked(p) \subseteq Setup!Seated(p) /\ Setup!Validated(p) \subseteq Setup!Seated(p)
           /\ \A p : \A c \in Setup!Seated(p) : c \in Controllers /\ graph.seat[c] = p
BY DEF Setup!Graph, Setup!Hooked, Setup!Validated, Setup!Seated

\* The controllers of a module that are asked for one after the other.
LEMMA OnControllers ==
    ASSUME ApplicationAssumption, GraphInv, NEW c \in Controllers,
           Setup!Checked(c) \/ Setup!HookSettles(c)
    PROVE  GraphCore'
<1>t. asked[c] \in {"validating", "hooking"} /\ stack = <<>> /\ UNCHANGED <<graph, edge, boot>>
  BY DEF Setup!Checked, Setup!HookSettles, Setup!Idle
<1>p. PICK p \in Modules : p = graph.seat[c]
  BY Seats DEF GraphInv, GraphCore, GraphTyped
<1>1. CASE Setup!Checked(c)
  <2>1. UNCHANGED body /\ stack' = <<[m |-> p, next |-> 1]>> /\ asked[c] = "validating"
    BY <1>1, <1>p DEF Setup!Checked
  <2>2. body[p] = "validating"
    BY <1>p, <2>1 DEF GraphInv, Asks
  <2> QED BY <1>t, <2>1, <2>2, OneFrame
<1>2. CASE Setup!HookSettles(c)
  <2>1. /\ asked[c] = "hooking" /\ UNCHANGED stack
        /\ body' = [body EXCEPT ![p] = IF c \in failing THEN "failed"
                  ELSE IF \A d \in Setup!Hooked(p) \ {c} : asked[d] = "hooked" THEN "done"
                  ELSE body[p]]
    BY <1>2, <1>p DEF Setup!HookSettles
  <2>2. /\ body[p] \in {"hooks", "failed"}
        /\ body[p] = "failed" => \E d \in Setup!Hooked(p) : asked[d] = "missing"
    BY <1>p, <2>1 DEF GraphInv, Asks
  <2>3. (\A d \in Setup!Hooked(p) \ {c} : asked[d] = "hooked") => body[p] = "hooks"
    BY <2>1, <2>2
  <2>4. PICK b \in {"failed", "done", body[p]} :
            body' = [body EXCEPT ![p] = b] /\ (b \in PastImports => body[p] \in PastImports)
    BY <2>1, <2>2, <2>3 DEF PastImports
  <2>5. b \in Setup!Bodies \ {"none", "running"}
    BY <2>2 DEF Setup!Bodies
  <2> QED BY <1>t, <2>1, <2>2, <2>4, <2>5, OneBody
<1> QED BY <1>1, <1>2

LEMMA OnSetupHooks ==
    ASSUME ApplicationAssumption, GraphInv, NEW p \in Modules, Setup!SetupHooks(p)
    PROVE  GraphCore'
<1>1. /\ UNCHANGED <<graph, body, edge, boot>> /\ body[p] = "hooks"
      /\ stack' \in {<<>>, <<[m |-> p, next |-> 1]>>}
  BY DEF Setup!SetupHooks
<1> QED BY <1>1, OneFrame

LEMMA OnRegister == ASSUME ApplicationAssumption, GraphInv, NEW p \in Modules, Setup!Register(p)
                    PROVE  GraphCore'
<1>1. /\ stack = <<>> /\ body[p] = "importing" /\ UNCHANGED <<graph, edge, boot>>
      /\ \A i \in DOMAIN edge[p] : edge[p][i] = "applied"
      /\ Setup!RegisterModule(p, <<>>)
  BY DEF Setup!Register, Setup!Idle
<1>2. \A i \in DOMAIN graph.imports[p] : edge[p][i] = "applied"
  BY <1>1 DEF GraphInv, GraphCore, GraphTyped
<1>3. PICK f : f = [m |-> p, next |-> 1]
  OBVIOUS
<1>4. PICK rest : rest = <<>>
  OBVIOUS
<1>5. f \in Frames /\ rest \in Seq(Frames) /\ Len(rest) = 0
  BY <1>3, <1>4, EmptySeq DEF Frames
<1>6. PICK t : t = Append(rest, f)
  OBVIOUS
<1>7. t \in Seq(Frames) /\ DOMAIN t = 1 .. 1 /\ t[1] = f /\ DOMAIN rest = {}
  BY <1>4, <1>5, <1>6, Pushed
<1>8. \A u \in {rest, t} : Shorter(u, p)
  BY <1>3, <1>7 DEF Shorter
<1>9. Setup!RegisterModule(p, rest)
  BY <1>1, <1>4 DEF Setup!RegisterModule
<1> QED BY <1>1, <1>2, <1>3, <1>5, <1>6, <1>7, <1>8, <1>9, OnRegisterModule

\* An import that has waited for a body saw it done.
LEMMA OnImportSettles ==
    ASSUME ApplicationAssumption, GraphInv, NEW p \in Modules, NEW i \in DOMAIN edge[p],
           Setup!ImportSettles(p, i)
    PROVE  GraphCore'
<1>t. GraphTyped /\ Entering /\ Imported /\ Reached /\ Booted
  BY DEF GraphInv, GraphCore
<1>1. /\ stack = <<>> /\ UNCHANGED <<graph, stack, body, boot>>
      /\ \/ edge[p][i] = "returned"
         \/ edge[p][i] = "called" /\ body[graph.imports[p][i]] = "done"
      /\ edge' = [edge EXCEPT ![p][i] = "applied"]
  BY DEF Setup!ImportSettles, Setup!Settled, Setup!Idle, Setup!imports
<1>2. i \in DOMAIN graph.imports[p] /\ edge[p] \in [DOMAIN graph.imports[p] -> EdgeStates]
  BY <1>t DEF GraphTyped
<1>3. edge' = [edge EXCEPT ![p] = [edge[p] EXCEPT ![i] = "applied"]]
  BY <1>1
<1>4. /\ DOMAIN edge' = Modules
      /\ \A q \in Modules : edge'[q] \in [DOMAIN graph.imports[q] -> EdgeStates]
      /\ edge'[p][i] = "applied"
      /\ \A q \in Modules : \A j \in DOMAIN graph.imports[q] :
             q # p \/ j # i => edge'[q][j] = edge[q][j]
  BY <1>2, <1>3, <1>t DEF GraphTyped, EdgeStates
<1>5. GraphTyped'
  BY <1>1, <1>4, <1>t DEF GraphTyped
<1>6. Entering'
  <2>1. body[p] # "none"
    BY <1>1, <1>2, <1>t DEF Entering
  <2> QED BY <1>1, <1>4, <1>t, <2>1 DEF Entering
<1>7. Imported'
  BY <1>1, <1>4, <1>t DEF Imported
<1>8. Reached'
  <2>1. PICK none \in SUBSET Modules : none = {}
    OBVIOUS
  <2>2. \A q \in Modules : \A j \in DOMAIN graph.imports[q] :
               edge[q][j] \in {"called", "applied"} /\ edge'[q][j] # edge[q][j] =>
                   edge[q][j] = "called" /\ edge'[q][j] = "applied" /\ body[graph.imports[q][j]] = "done"
    BY <1>1, <1>4
  <2> QED BY <1>1, <1>t, <2>1, <2>2, ReachedOn
<1>9. Booted'
  BY <1>1, <1>t DEF Booted
<1> QED BY <1>5, <1>6, <1>7, <1>8, <1>9 DEF GraphInv, GraphCore

LEMMA OnBoot ==
    ASSUME GraphInv, UNCHANGED <<graph, stack, body, edge>>,
           boot' \in {"providers", "ok"} => boot \in {"providers", "ok"} \/ body[Root] = "done"
    PROVE  GraphCore'
<1>1. GraphTyped' /\ Entering' /\ Imported' /\ Booted'
  BY DEF GraphInv, GraphCore, GraphTyped, Entering, Imported, Booted
<1>2. Reached'
  BY DEF GraphInv, GraphCore, Reached, Closed, Started
<1> QED BY <1>1, <1>2 DEF GraphInv, GraphCore

LEMMA CoreStep == ASSUME ApplicationAssumption, GraphInv, [Setup!Next]_setup PROVE GraphCore'
<1>1. CASE UNCHANGED setup
  BY <1>1, OnBoot DEF setup
<1>2. CASE \/ Setup!ModulesSettle \/ Setup!Boots \/ Setup!Descend
           \/ \E t \in Tokens : Setup!LoadProvider(t)
           \/ \E c \in Controllers : Setup!LoadController(c)
           \/ \E c \in Setup!Callers : Setup!Load(c)
  <2>1. /\ UNCHANGED <<graph, stack, body, edge>>
        /\ boot' \in {"providers", "ok"} => boot \in {"providers", "ok"} \/ body[Root] = "done"
    BY <1>2 DEF Setup!ModulesSettle, Setup!Boots, Setup!LoadProvider, Setup!LoadController,
       Setup!Descend, Setup!Load, Setup!Loading
  <2> QED BY <2>1, OnBoot
<1>3. CASE Setup!CallImport \/ Setup!EndOfImports \/ Setup!Validate
  BY <1>3, OnCallImport, OnEndOfImports, OnValidate
<1>4. ASSUME NEW p \in Modules,
             \/ Setup!Register(p) \/ Setup!SetupHooks(p)
             \/ \E i \in DOMAIN edge[p] : Setup!ImportSettles(p, i) \/ Setup!ImportFails(p, i)
      PROVE  GraphCore'
  BY <1>4, OnRegister, OnSetupHooks, OnImportSettles, OnImportFails
<1>5. ASSUME NEW c \in Controllers, Setup!Checked(c) \/ Setup!HookSettles(c) PROVE GraphCore'
  BY <1>5, OnControllers
<1> QED BY <1>1, <1>2, <1>3, <1>4, <1>5 DEF Setup!Next

OnList(s, q) == \E k \in DOMAIN s : s[k].m = q

\* Nobody is asked; the bodies that wait for their controllers stay where they are.
LEMMA AsksStay ==
    ASSUME GraphInv, UNCHANGED <<graph, asked>>,
           \A q \in Modules : body'[q] = body[q] \/ body[q] \notin {"validating", "hooks", "failed"},
           \A k \in DOMAIN stack' : OnList(stack, stack'[k].m) \/ body[stack'[k].m] # "validating"
    PROVE  Asks'
<1>1. /\ graph.seat \in [Controllers -> Modules] /\ Asks
      /\ \A p : Setup!Hooked(p)' = Setup!Hooked(p) /\ Setup!Validated(p)' = Setup!Validated(p)
  BY Seats DEF GraphInv, GraphCore, GraphTyped, Setup!Hooked, Setup!Validated, Setup!Seated, Setup!Provided
<1>2. ASSUME NEW c \in Controllers
      PROVE  /\ asked[c] = "validating" =>
                  /\ body'[graph.seat[c]] = "validating" /\ c \in Setup!Validated(graph.seat[c])
                  /\ \A k \in DOMAIN stack' : stack'[k].m # graph.seat[c]
             /\ asked[c] = "hooking" =>
                  /\ body'[graph.seat[c]] \in {"hooks", "failed"} /\ c \in Setup!Hooked(graph.seat[c])
                  /\ body'[graph.seat[c]] = "failed" =>
                       \E d \in Setup!Hooked(graph.seat[c]) : asked[d] = "missing"
  <2>1. graph.seat[c] \in Modules
    BY <1>1
  <2>2. ASSUME asked[c] = "validating", NEW k \in DOMAIN stack' PROVE stack'[k].m # graph.seat[c]
    <3>1. body[graph.seat[c]] = "validating" /\ ~OnList(stack, graph.seat[c])
      BY <1>1, <2>2 DEF Asks, OnList
    <3> QED BY <3>1
  <2>3. asked[c] = "validating" =>
           body'[graph.seat[c]] = "validating" /\ c \in Setup!Validated(graph.seat[c])
    BY <1>1, <2>1 DEF Asks
  <2>4. asked[c] = "hooking" => body'[graph.seat[c]] = body[graph.seat[c]]
    BY <1>1, <2>1 DEF Asks
  <2> QED BY <1>1, <2>2, <2>3, <2>4 DEF Asks
<1>3. \A c, d \in Controllers :
         asked[c] = "validating" /\ asked[d] = "validating" /\ graph.seat[c] = graph.seat[d] => c = d
  BY <1>1 DEF Asks
<1> QED BY <1>1, <1>2, <1>3 DEF Asks

LEMMA AsksOnCall == ASSUME ApplicationAssumption, GraphInv, Setup!CallImport PROVE Asks'
<1>p. PICK p : p = Setup!Top.m
  OBVIOUS
<1>i. PICK i : i = Setup!Top.next
  OBVIOUS
<1>m. PICK m : m = graph.imports[p][i]
  OBVIOUS
<1>f. PICK f : f = [m |-> p, next |-> i + 1]
  OBVIOUS
<1>g. PICK g : g = [m |-> m, next |-> 1]
  OBVIOUS
<1>s. PICK s : s = Append(Setup!Popped, f)
  OBVIOUS
<1>1. /\ stack # <<>> /\ body[p] = "running" /\ i <= Len(graph.imports[p])
      /\ UNCHANGED <<graph, asked>>
      /\ \/ stack' = s /\ UNCHANGED body
         \/ /\ body[m] = "none" /\ stack' = Append(s, g)
            /\ body' = [body EXCEPT ![m] = "running"]
  BY <1>p, <1>i, <1>m, <1>f, <1>g, <1>s DEF Setup!CallImport, Setup!On, Setup!imports, Setup!Entered
<1>t. GraphTyped /\ Entering
  BY DEF GraphInv, GraphCore
<1>2. p \in Modules /\ i \in Nat \ {0}
  BY <1>1, <1>t, <1>p, <1>i, Frames1 DEF GraphTyped, Setup!Top
<1>3. m \in Modules
  <2>1. /\ Len(graph.imports[p]) \in Nat /\ DOMAIN graph.imports[p] = 1 .. Len(graph.imports[p])
        /\ \A j \in DOMAIN graph.imports[p] : graph.imports[p][j] \in Modules
    BY <1>2, <1>t, ImportsTyped DEF GraphTyped
  <2>2. i \in DOMAIN graph.imports[p]
    BY <1>1, <1>2, <2>1
  <2> QED BY <1>m, <2>1, <2>2
<1>4. f \in Frames /\ f.m = p /\ g \in Frames /\ g.m = m
  BY <1>2, <1>3, <1>f, <1>g DEF Frames
<1>5. s \in Seq(Frames) /\ Shorter(s, p)
  BY <1>1, <1>4, <1>t, <1>p, <1>s, TopGone
<1>6. \A k \in DOMAIN s : OnList(stack, s[k].m) \/ body[s[k].m] # "validating"
  BY <1>1, <1>5 DEF Shorter, OnList
<1>7. \A k \in DOMAIN stack' : OnList(stack, stack'[k].m) \/ body[stack'[k].m] # "validating"
  <2>1. CASE stack' = s
    BY <1>6, <2>1
  <2>2. CASE body[m] = "none" /\ stack' = Append(s, g)
    <3>1. PICK t : t = Append(s, g)
      OBVIOUS
    <3>2. /\ DOMAIN t = 1 .. Len(s) + 1 /\ DOMAIN s = 1 .. Len(s) /\ Len(s) \in Nat
          /\ t[Len(s) + 1] = g /\ \A k \in 1 .. Len(s) : t[k] = s[k]
      BY <1>4, <1>5, <3>1, Pushed
    <3>3. \A k \in DOMAIN t : k \in DOMAIN s \/ k = Len(s) + 1
      BY <3>2
    <3>4. \A k \in DOMAIN t : OnList(stack, t[k].m) \/ body[t[k].m] # "validating"
      BY <1>4, <1>6, <2>2, <3>2, <3>3
    <3> QED BY <2>2, <3>1, <3>4
  <2> QED BY <1>1, <2>1, <2>2
<1>8. \A q \in Modules : body'[q] = body[q] \/ body[q] \notin {"validating", "hooks", "failed"}
  BY <1>1, <1>3, <1>t DEF GraphTyped
<1> QED BY <1>1, <1>7, <1>8, AsksStay

\* The frames that a module body leaves when it registers, awaits, or validates.
LEMMA AsksOnEnd == ASSUME ApplicationAssumption, GraphInv, Setup!EndOfImports PROVE Asks'
<1>p. PICK p : p = Setup!Top.m
  OBVIOUS
<1>f. PICK f : f = [m |-> p, next |-> 1]
  OBVIOUS
<1>r. PICK rest : rest = Setup!Popped
  OBVIOUS
<1>1. /\ stack # <<>> /\ body[p] = "running" /\ UNCHANGED <<graph, asked>>
      /\ stack' \in {rest, Append(rest, f)} /\ \E b : body' = [body EXCEPT ![p] = b]
  BY <1>p, <1>f, <1>r DEF Setup!EndOfImports, Setup!On, Setup!RegisterModule
<1>t. GraphTyped /\ Entering
  BY DEF GraphInv, GraphCore
<1>2. p \in Modules
  BY <1>1, <1>t, <1>p, Frames1 DEF GraphTyped, Setup!Top
<1>3. f \in Frames /\ f.m = p
  BY <1>2, <1>f DEF Frames
<1>4. PICK t : t = stack'
  OBVIOUS
<1>5. Shorter(t, p)
  BY <1>1, <1>3, <1>4, <1>t, <1>p, <1>r, TopGone
<1>6. \A k \in DOMAIN stack' : OnList(stack, stack'[k].m) \/ body[stack'[k].m] # "validating"
  BY <1>1, <1>4, <1>5 DEF Shorter, OnList
<1>7. \A q \in Modules : body'[q] = body[q] \/ body[q] \notin {"validating", "hooks", "failed"}
  BY <1>1, <1>t DEF GraphTyped
<1> QED BY <1>1, <1>6, <1>7, AsksStay

LEMMA AsksOnValidate == ASSUME ApplicationAssumption, GraphInv, Setup!Validate PROVE Asks'
<1>p. PICK p : p = Setup!Top.m
  OBVIOUS
<1>f. PICK f : f = [m |-> p, next |-> 1]
  OBVIOUS
<1>r. PICK t : t = Setup!Popped
  OBVIOUS
<1>1. /\ stack # <<>> /\ body[p] = "validating" /\ UNCHANGED graph /\ stack' = t
      /\ \/ \E c \in Setup!Unchecked(p) : asked' = [asked EXCEPT ![c] = "validating"] /\ UNCHANGED body
         \/ /\ \E b \in {"failed", "hooks", "done"} : body' = [body EXCEPT ![p] = b]
            /\ UNCHANGED asked
  BY <1>p, <1>r DEF Setup!Validate, Setup!On, Setup!AfterValidation
<1>t. GraphTyped /\ Entering /\ Asks
  BY DEF GraphInv, GraphCore
<1>2. /\ p \in Modules /\ OnList(stack, p)
      /\ \A c \in Controllers : asked[c] = "validating" => graph.seat[c] # p
  <2>1. PICK n : n = Len(stack)
    OBVIOUS
  <2>2. n \in DOMAIN stack /\ p = stack[n].m /\ stack[n].m \in Modules
    BY <1>1, <1>t, <1>p, <2>1, Frames1 DEF GraphTyped, Setup!Top
  <2> QED BY <1>t, <2>2 DEF Asks, OnList
<1>3. f \in Frames /\ f.m = p
  BY <1>2, <1>f DEF Frames
<1>4. Shorter(t, p) /\ t \in Seq(Frames)
  BY <1>1, <1>3, <1>t, <1>p, <1>r, TopGone
<1>5. ASSUME UNCHANGED asked, NEW b \in {"failed", "hooks", "done"}, body' = [body EXCEPT ![p] = b]
      PROVE  Asks'
  <2>1. graph.seat \in [Controllers -> Modules]
    BY <1>t, Seats DEF GraphTyped
  <2>2. \A c \in Controllers : asked[c] \in {"validating", "hooking"} =>
            body'[graph.seat[c]] = body[graph.seat[c]] /\ graph.seat[c] # p
    BY <1>1, <1>2, <1>5, <1>t, <2>1 DEF Asks, GraphTyped
  <2>3. ASSUME NEW c \in Controllers, asked[c] = "validating", NEW k \in DOMAIN t
        PROVE  t[k].m # graph.seat[c]
    BY <1>t, <1>4, <2>2, <2>3 DEF Shorter, Asks
  <2>4. \A q : Setup!Hooked(q)' = Setup!Hooked(q) /\ Setup!Validated(q)' = Setup!Validated(q)
    BY <1>1 DEF Setup!Hooked, Setup!Validated, Setup!Seated, Setup!Provided
  <2>5. \A c \in Controllers : asked[c] = "validating" => \A k \in DOMAIN t : t[k].m # graph.seat[c]
    BY <2>3
  <2> QED BY <1>1, <1>5, <1>t, <2>2, <2>4, <2>5 DEF Asks
<1>6. ASSUME NEW c \in Setup!Unchecked(p), asked' = [asked EXCEPT ![c] = "validating"], UNCHANGED body
      PROVE  Asks'
  <2>1. /\ graph.seat \in [Controllers -> Modules]
        /\ c \in Controllers /\ graph.seat[c] = p /\ c \in Setup!Validated(p) /\ asked[c] = "no"
    BY <1>6, <1>t, Seats DEF GraphTyped, Setup!Unchecked
  <2>2. /\ asked' \in [Controllers -> AskStates] /\ asked'[c] = "validating"
        /\ \A d \in Controllers : d # c => asked'[d] = asked[d]
    BY <1>6, <1>t, <2>1 DEF Asks, AskStates
  <2>3. \A q : Setup!Hooked(q)' = Setup!Hooked(q) /\ Setup!Validated(q)' = Setup!Validated(q)
    BY <1>1 DEF Setup!Hooked, Setup!Validated, Setup!Seated, Setup!Provided
  <2>4. \A k \in DOMAIN t : t[k].m # p
    <3>1. PICK rest : rest = SubSeq(stack, 1, Len(stack) - 1)
      OBVIOUS
    <3>2. /\ t = rest /\ p = stack[Len(stack)].m
      BY <1>p, <1>r, <3>1 DEF Setup!Popped, Setup!Below, Setup!Top
    <3>3. /\ Len(stack) \in Nat \ {0} /\ Len(stack) \in DOMAIN stack
          /\ DOMAIN rest = 1 .. Len(stack) - 1
          /\ \A k \in 1 .. Len(stack) - 1 : k \in DOMAIN stack /\ rest[k] = stack[k]
      BY <1>1, <1>t, <3>1, Frames1 DEF GraphTyped
    <3>4. PICK n : n = Len(stack)
      OBVIOUS
    <3>5. \A k \in 1 .. n - 1 : k # n
      BY <3>3, <3>4
    <3> QED BY <1>t, <3>2, <3>3, <3>4, <3>5 DEF Entering
  <2>5. ASSUME NEW d \in Controllers, asked'[d] = "validating", NEW k \in DOMAIN t
        PROVE  t[k].m # graph.seat[d]
    <3>1. CASE d = c
      BY <2>1, <2>4, <3>1
    <3>2. CASE d # c
      <4>1. asked[d] = "validating"
        BY <2>2, <2>5, <3>2
      <4>2. graph.seat[d] # p
        BY <1>2, <4>1
      <4> QED BY <1>4, <1>t, <4>1, <4>2 DEF Shorter, Asks
    <3> QED BY <3>1, <3>2
  <2>6. \A d, e \in Controllers :
           asked'[d] = "validating" /\ asked'[e] = "validating" /\ graph.seat[d] = graph.seat[e] => d = e
    BY <1>2, <1>t, <2>1, <2>2 DEF Asks
  <2>7. \A d \in Controllers : asked[d] = "missing" => asked'[d] = "missing"
    BY <2>1, <2>2
  <2>8. ASSUME NEW d \in Controllers, asked'[d] = "hooking"
        PROVE  /\ body[graph.seat[d]] \in {"hooks", "failed"} /\ d \in Setup!Hooked(graph.seat[d])
               /\ body[graph.seat[d]] = "failed" =>
                    \E e \in Setup!Hooked(graph.seat[d]) : asked'[e] = "missing"
    <3>1. asked[d] = "hooking"
      BY <2>2, <2>8
    <3>2. Setup!Hooked(graph.seat[d]) \subseteq Controllers
      BY DEF Setup!Hooked, Setup!Seated
    <3> QED BY <1>t, <2>7, <3>1, <3>2 DEF Asks
  <2>9. ASSUME NEW d \in Controllers, asked'[d] = "validating"
        PROVE  body[graph.seat[d]] = "validating" /\ d \in Setup!Validated(graph.seat[d])
    BY <1>1, <1>t, <2>1, <2>2, <2>9 DEF Asks
  <2>10. \A d \in Controllers : asked'[d] = "validating" => \A k \in DOMAIN t : t[k].m # graph.seat[d]
    BY <2>5
  <2> QED BY <1>1, <1>6, <2>2, <2>3, <2>6, <2>8, <2>9, <2>10 DEF Asks
<1> QED BY <1>1, <1>5, <1>6

\* A controller is asked for, or has its answer; what others of its module have been told stays.
LEMMA AsksOne ==
    ASSUME GraphInv, UNCHANGED graph, NEW c \in Controllers, NEW a \in AskStates \ {"validating"},
           asked' = [asked EXCEPT ![c] = a], asked[c] # "missing",
           \A q \in Modules : body'[q] = body[q] \/ q = graph.seat[c],
           \A k \in DOMAIN stack' : OnList(stack, stack'[k].m) \/ stack'[k].m = graph.seat[c],
           \A d \in Controllers : d # c /\ graph.seat[d] = graph.seat[c] => asked[d] # "validating",
           \A d \in Controllers : asked'[d] = "hooking" /\ graph.seat[d] = graph.seat[c] =>
               /\ body'[graph.seat[c]] \in {"hooks", "failed"} /\ d \in Setup!Hooked(graph.seat[c])
               /\ body'[graph.seat[c]] = "failed" =>
                    \E e \in Setup!Hooked(graph.seat[c]) : asked'[e] = "missing"
    PROVE  Asks'
<1>1. /\ graph.seat \in [Controllers -> Modules] /\ Asks
      /\ \A p : Setup!Hooked(p)' = Setup!Hooked(p) /\ Setup!Validated(p)' = Setup!Validated(p)
      /\ \A p : Setup!Hooked(p) \subseteq Controllers
  BY Seats DEF GraphInv, GraphCore, GraphTyped, Setup!Hooked, Setup!Validated, Setup!Seated, Setup!Provided
<1>2. /\ asked' \in [Controllers -> AskStates] /\ asked'[c] = a
      /\ \A d \in Controllers : d # c => asked'[d] = asked[d]
  BY <1>1 DEF Asks
<1>3. ASSUME NEW d \in Controllers, asked'[d] = "validating"
      PROVE  /\ body'[graph.seat[d]] = "validating" /\ d \in Setup!Validated(graph.seat[d])
             /\ \A k \in DOMAIN stack' : stack'[k].m # graph.seat[d]
  <2>1. d # c /\ asked[d] = "validating" /\ graph.seat[d] # graph.seat[c] /\ graph.seat[d] \in Modules
    BY <1>1, <1>2, <1>3
  <2>2. ~OnList(stack, graph.seat[d])
    BY <1>1, <2>1 DEF Asks, OnList
  <2> QED BY <1>1, <2>1, <2>2 DEF Asks
<1>4. ASSUME NEW d \in Controllers, asked'[d] = "hooking"
      PROVE  /\ body'[graph.seat[d]] \in {"hooks", "failed"} /\ d \in Setup!Hooked(graph.seat[d])
             /\ body'[graph.seat[d]] = "failed" =>
                  \E e \in Setup!Hooked(graph.seat[d]) : asked'[e] = "missing"
  <2>1. CASE graph.seat[d] = graph.seat[c]
    BY <1>4, <2>1
  <2>2. CASE graph.seat[d] # graph.seat[c]
    <3>1. d # c /\ asked[d] = "hooking" /\ graph.seat[d] \in Modules
      BY <1>1, <1>2, <1>4, <2>2
    <3>2. body'[graph.seat[d]] = body[graph.seat[d]]
      BY <2>2, <3>1
    <3>3. \A e \in Setup!Hooked(graph.seat[d]) : asked[e] = "missing" => asked'[e] = "missing"
      BY <1>1, <1>2
    <3> QED BY <1>1, <3>1, <3>2, <3>3 DEF Asks
  <2> QED BY <2>1, <2>2
<1>5. \A d, e \in Controllers :
         asked'[d] = "validating" /\ asked'[e] = "validating" /\ graph.seat[d] = graph.seat[e] => d = e
  BY <1>1, <1>2 DEF Asks
<1> QED BY <1>1, <1>2, <1>3, <1>4, <1>5 DEF Asks

LEMMA AsksOnControllers ==
    ASSUME ApplicationAssumption, GraphInv, NEW c \in Controllers,
           Setup!Checked(c) \/ Setup!HookSettles(c)
    PROVE  Asks'
<1>p. PICK p \in Modules : p = graph.seat[c]
  BY Seats DEF GraphInv, GraphCore, GraphTyped
<1>t. Asks /\ GraphTyped /\ UNCHANGED graph
  BY DEF GraphInv, GraphCore, Setup!Checked, Setup!HookSettles
<1>h. Setup!Hooked(p) \subseteq Controllers
  BY <1>t, Seats DEF GraphTyped, Setup!Hooked, Setup!Seated
<1>1. CASE Setup!Checked(c)
  <2>1. /\ asked[c] = "validating" /\ UNCHANGED body /\ stack' = <<[m |-> p, next |-> 1]>>
        /\ \E a \in {"missing", "found"} : asked' = [asked EXCEPT ![c] = a]
    BY <1>1, <1>p DEF Setup!Checked
  <2>2. PICK a \in {"missing", "found"} : asked' = [asked EXCEPT ![c] = a]
    BY <2>1
  <2>3. a \in AskStates \ {"validating"}
    BY DEF AskStates
  <2>4. body[p] = "validating" /\ \A d \in Controllers : d # c /\ graph.seat[d] = p => asked[d] # "validating"
    BY <1>p, <1>t, <2>1 DEF Asks
  <2>5. \A d \in Controllers : graph.seat[d] = p => asked'[d] # "hooking"
    BY <1>t, <2>2, <2>4 DEF Asks
  <2>6. \A k \in DOMAIN stack' : stack'[k].m = p
    BY <2>1
  <2> QED BY <1>p, <1>t, <2>1, <2>2, <2>3, <2>4, <2>5, <2>6, AsksOne
<1>2. CASE Setup!HookSettles(c)
  <2>1. /\ asked[c] = "hooking" /\ UNCHANGED stack
        /\ asked' = [asked EXCEPT ![c] = IF c \in failing THEN "missing" ELSE "hooked"]
        /\ body' = [body EXCEPT ![p] = IF c \in failing THEN "failed"
                  ELSE IF \A d \in Setup!Hooked(p) \ {c} : asked[d] = "hooked" THEN "done"
                  ELSE body[p]]
    BY <1>2, <1>p DEF Setup!HookSettles
  <2>2. PICK a \in {"missing", "hooked"} : /\ asked' = [asked EXCEPT ![c] = a]
                                           /\ c \in failing <=> a = "missing"
    BY <2>1
  <2>3. a \in AskStates \ {"validating"}
    BY DEF AskStates
  <2>4. /\ body[p] \in {"hooks", "failed"} /\ c \in Setup!Hooked(p)
        /\ \A d \in Controllers : graph.seat[d] = p => asked[d] # "validating"
        /\ body[p] = "failed" => \E d \in Setup!Hooked(p) : asked[d] = "missing"
    BY <1>p, <1>t, <2>1 DEF Asks
  <2>5. /\ asked'[c] = a /\ \A d \in Controllers : d # c => asked'[d] = asked[d]
        /\ \A q \in Modules : body'[q] = body[q] \/ q = p
        /\ body'[p] = IF c \in failing THEN "failed"
                  ELSE IF \A d \in Setup!Hooked(p) \ {c} : asked[d] = "hooked" THEN "done"
                  ELSE body[p]
    BY <1>t, <2>1, <2>2 DEF Asks, GraphTyped
  <2>6. ASSUME NEW d \in Controllers, asked'[d] = "hooking", graph.seat[d] = p
        PROVE  /\ body'[p] \in {"hooks", "failed"} /\ d \in Setup!Hooked(p)
               /\ body'[p] = "failed" => \E e \in Setup!Hooked(p) : asked'[e] = "missing"
    <3>1. d # c /\ asked[d] = "hooking" /\ d \in Setup!Hooked(p)
      BY <1>t, <2>2, <2>5, <2>6 DEF Asks
    <3>2. ~ \A e \in Setup!Hooked(p) \ {c} : asked[e] = "hooked"
      BY <3>1
    <3>3. CASE c \in failing
      <4>1. body'[p] = "failed" /\ asked'[c] = "missing"
        BY <2>2, <2>5, <3>3
      <4> QED BY <2>4, <3>1, <4>1
    <3>4. CASE c \notin failing
      <4>1. body'[p] = body[p]
        BY <2>5, <3>2, <3>4
      <4>2. \A e \in Setup!Hooked(p) : asked[e] = "missing" => asked'[e] = "missing"
        BY <1>h, <2>1, <2>5
      <4> QED BY <2>4, <3>1, <4>1, <4>2
    <3> QED BY <3>3, <3>4
  <2>7. \A k \in DOMAIN stack' : OnList(stack, stack'[k].m)
    BY <2>1 DEF OnList
  <2>8. \A d \in Controllers : asked'[d] = "hooking" /\ graph.seat[d] = graph.seat[c] =>
           /\ body'[graph.seat[c]] \in {"hooks", "failed"} /\ d \in Setup!Hooked(graph.seat[c])
           /\ body'[graph.seat[c]] = "failed" =>
                \E e \in Setup!Hooked(graph.seat[c]) : asked'[e] = "missing"
    BY <1>p, <2>6
  <2>9. \A d \in Controllers : d # c /\ graph.seat[d] = graph.seat[c] => asked[d] # "validating"
    BY <1>p, <2>4
  <2>10. \A q \in Modules : body'[q] = body[q] \/ q = graph.seat[c]
    BY <1>p, <2>5
  <2> QED BY <1>t, <2>1, <2>2, <2>3, <2>7, <2>8, <2>9, <2>10, AsksOne
<1> QED BY <1>1, <1>2

LEMMA AsksOnHooks ==
    ASSUME ApplicationAssumption, GraphInv, NEW p \in Modules, Setup!SetupHooks(p)
    PROVE  Asks'
<1>t. Asks /\ GraphTyped
  BY DEF GraphInv, GraphCore
<1>1. /\ UNCHANGED <<graph, body>> /\ body[p] = "hooks"
      /\ stack' \in {<<>>, <<[m |-> p, next |-> 1]>>}
      /\ \E c \in Setup!Unhooked(p) : asked' = [asked EXCEPT ![c] = "hooking"]
  BY DEF Setup!SetupHooks
<1>2. PICK c \in Setup!Unhooked(p) : asked' = [asked EXCEPT ![c] = "hooking"]
  BY <1>1
<1>3. c \in Controllers /\ graph.seat[c] = p /\ c \in Setup!Hooked(p) /\ asked[c] \in {"no", "found"}
  BY <1>t, Seats DEF GraphTyped, Setup!Unhooked
<1>4. "hooking" \in AskStates \ {"validating"}
  BY DEF AskStates
<1>5. \A k \in DOMAIN stack' : stack'[k].m = p
  <2>1. CASE stack' = <<>>
    BY <2>1
  <2>2. CASE stack' = <<[m |-> p, next |-> 1]>>
    BY <2>2
  <2> QED BY <1>1, <2>1, <2>2
<1>6. \A d \in Controllers : graph.seat[d] = p => asked[d] # "validating"
  BY <1>1, <1>t DEF Asks
<1>7. \A d \in Controllers : asked'[d] = "hooking" /\ graph.seat[d] = p => d \in Setup!Hooked(p)
  BY <1>2, <1>3, <1>t DEF Asks
<1> QED BY <1>1, <1>2, <1>3, <1>4, <1>5, <1>6, <1>7, AsksOne

LEMMA AsksStep == ASSUME ApplicationAssumption, GraphInv, [Setup!Next]_setup PROVE Asks'
<1>t. GraphTyped
  BY DEF GraphInv, GraphCore
<1>1. CASE UNCHANGED <<graph, asked, body, stack>>
  <2>1. \A k \in DOMAIN stack' : OnList(stack, stack'[k].m)
    BY <1>1 DEF OnList
  <2> QED BY <1>1, <2>1, AsksStay
<1>2. CASE \/ Setup!ModulesSettle \/ Setup!Boots \/ Setup!Descend
           \/ \E t \in Tokens : Setup!LoadProvider(t)
           \/ \E c \in Controllers : Setup!LoadController(c)
           \/ \E c \in Setup!Callers : Setup!Load(c)
           \/ \E p \in Modules : \E i \in DOMAIN edge[p] : Setup!ImportSettles(p, i)
  BY <1>1, <1>2 DEF Setup!ModulesSettle, Setup!Boots, Setup!LoadProvider, Setup!LoadController,
     Setup!Descend, Setup!Load, Setup!Loading, Setup!ImportSettles
<1>3. CASE Setup!CallImport \/ Setup!EndOfImports \/ Setup!Validate
  BY <1>3, AsksOnCall, AsksOnEnd, AsksOnValidate
<1>4. ASSUME NEW p \in Modules, Setup!Register(p) \/ \E i \in DOMAIN edge[p] : Setup!ImportFails(p, i)
      PROVE  Asks'
  <2>1. /\ UNCHANGED <<graph, asked>> /\ body[p] = "importing" /\ stack = <<>>
        /\ \E b : body' = [body EXCEPT ![p] = b]
    BY <1>4 DEF Setup!Register, Setup!RegisterModule, Setup!ImportFails, Setup!Idle
  <2>2. \A q \in Modules : body'[q] = body[q] \/ body[q] \notin {"validating", "hooks", "failed"}
    BY <1>t, <2>1 DEF GraphTyped
  <2>3. PICK f : f = [m |-> p, next |-> 1]
    OBVIOUS
  <2>4. stack' = <<>> \/ stack' = Append(<<>>, f)
    BY <1>4, <2>1, <2>3 DEF Setup!Register, Setup!RegisterModule, Setup!ImportFails
  <2>5. \A k \in DOMAIN stack' : stack'[k].m = p
    <3>1. CASE stack' = <<>>
      BY <3>1
    <3>2. CASE stack' = Append(<<>>, f)
      <4>1. PICK rest : rest = <<>>
        OBVIOUS
      <4>2. f \in Frames /\ rest \in Seq(Frames) /\ Len(rest) = 0
        BY <2>3, <4>1, EmptySeq DEF Frames
      <4>3. PICK t : t = Append(rest, f)
        OBVIOUS
      <4>4. DOMAIN t = 1 .. 1 /\ t[1] = f
        BY <4>2, <4>3, Pushed
      <4> QED BY <2>3, <3>2, <4>1, <4>3, <4>4
    <3> QED BY <2>4, <3>1, <3>2
  <2> QED BY <2>1, <2>2, <2>5, AsksStay
<1>5. ASSUME NEW p \in Modules, Setup!SetupHooks(p) PROVE Asks'
  BY <1>5, AsksOnHooks
<1>6. ASSUME NEW c \in Controllers, Setup!Checked(c) \/ Setup!HookSettles(c) PROVE Asks'
  BY <1>6, AsksOnControllers
<1>7. CASE UNCHANGED setup
  BY <1>1, <1>7 DEF setup
<1> QED BY <1>1, <1>2, <1>3, <1>4, <1>5, <1>6, <1>7 DEF Setup!Next

LEMMA GraphStep == ASSUME ApplicationAssumption, GraphInv, [Setup!Next]_setup PROVE GraphInv'
BY CoreStep, AsksStep DEF GraphInv

\* The modules that are done have the root, and whatever their imports started.
LEMMA GraphKeeps == ASSUME ApplicationAssumption, GraphInv PROVE RootLast
<1>1. SUFFICES ASSUME boot \in {"providers", "ok"}, NEW m \in Modules, body[m] # "none"
               PROVE  body[m] = "done"
  BY DEF RootLast, Setup!RootLast
<1>2. PICK S \in SUBSET Modules : S = {q \in Modules : body[q] = "done"}
  OBVIOUS
<1>3. Closed(S)
  <2>1. Root \in S
    BY <1>1, <1>2 DEF GraphInv, GraphCore, Booted, ApplicationAssumption, Setup!ModuleGraphAssumption
  <2>2. ASSUME NEW p \in S, NEW i \in DOMAIN graph.imports[p], Started(p, i)
        PROVE  graph.imports[p][i] \in S
    <3>1. edge[p][i] = "applied"
      BY <1>2 DEF GraphInv, GraphCore, Imported, PastImports
    <3>2. body[graph.imports[p][i]] = "done"
      BY <2>2, <3>1 DEF Started
    <3>3. graph.imports[p][i] \in Modules
      BY <1>2, ImportsTyped DEF GraphInv, GraphCore, GraphTyped
    <3> QED BY <1>2, <3>2, <3>3
  <2> QED BY <2>1, <2>2 DEF Closed
<1>4. m \in S
  BY <1>1, <1>3 DEF GraphInv, GraphCore, Reached
<1> QED BY <1>2, <1>4

(***************************************************************************)
(* Building: what is found for a token, and how the gets go on             *)
(***************************************************************************)
LEMMA Chained ==
    ASSUME ApplicationAssumption, graph \in Graphs
    PROVE  /\ None \notin Tokens /\ None \notin Modules /\ None \notin Setup!Wrappers
           /\ None \notin Controllers /\ Root \in Modules /\ Root \notin Controllers
           /\ Tokens \cap Controllers = {}
           /\ graph \in Setup!Graph
           /\ graph.dep \in [Tokens -> Tokens \cup {None}]
           /\ graph.home \in [Tokens -> Modules]
           /\ graph.needs \in [Controllers -> Tokens \cup {None}]
           /\ graph.seat \in [Controllers -> Modules]
<1>1. /\ None \notin Tokens /\ None \notin Modules /\ None \notin Controllers
      /\ None \notin Setup!Wrappers /\ Root \in Modules /\ Root \notin Controllers
      /\ Tokens \cap Controllers = {} /\ graph \in Setup!Graph
  BY DEF ApplicationAssumption, Setup!ModuleGraphAssumption
<1>2. /\ graph.dep \in [Tokens -> Tokens \cup {None}] /\ graph.home \in [Tokens -> Modules]
      /\ graph.needs \in [Controllers -> Tokens \cup {None}]
      /\ graph.seat \in [Controllers -> Modules]
  BY <1>1 DEF Setup!Graph
<1> QED BY <1>1, <1>2

\* No provider needs itself, not even by way of others.
Falls(r) == \A t \in Tokens : graph.dep[t] # None => r[graph.dep[t]] < r[t]

LEMMA Falling ==
    ASSUME ApplicationAssumption, graph \in Graphs
    PROVE  \E r \in [Tokens -> Nat] : Falls(r)
<1>1. Setup!Acyclic(graph) /\ Setup!Cardinality(Tokens) \in Nat
  BY DEF ApplicationAssumption, Setup!ModuleGraphAssumption
<1>2. PICK r \in [Tokens -> 1 .. Setup!Cardinality(Tokens)] :
          \A t \in Tokens : graph.dep[t] # None => r[graph.dep[t]] < r[t]
  BY <1>1 DEF Setup!Acyclic
<1>3. r \in [Tokens -> Nat]
  BY <1>1, <1>2
<1> QED BY <1>2, <1>3 DEF Falls

Counts == [Modules -> [Tokens -> Nat]]

\* The module that a lookup finds, or none.
LEMMA FindsTyped ==
    ASSUME ApplicationAssumption, graph \in Graphs, NEW x \in Modules, NEW t \in Tokens
    PROVE  Setup!Finds(x, t) \in Modules \cup {None}
<1>1. graph.home[t] \in Modules
  BY Chained
<1> QED BY <1>1 DEF Setup!Finds

LEMMA WrapperTyped ==
    ASSUME own \in Counts, NEW x \in Modules, NEW t \in Tokens
    PROVE  /\ Setup!Wrapper(x, t) \in Setup!Wrappers /\ Setup!Wrapper(x, t).token = t
           /\ Setup!Wrapper(x, t).in = x /\ Setup!Wrapper(x, t).v = own[x][t]
<1>1. own[x][t] \in Nat
  BY DEF Counts
<1> QED BY <1>1 DEF Setup!Wrapper, Setup!Wrappers

LEMMA LookupTyped ==
    ASSUME ApplicationAssumption, graph \in Graphs, own \in Counts,
           NEW x \in Modules, NEW t \in Tokens \cup {None}
    PROVE  /\ Setup!Lookup(x, t) \in Setup!Wrappers \cup {None}
           /\ Setup!Lookup(x, t) # None => t \in Tokens /\ Setup!Lookup(x, t).token = t
<1>1. CASE t = None \/ Setup!Finds(x, t) = None
  BY <1>1 DEF Setup!Lookup
<1>2. CASE t # None /\ Setup!Finds(x, t) # None
  <2>1. PICK y \in Modules : y = Setup!Finds(x, t)
    BY <1>2, FindsTyped
  <2>2. Setup!Lookup(x, t) = Setup!Wrapper(y, t)
    BY <1>2, <2>1 DEF Setup!Lookup
  <2> QED BY <1>2, <2>2, WrapperTyped
<1> QED BY <1>1, <1>2

LEMMA ControllerTyped ==
    ASSUME ApplicationAssumption, NEW c \in Controllers
    PROVE  /\ Setup!ControllerWrapper(c) \in Setup!Wrappers
           /\ Setup!ControllerWrapper(c).token = c /\ Setup!ControllerWrapper(c).in = Root
           /\ Setup!ControllerWrapper(c).v = 1
BY DEF ApplicationAssumption, Setup!ModuleGraphAssumption, Setup!ControllerWrapper, Setup!Wrappers

LEMMA TakesTyped ==
    ASSUME ApplicationAssumption, graph \in Graphs, NEW w \in Setup!Wrappers
    PROVE  /\ w.in \in Modules /\ w.token \in Tokens \cup Controllers
           /\ Setup!Takes(w) \in Tokens \cup {None}
           /\ w.token \in Tokens => Setup!Takes(w) = graph.dep[w.token]
           /\ w.token \in Controllers => Setup!Takes(w) = graph.needs[w.token]
<1>1. w.in \in Modules /\ w.token \in Tokens \cup Controllers
  BY DEF Setup!Wrappers
<1> QED BY <1>1, Chained DEF Setup!Takes

\* The frame of a get() that enters a provider.
Entry(w) == [w |-> w, dep |-> Setup!Lookup(w.in, Setup!Takes(w))]

LEMMA EntryTyped ==
    ASSUME ApplicationAssumption, graph \in Graphs, own \in Counts, NEW w \in Setup!Wrappers
    PROVE  /\ Entry(w) \in Setup!Frame /\ Entry(w).w = w
           /\ Entry(w).dep = Setup!Lookup(w.in, Setup!Takes(w))
           /\ Entry(w).dep # None => Setup!Takes(w) # None /\ Entry(w).dep.token = Setup!Takes(w)
<1>1. PICK d : d = Setup!Lookup(w.in, Setup!Takes(w))
  OBVIOUS
<1>2. w.in \in Modules /\ Setup!Takes(w) \in Tokens \cup {None}
  BY TakesTyped
<1>3. d \in Setup!Wrappers \cup {None}
      /\ (d # None => Setup!Takes(w) \in Tokens /\ d.token = Setup!Takes(w))
  BY <1>1, <1>2, LookupTyped
<1>4. Entry(w) = [w |-> w, dep |-> d]
  BY <1>1 DEF Entry
<1>5. None \notin Tokens
  BY Chained
<1> QED BY <1>1, <1>3, <1>4, <1>5 DEF Setup!Frame

Grows == \A x \in Modules : \A t \in Tokens : own'[x][t] >= own[x][t]

LEMMA AddedIs ==
    ASSUME own \in Counts, NEW m \in Modules, NEW S
    PROVE  /\ Setup!Added(m, S) \in Counts
           /\ \A x \in Modules : \A t \in Tokens :
                  Setup!Added(m, S)[x][t] = IF x = m /\ t \in S THEN own[x][t] + 1 ELSE own[x][t]
<1>1. PICK f : f = [t \in Tokens |-> IF t \in S THEN own[m][t] + 1 ELSE own[m][t]]
  OBVIOUS
<1>2. PICK g : g = [own EXCEPT ![m] = f]
  OBVIOUS
<1>3. Setup!Added(m, S) = g
  BY <1>1, <1>2 DEF Setup!Added
<1>4. f \in [Tokens -> Nat]
  BY <1>1 DEF Counts
<1>5. g \in Counts /\ g[m] = f /\ \A x \in Modules : x # m => g[x] = own[x]
  BY <1>2, <1>4 DEF Counts
<1> QED BY <1>1, <1>3, <1>5

\* What a module registers is found in the root from then on.
LEMMA RegisterIs ==
    ASSUME ApplicationAssumption, own \in Counts, NEW p \in Modules, NEW rest, Setup!RegisterModule(p, rest)
    PROVE  /\ own' \in Counts /\ Grows
           /\ \A t \in Tokens : graph.home[t] = p => own'[Root][t] > own[Root][t]
           /\ \A x \in Modules : \A t \in Tokens :
                  own'[x][t] # own[x][t] => graph.home[t] = p /\ x \in {Root, p}
<1>1. PICK P : P = Setup!Provided(p)
  OBVIOUS
<1>2. PICK f : f = [m \in Modules |-> [t \in Tokens |->
                      (IF m = Root /\ t \in P THEN 1 ELSE 0)
                      + (IF m = p /\ t \in P \cap graph.exported THEN 1 ELSE 0)]]
  OBVIOUS
<1>3. \A m \in Modules : \A t \in Tokens :
          /\ f[m][t] \in Nat
          /\ m = Root /\ t \in P => f[m][t] > 0
          /\ f[m][t] # 0 => t \in P /\ m \in {Root, p}
  BY <1>2
<1>4. own' = [m \in Modules |-> [t \in Tokens |-> own[m][t]
                  + (IF m = Root /\ t \in P THEN 1 ELSE 0)
                  + (IF m = p /\ t \in P \cap graph.exported THEN 1 ELSE 0)]]
  BY <1>1 DEF Setup!RegisterModule
<1>5. \A m \in Modules : \A t \in Tokens : own[m][t] \in Nat
  BY DEF Counts
<1>6. \A m \in Modules : \A t \in Tokens : own'[m][t] = own[m][t] + f[m][t]
  BY <1>2, <1>4, <1>5
<1>7. own' \in Counts
  <2>1. \A m \in Modules : \A t \in Tokens :
            own[m][t] + (IF m = Root /\ t \in P THEN 1 ELSE 0)
                + (IF m = p /\ t \in P \cap graph.exported THEN 1 ELSE 0) \in Nat
    BY <1>5
  <2> QED BY <1>4, <2>1 DEF Counts
<1>8. Grows
  BY <1>3, <1>5, <1>6 DEF Grows
<1>9. \A t \in Tokens : t \in P <=> graph.home[t] = p
  BY <1>1 DEF Setup!Provided
<1>10. \A t \in Tokens : graph.home[t] = p => own'[Root][t] > own[Root][t]
  <2>1. Root \in Modules
    BY DEF ApplicationAssumption, Setup!ModuleGraphAssumption
  <2> QED BY <1>3, <1>5, <1>6, <1>9, <2>1
<1>11. ASSUME NEW x \in Modules, NEW t \in Tokens, own'[x][t] # own[x][t]
       PROVE  graph.home[t] = p /\ x \in {Root, p}
  BY <1>3, <1>5, <1>6, <1>9, <1>11
<1> QED BY <1>7, <1>8, <1>10, <1>11
\* What a path looks like when a get() has entered a provider, or is through with one.
Longer(c, f) ==
    /\ path' \in [Setup!Callers -> Seq(Setup!Frame)]
    /\ \A d \in Setup!Callers : d # c => path'[d] = path[d]
    /\ \E n \in Nat :
         /\ DOMAIN path[c] = 1 .. n /\ DOMAIN path'[c] = 1 .. n + 1
         /\ \A k \in 1 .. n : path'[c][k] = path[c][k]
         /\ path'[c][n + 1] = f /\ path'[c] # <<>> /\ Setup!LastFrame(c)' = f
         /\ n # 0 => path[c] # <<>> /\ Setup!LastFrame(c) = path[c][n]
Less(c, f) ==
    /\ path' \in [Setup!Callers -> Seq(Setup!Frame)]
    /\ \A d \in Setup!Callers : d # c => path'[d] = path[d]
    /\ \E n \in Nat :
         /\ DOMAIN path[c] = 1 .. n + 1 /\ DOMAIN path'[c] = 1 .. n
         /\ \A k \in 1 .. n : path'[c][k] = path[c][k]
         /\ path[c][n + 1] = f /\ Setup!LastFrame(c) = f
         /\ n = 0 => path'[c] = <<>>
         /\ n # 0 => path'[c] # <<>> /\ Setup!LastFrame(c)' = path[c][n]

\* What the variables of the gets hold.
GetsTyped ==
    /\ calling \in Setup!Callers \cup {None}
    /\ path \in [Setup!Callers -> Seq(Setup!Frame)]
    /\ failing \subseteq Setup!Callers
    /\ chain \in Seq(Setup!Wrappers) /\ built \in Seq(Setup!Frame) /\ met \subseteq Setup!Wrappers

LEMMA EntryOf ==
    ASSUME NEW S, NEW s \in Seq(S), NEW f \in S
    PROVE  /\ Append(s, f) \in Seq(S) /\ Len(s) \in Nat
           /\ DOMAIN s = 1 .. Len(s) /\ DOMAIN Append(s, f) = 1 .. Len(s) + 1
           /\ Len(Append(s, f)) = Len(s) + 1 /\ Append(s, f) # <<>>
           /\ Append(s, f)[Len(s) + 1] = f
           /\ \A k \in 1 .. Len(s) : Append(s, f)[k] = s[k]
           /\ s # <<>> <=> Len(s) # 0
<1>1. PICK t : t = Append(s, f)
  OBVIOUS
<1>2. /\ t \in Seq(S) /\ Len(t) = Len(s) + 1 /\ t[Len(s) + 1] = f
      /\ \A k \in 1 .. Len(s) : t[k] = s[k]
  BY <1>1, AppendProperties
<1>3. Len(s) \in Nat /\ DOMAIN s = 1 .. Len(s) /\ DOMAIN t = 1 .. Len(t)
  BY <1>2, LenProperties
<1>4. t # <<>>
  BY <1>2, <1>3, EmptySeq
<1>5. s # <<>> <=> Len(s) # 0
  BY EmptySeq
<1> QED BY <1>1, <1>2, <1>3, <1>4, <1>5

LEMMA BelowIs ==
    ASSUME NEW S, NEW s \in Seq(S), s # <<>>
    PROVE  /\ Setup!Below(s) \in Seq(S) /\ Len(s) - 1 \in Nat /\ Len(s) \in Nat
           /\ DOMAIN s = 1 .. Len(s) /\ DOMAIN Setup!Below(s) = 1 .. Len(s) - 1
           /\ Len(Setup!Below(s)) = Len(s) - 1 /\ s[Len(s)] \in S
           /\ \A k \in 1 .. Len(s) - 1 : Setup!Below(s)[k] = s[k]
           /\ Setup!Below(s) # <<>> <=> Len(s) # 1
<1>1. Len(s) \in Nat \ {0} /\ DOMAIN s = 1 .. Len(s)
  BY EmptySeq, LenProperties
<1>2. \A k \in 1 .. Len(s) : s[k] \in S
  BY ElementOfSeq
<1>0. Len(s) - 1 \in Nat
  BY <1>1
<1>3. PICK n \in Nat : n = Len(s) - 1
  BY <1>0
<1>4. PICK p : p = SubSeq(s, 1, n)
  OBVIOUS
<1>5. /\ p \in Seq(S) /\ Len(p) = n
      /\ \A k \in 1 .. n : p[k] = s[k]
  <2>1. \A k \in 1 .. n : s[k] \in S /\ 1 + k - 1 = k
    BY <1>1, <1>2, <1>3
  <2> QED BY <1>3, <1>4, <2>1, SubSeqProperties
<1>6. DOMAIN p = 1 .. n /\ (p # <<>> <=> n # 0)
  BY <1>5, LenProperties, EmptySeq
<1>7. Setup!Below(s) = p
  BY <1>3, <1>4 DEF Setup!Below
<1>8. s[Len(s)] \in S /\ (n # 0 <=> Len(s) # 1)
  BY <1>1, <1>2, <1>3
<1>9. /\ p \in Seq(S) /\ Len(s) - 1 \in Nat /\ DOMAIN p = 1 .. Len(s) - 1
      /\ Len(p) = Len(s) - 1 /\ \A k \in 1 .. Len(s) - 1 : p[k] = s[k]
  BY <1>3, <1>5, <1>6
<1> QED BY <1>1, <1>6, <1>7, <1>8, <1>9

LEMMA LongerIs ==
    ASSUME GetsTyped, NEW c \in Setup!Callers, NEW f \in Setup!Frame,
           path' = [path EXCEPT ![c] = Append(@, f)]
    PROVE  Longer(c, f)
<1>1. PICK s \in Seq(Setup!Frame) : s = path[c]
  BY DEF GetsTyped
<1>2. PICK t : t = Append(s, f)
  OBVIOUS
<1>3. PICK n : n = Len(s)
  OBVIOUS
<1>4. /\ t \in Seq(Setup!Frame) /\ n \in Nat /\ DOMAIN s = 1 .. n /\ DOMAIN t = 1 .. n + 1
      /\ Len(t) = n + 1 /\ t # <<>> /\ t[n + 1] = f /\ \A k \in 1 .. n : t[k] = s[k]
      /\ s # <<>> <=> n # 0
  BY <1>2, <1>3, EntryOf
<1>5. /\ path' \in [Setup!Callers -> Seq(Setup!Frame)] /\ path'[c] = t
      /\ \A d \in Setup!Callers : d # c => path'[d] = path[d]
  BY <1>1, <1>2, <1>4 DEF GetsTyped
<1>6. Setup!LastFrame(c) = s[n] /\ Setup!LastFrame(c)' = t[n + 1]
  BY <1>1, <1>3, <1>4, <1>5 DEF Setup!LastFrame
<1> QED BY <1>1, <1>4, <1>5, <1>6 DEF Longer

LEMMA LessIs ==
    ASSUME GetsTyped, NEW c \in Setup!Callers, path[c] # <<>>,
           path' = [path EXCEPT ![c] = Setup!Below(@)]
    PROVE  Setup!LastFrame(c) \in Setup!Frame /\ Less(c, Setup!LastFrame(c))
<1>1. PICK s \in Seq(Setup!Frame) : s = path[c] /\ s # <<>>
  BY DEF GetsTyped
<1>2. PICK t : t = Setup!Below(s)
  OBVIOUS
<1>3. PICK n \in Nat : n = Len(s) - 1
  BY <1>1, BelowIs
<1>4. /\ t \in Seq(Setup!Frame) /\ Len(s) = n + 1 /\ DOMAIN s = 1 .. n + 1 /\ DOMAIN t = 1 .. n
      /\ Len(t) = n /\ s[n + 1] \in Setup!Frame /\ \A k \in 1 .. n : t[k] = s[k]
      /\ t # <<>> <=> n # 0
  BY <1>1, <1>2, <1>3, BelowIs
<1>5. /\ path' \in [Setup!Callers -> Seq(Setup!Frame)] /\ path'[c] = t
      /\ \A d \in Setup!Callers : d # c => path'[d] = path[d]
  BY <1>1, <1>2, <1>4 DEF GetsTyped
<1>6. Setup!LastFrame(c) = s[n + 1] /\ Setup!LastFrame(c)' = t[n]
  BY <1>1, <1>4, <1>5 DEF Setup!LastFrame
<1> QED BY <1>1, <1>4, <1>5, <1>6 DEF Less

\* The ways in which loadInstance() goes on: nothing was found, or an instance; the
\* provider is on the chain; or it is entered.
Meets(c, w) == met' = met \cup (IF \E d \in Setup!Callers \ {c} : Setup!Under(d, w) THEN {w} ELSE {})
Misses(c, w) ==
    /\ w = None /\ failing' = failing \cup {c} /\ calling' = None
    /\ UNCHANGED <<path, chain, met>>
Hits(c, w) ==
    /\ w \in Setup!Wrappers /\ Setup!Resolved(w) /\ calling' = None
    /\ UNCHANGED <<path, failing, chain, met>>
Collides(c, w) ==
    /\ w \in Setup!Wrappers /\ ~Setup!Resolved(w) /\ Meets(c, w) /\ Setup!InChain(w)
    /\ failing' = failing \cup {c} /\ calling' = None /\ UNCHANGED <<path, chain>>
Pushes(c, w) ==
    /\ w \in Setup!Wrappers /\ ~Setup!Resolved(w) /\ Meets(c, w)
    /\ chain' = Append(chain, w) /\ Longer(c, Entry(w))
    /\ calling' = IF Setup!Takes(w) = None THEN None ELSE c
    /\ UNCHANGED failing
Enters(c, w) == Misses(c, w) \/ Hits(c, w) \/ Collides(c, w) \/ Pushes(c, w)

LEMMA EntersIs ==
    ASSUME ApplicationAssumption, graph \in Graphs, own \in Counts, GetsTyped,
           NEW c \in Setup!Callers, NEW w \in Setup!Wrappers \cup {None}, Setup!loadInstance(c, w)
    PROVE  Enters(c, w)
<1>1. CASE w = None
  BY <1>1 DEF Setup!loadInstance, Enters, Misses
<1>2. CASE w # None
  <2>1. w \in Setup!Wrappers
    BY <1>2
  <2>2. CASE Setup!Resolved(w)
    BY <1>2, <2>1, <2>2 DEF Setup!loadInstance, Enters, Hits
  <2>3. CASE ~Setup!Resolved(w)
    <3>1. Meets(c, w)
      BY <1>2, <2>3 DEF Setup!loadInstance, Meets
    <3>2. CASE Setup!InChain(w)
      BY <1>2, <2>1, <2>3, <3>1, <3>2 DEF Setup!loadInstance, Enters, Collides
    <3>3. CASE ~Setup!InChain(w)
      <4>1. PICK f \in Setup!Frame : f = Entry(w)
        BY <2>1, EntryTyped
      <4>2. /\ chain' = Append(chain, w) /\ UNCHANGED failing
            /\ calling' = IF Setup!Takes(w) = None THEN None ELSE c
            /\ path' = [path EXCEPT ![c] = Append(@, f)]
        BY <1>2, <2>3, <3>3, <4>1 DEF Setup!loadInstance, Entry
      <4>3. Longer(c, f)
        BY <4>2, LongerIs
      <4> QED BY <2>1, <2>3, <3>1, <4>1, <4>2, <4>3 DEF Enters, Pushes
    <3> QED BY <3>2, <3>3
  <2> QED BY <2>2, <2>3
<1> QED BY <1>1, <1>2

\* What is registered, and what it means that a module has come past its imports and that
\* the application has booted.
RegisteredIn(m) == \A t \in Tokens : graph.home[t] = m => own[Root][t] > 0
Wired ==
    /\ graph \in Graphs
    /\ own \in Counts
    /\ \A m \in Modules : body[m] \in PastImports => RegisteredIn(m)
    /\ boot # "modules" => stack = <<>>
    /\ boot = "ok" => Setup!Unbuilt = {} /\ Setup!Unserved = {}

\* A path follows what the providers take; its last one has what it takes, unless the
\* get() is still on its way down or fails.
Fits(f) == f.dep # None => Setup!Takes(f.w) # None /\ f.dep.token = Setup!Takes(f.w)
Filled(f) == Setup!Takes(f.w) # None => f.dep # None /\ Setup!Resolved(f.dep)
LinkedIn(c) ==
    /\ \A k \in DOMAIN path[c] : Fits(path[c][k])
    /\ \A j, k \in DOMAIN path[c] : k = j + 1 => path[c][j].dep # None /\ path[c][k].w = path[c][j].dep
    /\ path[c] # <<>> /\ calling # c /\ c \notin failing => Filled(Setup!LastFrame(c))
    /\ calling = c => /\ path[c] # <<>> /\ c \notin failing
                      /\ Setup!Takes(Setup!LastFrame(c).w) # None

\* Who has a get() under way is waited for by its module, or by the boot.
UnderWay(c) == calling = c \/ path[c] # <<>> \/ c \in failing
Awaited ==
    /\ \A c \in Controllers : UnderWay(c) => asked[c] \in {"validating", "hooking"}
    /\ UnderWay(Root) => boot # "modules"
    /\ calling = Root \/ path[Root] # <<>> => boot = "providers"

\* Every instance was given what it takes, from a wrapper that has an instance.
Complete == \A k \in DOMAIN built : Fits(built[k]) /\ Filled(built[k])

PathsInv == GetsTyped /\ (\A c \in Setup!Callers : LinkedIn(c)) /\ Awaited /\ Complete

LEMMA PathsInit == ASSUME ApplicationAssumption, Setup!Init PROVE Wired /\ PathsInv
<1>1. own \in Counts /\ graph \in Graphs /\ boot = "modules"
  BY DEF Setup!Init, Counts
<1>2. \A m \in Modules : body[m] \notin PastImports
  BY DEF Setup!Init, PastImports
<1>3. PICK e : e = <<>>
  OBVIOUS
<1>4. \A S : e \in Seq(S) /\ DOMAIN e = {}
  BY <1>3, EmptySeq
<1>5. /\ calling = None /\ failing = {} /\ chain = e /\ built = e /\ met = {}
      /\ path = [c \in Setup!Callers |-> e]
  BY <1>3 DEF Setup!Init
<1>6. \A c \in Setup!Callers : path[c] = e
  BY <1>5
<1>7. GetsTyped
  BY <1>4, <1>5 DEF GetsTyped
<1>8. None \notin Setup!Callers
  BY <1>1, Chained DEF Setup!Callers
<1>9. \A c \in Setup!Callers : LinkedIn(c) /\ ~UnderWay(c)
  BY <1>3, <1>4, <1>5, <1>6, <1>8 DEF LinkedIn, UnderWay
<1>10. Awaited /\ Complete
  BY <1>4, <1>5, <1>9 DEF Awaited, Complete, Setup!Callers, UnderWay
<1> QED BY <1>1, <1>2, <1>7, <1>9, <1>10 DEF Wired, PathsInv

\* No get() goes on.
Still == UNCHANGED <<asked, calling, path, failing, chain, built, met>>

\* What an import that is called changes.
Calls(p, i, m) ==
    /\ m = graph.imports[p][i] /\ body[p] = "running" /\ edge[p][i] = "idle"
    /\ stack # <<>> /\ UNCHANGED <<graph, globals, boot>> /\ Still
    /\ edge'[p][i] = IF body[m] = "none" THEN "called" ELSE "returned"
    /\ \A q \in Modules : \A j \in DOMAIN graph.imports[q] : q # p \/ j # i => edge'[q][j] = edge[q][j]
    /\ \A q \in Modules : body'[q] = IF q = m /\ body[m] = "none" THEN "running" ELSE body[q]
    /\ own' \in Counts
    /\ \A x \in Modules : \A t \in Tokens :
         own'[x][t] = IF x = m /\ m \in graph.dynamic /\ graph.home[t] = m THEN own[x][t] + 1 ELSE own[x][t]

LEMMA CallIs ==
    ASSUME ApplicationAssumption, GraphInv, own \in Counts, Setup!CallImport
    PROVE  \E p \in Modules : \E i \in DOMAIN graph.imports[p] : \E m \in Modules : Calls(p, i, m)
<1>p. PICK p : p = Setup!Top.m
  OBVIOUS
<1>i. PICK i : i = Setup!Top.next
  OBVIOUS
<1>m. PICK m : m = graph.imports[p][i]
  OBVIOUS
<1>t. GraphTyped /\ Entering
  BY DEF GraphInv, GraphCore
<1>1. /\ stack # <<>> /\ body[p] = "running" /\ i <= Len(graph.imports[p])
      /\ UNCHANGED <<graph, globals, boot>> /\ Still
      /\ own' = IF m \in graph.dynamic THEN Setup!Added(m, Setup!Provided(m)) ELSE own
      /\ \/ /\ body[m] # "none" /\ UNCHANGED body
            /\ edge' = [edge EXCEPT ![p][i] = "returned"]
         \/ /\ body[m] = "none" /\ body' = [body EXCEPT ![m] = "running"]
            /\ edge' = [edge EXCEPT ![p][i] = "called"]
  BY <1>p, <1>i, <1>m DEF Setup!CallImport, Setup!On, Setup!imports, Setup!Entered, Setup!gets, Still
<1>2. p \in Modules /\ i \in Nat \ {0} /\ Len(stack) \in DOMAIN stack
  BY <1>1, <1>t, <1>p, <1>i, Frames1 DEF GraphTyped, Setup!Top
<1>3. i \in DOMAIN graph.imports[p] /\ m \in Modules
  <2>1. graph \in Setup!Graph
    BY <1>t DEF GraphTyped
  <2>2. /\ Len(graph.imports[p]) \in Nat /\ DOMAIN graph.imports[p] = 1 .. Len(graph.imports[p])
        /\ \A j \in DOMAIN graph.imports[p] : graph.imports[p][j] \in Modules
    BY <1>2, <2>1, ImportsTyped
  <2>3. i \in DOMAIN graph.imports[p]
    BY <1>1, <1>2, <2>2
  <2> QED BY <1>m, <2>2, <2>3
<1>4. edge[p][i] = "idle"
  <2>1. PICK k : k = Len(stack)
    OBVIOUS
  <2>2. k \in DOMAIN stack /\ stack[k].m = p /\ stack[k].next = i /\ body[stack[k].m] = "running"
    BY <1>1, <1>2, <1>p, <1>i, <2>1 DEF Setup!Top
  <2>3. \A j \in DOMAIN graph.imports[stack[k].m] : j >= stack[k].next => edge[stack[k].m][j] = "idle"
    BY <1>t, <2>2 DEF Entering
  <2>4. i >= i
    BY <1>2
  <2> QED BY <1>3, <2>2, <2>3, <2>4
<1>5. PICK e : /\ e = IF body[m] = "none" THEN "called" ELSE "returned"
               /\ edge' = [edge EXCEPT ![p] = [edge[p] EXCEPT ![i] = e]]
  BY <1>1
<1>6. /\ edge'[p][i] = e
      /\ \A q \in Modules : \A j \in DOMAIN graph.imports[q] :
             q # p \/ j # i => edge'[q][j] = edge[q][j]
  BY <1>2, <1>3, <1>5, <1>t DEF GraphTyped
<1>7. \A q \in Modules : body'[q] = IF q = m /\ body[m] = "none" THEN "running" ELSE body[q]
  BY <1>1, <1>3, <1>t DEF GraphTyped
<1>8. PICK P : P = Setup!Provided(m)
  OBVIOUS
<1>9. PICK f : f = Setup!Added(m, P)
  OBVIOUS
<1>10. f \in Counts /\ \A x \in Modules : \A t \in Tokens :
           f[x][t] = IF x = m /\ t \in P THEN own[x][t] + 1 ELSE own[x][t]
  BY <1>3, <1>9, AddedIs
<1>11. \A t \in Tokens : t \in P <=> graph.home[t] = m
  BY <1>8 DEF Setup!Provided
<1>12. own' = IF m \in graph.dynamic THEN f ELSE own
  BY <1>1, <1>8, <1>9
<1>13. own' \in Counts
  BY <1>10, <1>12
<1>14. \A x \in Modules : \A t \in Tokens : own'[x][t] =
           IF x = m /\ m \in graph.dynamic /\ graph.home[t] = m THEN own[x][t] + 1 ELSE own[x][t]
  <2>1. CASE m \in graph.dynamic
    BY <1>10, <1>11, <1>12, <2>1
  <2>2. CASE m \notin graph.dynamic
    BY <1>12, <2>2
  <2> QED BY <2>1, <2>2
<1>15. Calls(p, i, m)
  BY <1>1, <1>m, <1>4, <1>5, <1>6, <1>7, <1>13, <1>14 DEF Calls
<1> QED BY <1>2, <1>3, <1>15

\* A module registers: its body comes past its imports, its providers into the root.
Settles(p) ==
    /\ body[p] \in {"running", "importing"}
    /\ UNCHANGED <<graph, edge, globals, boot>> /\ Still
    /\ \E b \in {"validating", "hooks", "done"} :
         body' = [body EXCEPT ![p] = b]
    /\ own' \in Counts /\ Grows
    /\ \A t \in Tokens : graph.home[t] = p => own'[Root][t] > own[Root][t]
    /\ \A x \in Modules : \A t \in Tokens :
         own'[x][t] # own[x][t] => graph.home[t] = p /\ x \in {Root, p}

LEMMA SettlesIs ==
    ASSUME ApplicationAssumption, own \in Counts, NEW p \in Modules, NEW rest,
           body[p] \in {"running", "importing"}, Setup!RegisterModule(p, rest),
           UNCHANGED <<graph, edge, globals, boot>> /\ Still
    PROVE  Settles(p)
<1>1. \E b \in {"validating", "hooks", "done"} :
          body' = [body EXCEPT ![p] = b]
  BY DEF Setup!RegisterModule, Setup!AfterRegistration, Setup!AfterValidation
<1> QED BY <1>1, RegisterIs DEF Settles

\* All that can happen to the body of a module otherwise.
Awaits(p) ==
    /\ body[p] = "running" /\ body' = [body EXCEPT ![p] = "importing"]
    /\ stack # <<>> /\ graph.imports[p] # <<>>
    /\ UNCHANGED <<graph, edge, globals, own, boot>> /\ Still

LEMMA EndOfImportsIs ==
    ASSUME ApplicationAssumption, GraphInv, own \in Counts, Setup!EndOfImports
    PROVE  stack # <<>> /\ \E p \in Modules : Settles(p) \/ Awaits(p)
<1>p. PICK p : p = Setup!Top.m
  OBVIOUS
<1>r. PICK rest : rest = Setup!Popped
  OBVIOUS
<1>t. GraphTyped
  BY DEF GraphInv, GraphCore
<1>1. /\ stack # <<>> /\ body[p] = "running"
      /\ UNCHANGED <<graph, edge, globals, boot>> /\ Still
      /\ \/ graph.imports[p] = <<>> /\ Setup!RegisterModule(p, rest)
         \/ /\ body' = [body EXCEPT ![p] = "importing"] /\ graph.imports[p] # <<>>
            /\ UNCHANGED own
  BY <1>p, <1>r DEF Setup!EndOfImports, Setup!On, Setup!imports, Setup!RegisterModule, Setup!gets, Still
<1>2. p \in Modules
  BY <1>1, <1>t, <1>p, Frames1 DEF GraphTyped, Setup!Top
<1>3. CASE graph.imports[p] = <<>> /\ Setup!RegisterModule(p, rest)
  BY <1>1, <1>2, <1>3, SettlesIs
<1>4. CASE body' = [body EXCEPT ![p] = "importing"] /\ graph.imports[p] # <<>> /\ UNCHANGED own
  BY <1>1, <1>2, <1>4 DEF Awaits
<1> QED BY <1>1, <1>3, <1>4
\* An import of a module that was entered or is done has settled, and a global module is
\* offered to all.
Applies(p, i) ==
    /\ stack = <<>> /\ boot = "modules" /\ i \in DOMAIN graph.imports[p]
    /\ UNCHANGED <<graph, stack, body, boot>> /\ Still
    /\ \/ edge[p][i] = "returned"
       \/ edge[p][i] = "called" /\ body[graph.imports[p][i]] = "done"
    /\ edge'[p][i] = "applied"
    /\ \A q \in Modules : \A j \in DOMAIN graph.imports[q] : q # p \/ j # i => edge'[q][j] = edge[q][j]
    /\ own' \in Counts
    /\ \A x \in Modules : \A t \in Tokens : own'[x][t] =
         IF x = graph.imports[p][i] /\ x \in graph.global /\ graph.home[t] = x
         THEN own[x][t] + 1 ELSE own[x][t]

LEMMA AppliesIs ==
    ASSUME ApplicationAssumption, GraphInv, own \in Counts, NEW p \in Modules,
           NEW i \in DOMAIN edge[p], Setup!ImportSettles(p, i)
    PROVE  Applies(p, i)
<1>1. PICK m : m = graph.imports[p][i]
  OBVIOUS
<1>2. /\ stack = <<>> /\ boot = "modules" /\ UNCHANGED <<graph, stack, body, boot>> /\ Still
      /\ edge[p][i] = "returned" \/ (edge[p][i] = "called" /\ body[m] = "done")
      /\ edge' = [edge EXCEPT ![p][i] = "applied"]
      /\ own' = IF m \in graph.global THEN Setup!Added(m, Setup!Provided(m)) ELSE own
  BY <1>1 DEF Setup!ImportSettles, Setup!Idle, Setup!Settled, Setup!IsGlobal, Setup!imports, Setup!gets,
     Still
<1>3. i \in DOMAIN graph.imports[p]
  BY DEF GraphInv, GraphCore, GraphTyped
<1>4. m \in Modules
  BY <1>1, <1>3, ImportsTyped DEF GraphInv, GraphCore, GraphTyped
<1>5. edge' = [edge EXCEPT ![p] = [edge[p] EXCEPT ![i] = "applied"]]
  BY <1>2
<1>6. /\ edge'[p][i] = "applied"
      /\ \A q \in Modules : \A j \in DOMAIN graph.imports[q] :
             q # p \/ j # i => edge'[q][j] = edge[q][j]
  BY <1>3, <1>5 DEF GraphInv, GraphCore, GraphTyped
<1>7. PICK P : P = Setup!Provided(m)
  OBVIOUS
<1>8. PICK f : f = Setup!Added(m, P)
  OBVIOUS
<1>9. f \in Counts /\ \A x \in Modules : \A t \in Tokens :
          f[x][t] = IF x = m /\ t \in P THEN own[x][t] + 1 ELSE own[x][t]
  BY <1>4, <1>8, AddedIs
<1>10. \A t \in Tokens : t \in P <=> graph.home[t] = m
  BY <1>7 DEF Setup!Provided
<1>11. own' = IF m \in graph.global THEN f ELSE own
  BY <1>2, <1>7, <1>8
<1>12. own' \in Counts
  BY <1>9, <1>11
<1>13. \A x \in Modules : \A t \in Tokens : own'[x][t] =
           IF x = m /\ x \in graph.global /\ graph.home[t] = x THEN own[x][t] + 1 ELSE own[x][t]
  <2>1. CASE m \in graph.global
    BY <1>9, <1>10, <1>11, <2>1
  <2>2. CASE m \notin graph.global
    BY <1>11, <2>2
  <2> QED BY <2>1, <2>2
<1> QED BY <1>1, <1>2, <1>3, <1>6, <1>12, <1>13 DEF Applies
\* An import that failed fails the body that waits for it.
Fails(p, i) ==
    /\ stack = <<>> /\ boot = "modules" /\ body[p] = "importing"
    /\ edge[p][i] = "called" /\ body[graph.imports[p][i]] = "failed"
    /\ body' = [body EXCEPT ![p] = "failed"]
    /\ UNCHANGED <<graph, stack, edge, globals, own, boot>> /\ Still
\* The controllers that a module has validated are all there, or one is missing.
Controls(p) ==
    /\ UNCHANGED <<graph, edge, globals, own, boot>> /\ Still
    /\ body[p] = "validating"
    /\ \E b \in {"hooks", "done", "failed"} :
         /\ body' = [body EXCEPT ![p] = b]
         /\ b = "failed" => \E c \in Controllers : asked[c] = "missing"

\* A get() is made, for a controller of a module or while the boot goes on.
Begins(c, w) ==
    /\ calling = None /\ path[c] = <<>> /\ c \notin failing
    /\ c \in Setup!Callers /\ w \in Setup!Wrappers \cup {None} /\ Enters(c, w)
    /\ UNCHANGED <<graph, body, edge, links, globals, own, built, boot>>
    /\ \/ /\ boot = "modules" /\ c \in Controllers
          /\ \E a \in {"validating", "hooking"} : asked' = [asked EXCEPT ![c] = a]
          /\ body[graph.seat[c]] \in PastImports
          /\ \/ w = Setup!Lookup(Root, graph.needs[c]) /\ c \in Setup!Validated(graph.seat[c])
             \/ w = Setup!ControllerWrapper(c) /\ c \in Setup!Hooked(graph.seat[c])
       \/ /\ boot = "providers" /\ c = Root /\ UNCHANGED <<stack, asked>>
          /\ \/ \E t \in Setup!Unbuilt : w = Setup!Lookup(Root, t)
             \/ \E d \in Setup!Unserved : w = Setup!ControllerWrapper(d)

\* It goes on to what the provider it has just entered takes.
Goes(c, w) ==
    /\ calling = c /\ c \in Setup!Callers /\ w \in Setup!Wrappers \cup {None} /\ Enters(c, w)
    /\ w = Setup!LastFrame(c).dep
    /\ UNCHANGED <<graph, stack, body, edge, links, globals, own, asked, built, boot>>

\* A provider is built, or passes on the error.
Builds(c) ==
    /\ calling = None /\ stack = <<>> /\ boot \in {"modules", "providers"} /\ path[c] # <<>>
    /\ c \in Setup!Callers /\ Setup!LastFrame(c) \in Setup!Frame /\ Less(c, Setup!LastFrame(c))
    /\ chain' = Setup!Below(chain)
    /\ built' = IF c \in failing THEN built ELSE Append(built, Setup!LastFrame(c))
    /\ UNCHANGED <<graph, stack, body, edge, links, globals, own, asked, calling, failing, met, boot>>

\* A module has the answer to the get() it made for a controller.
Ends(c) ==
    /\ stack = <<>> /\ boot = "modules" /\ calling = None /\ path[c] = <<>>
    /\ c \in Controllers /\ asked[c] \in {"validating", "hooking"}
    /\ UNCHANGED <<graph, edge, globals, own, calling, path, chain, built, met, boot>>
    /\ failing' = failing \ {c}
    /\ \E a \in {"found", "missing", "hooked"} :
         asked' = [asked EXCEPT ![c] = a] /\ (a = "missing" => c \in failing)
    /\ \/ UNCHANGED body
       \/ /\ body[graph.seat[c]] = "hooks"
          /\ \E b \in {"done", "failed"} : /\ body' = [body EXCEPT ![graph.seat[c]] = b]
                                           /\ b = "failed" => c \in failing

LEMMA BeginsInModule ==
    ASSUME ApplicationAssumption, GraphInv, Wired, PathsInv, NEW c \in Controllers,
           NEW w \in Setup!Wrappers \cup {None}, Setup!loadInstance(c, w),
           calling = None, boot = "modules", asked[c] \notin {"validating", "hooking"},
           UNCHANGED <<graph, body, edge, links, globals, own, built, boot>>,
           \E a \in {"validating", "hooking"} : asked' = [asked EXCEPT ![c] = a],
           body[graph.seat[c]] \in PastImports,
           \/ w = Setup!Lookup(Root, graph.needs[c]) /\ c \in Setup!Validated(graph.seat[c])
           \/ w = Setup!ControllerWrapper(c) /\ c \in Setup!Hooked(graph.seat[c])
    PROVE  Begins(c, w)
<1>1. c \in Setup!Callers
  BY DEF Setup!Callers
<1>2. path[c] = <<>> /\ c \notin failing
  BY DEF PathsInv, Awaited, UnderWay
<1>3. Enters(c, w)
  BY <1>1, EntersIs DEF Wired, PathsInv
<1> QED BY <1>1, <1>2, <1>3 DEF Begins

LEMMA ValidateIs ==
    ASSUME ApplicationAssumption, GraphInv, Wired, PathsInv, Setup!Validate
    PROVE  /\ boot = "modules"
           /\ \/ \E p \in Modules : Controls(p)
              \/ \E c \in Controllers : \E w : Begins(c, w)
<1>t. GraphTyped /\ graph \in Graphs /\ own \in Counts
  BY DEF GraphInv, GraphCore, Wired
<1>1. PICK p : p = Setup!Top.m
  OBVIOUS
<1>2. /\ calling = None /\ stack # <<>> /\ body[p] = "validating"
      /\ UNCHANGED <<graph, edge, links, globals, own, built, boot>>
  BY <1>1 DEF Setup!Validate, Setup!On
<1>3. p \in Modules /\ boot = "modules"
  BY <1>t, <1>1, <1>2, Frames1 DEF GraphTyped, Setup!Top, Wired
<1>4. ASSUME NEW c \in Setup!Unchecked(p), asked' = [asked EXCEPT ![c] = "validating"],
             Setup!Get(c, graph.needs[c]), UNCHANGED body
      PROVE  c \in Controllers /\ \E w : Begins(c, w)
  <2>1. c \in Controllers /\ graph.seat[c] = p /\ c \in Setup!Validated(p) /\ asked[c] = "no"
    BY <1>t, Seats DEF GraphTyped, Setup!Unchecked
  <2>2. PICK w : w = Setup!Lookup(Root, graph.needs[c])
    OBVIOUS
  <2>3. graph.needs[c] \in Tokens \cup {None} /\ Root \in Modules
    BY <1>t, <2>1, Chained
  <2>4. w \in Setup!Wrappers \cup {None}
    BY <1>t, <2>2, <2>3, LookupTyped
  <2>5. Setup!loadInstance(c, w)
    BY <1>4, <2>2 DEF Setup!Get
  <2>6. body[graph.seat[c]] \in PastImports
    BY <1>2, <2>1 DEF PastImports
  <2>7. Begins(c, w)
    BY <1>2, <1>3, <1>4, <2>1, <2>2, <2>4, <2>5, <2>6, BeginsInModule
  <2> QED BY <2>1, <2>7
<1>5. ASSUME UNCHANGED asked, Setup!gets' = Setup!gets,
             body' = [body EXCEPT ![p] =
                        IF \E c \in Setup!Validated(p) : asked[c] = "missing" THEN "failed"
                        ELSE Setup!AfterValidation(p)]
      PROVE  Controls(p)
  <2>1. Still
    BY <1>2, <1>5 DEF Still, Setup!gets
  <2>2. Setup!Validated(p) \subseteq Controllers
    BY <1>t, Seats DEF GraphTyped
  <2>3. Setup!AfterValidation(p) \in {"hooks", "done"}
    BY DEF Setup!AfterValidation
  <2>4. PICK b \in {"hooks", "done", "failed"} :
            /\ body' = [body EXCEPT ![p] = b]
            /\ b = "failed" => \E c \in Setup!Validated(p) : asked[c] = "missing"
    BY <1>5, <2>3
  <2> QED BY <1>2, <2>1, <2>2, <2>4 DEF Controls
<1>6. \/ \E c \in Setup!Unchecked(p) : /\ asked' = [asked EXCEPT ![c] = "validating"]
                                       /\ Setup!Get(c, graph.needs[c]) /\ UNCHANGED body
      \/ /\ UNCHANGED asked /\ Setup!gets' = Setup!gets
         /\ body' = [body EXCEPT ![p] =
                        IF \E c \in Setup!Validated(p) : asked[c] = "missing" THEN "failed"
                        ELSE Setup!AfterValidation(p)]
  BY <1>1 DEF Setup!Validate
<1> QED BY <1>3, <1>4, <1>5, <1>6

LEMMA SetupHooksIs ==
    ASSUME ApplicationAssumption, GraphInv, Wired, PathsInv, NEW p \in Modules, Setup!SetupHooks(p)
    PROVE  \E c \in Controllers : \E w : Begins(c, w)
<1>1. /\ calling = None /\ boot = "modules" /\ body[p] = "hooks"
      /\ UNCHANGED <<graph, body, edge, links, globals, own, built, boot>>
      /\ \E c \in Setup!Unhooked(p) : /\ asked' = [asked EXCEPT ![c] = "hooking"]
                                      /\ Setup!loadInstance(c, Setup!ControllerWrapper(c))
  BY DEF Setup!SetupHooks
<1>2. PICK c \in Setup!Unhooked(p) : /\ asked' = [asked EXCEPT ![c] = "hooking"]
                                     /\ Setup!loadInstance(c, Setup!ControllerWrapper(c))
  BY <1>1
<1>3. c \in Controllers /\ graph.seat[c] = p /\ c \in Setup!Hooked(p) /\ asked[c] \in {"no", "found"}
  BY Seats DEF GraphInv, GraphCore, GraphTyped, Setup!Unhooked
<1>4. PICK w \in Setup!Wrappers : w = Setup!ControllerWrapper(c)
  BY <1>3, ControllerTyped
<1>5. body[graph.seat[c]] \in PastImports
  BY <1>1, <1>3 DEF PastImports
<1> QED BY <1>1, <1>2, <1>3, <1>4, <1>5, BeginsInModule

\* While the boot goes on no module waits for a get() any more.
LEMMA NobodyElse ==
    ASSUME ApplicationAssumption, GraphInv, Wired, PathsInv, boot \in {"providers", "ok"}
    PROVE  \A c \in Controllers : ~UnderWay(c)
<1> SUFFICES ASSUME NEW c \in Controllers, UnderWay(c) PROVE FALSE
  OBVIOUS
<1>1. asked[c] \in {"validating", "hooking"} /\ graph.seat[c] \in Modules
  BY Chained DEF PathsInv, Awaited, Wired
<1>2. body[graph.seat[c]] \in {"validating", "hooks", "failed"}
  BY <1>1 DEF GraphInv, Asks
<1>3. body[graph.seat[c]] \in {"none", "done"}
  BY <1>1, GraphKeeps DEF RootLast, Setup!RootLast
<1> QED BY <1>2, <1>3

LEMMA LoadingIs ==
    ASSUME ApplicationAssumption, GraphInv, Wired, PathsInv,
           \/ \E t \in Tokens : Setup!LoadProvider(t)
           \/ \E d \in Controllers : Setup!LoadController(d)
    PROVE  \E w : Begins(Root, w)
<1>1. /\ boot = "providers" /\ calling # Root /\ path[Root] = <<>> /\ Root \notin failing
      /\ UNCHANGED <<graph, stack, body, edge, links, globals, own, asked, built, boot>>
      /\ \/ \E t \in Setup!Unbuilt : Setup!Get(Root, t)
         \/ \E d \in Setup!Unserved : Setup!loadInstance(Root, Setup!ControllerWrapper(d))
  BY DEF Setup!LoadProvider, Setup!LoadController, Setup!Loading, Setup!Answered
<1>2. Root \in Setup!Callers /\ Root \in Modules /\ graph \in Graphs /\ own \in Counts /\ GetsTyped
  BY Chained DEF Setup!Callers, Wired, PathsInv
<1>3. calling = None
  <2>1. \A c \in Controllers : calling # c
    BY <1>1, NobodyElse DEF UnderWay
  <2> QED BY <1>1, <1>2, <2>1 DEF GetsTyped, Setup!Callers
<1>4. ASSUME NEW w \in Setup!Wrappers \cup {None}, Setup!loadInstance(Root, w),
             \/ \E t \in Setup!Unbuilt : w = Setup!Lookup(Root, t)
             \/ \E d \in Setup!Unserved : w = Setup!ControllerWrapper(d)
      PROVE  Begins(Root, w)
  <2>1. Enters(Root, w)
    BY <1>2, <1>4, EntersIs
  <2> QED BY <1>1, <1>2, <1>3, <1>4, <2>1 DEF Begins
<1>5. ASSUME NEW t \in Setup!Unbuilt, Setup!Get(Root, t) PROVE \E w : Begins(Root, w)
  <2>1. PICK w : w = Setup!Lookup(Root, t)
    OBVIOUS
  <2>2. t \in Tokens
    BY DEF Setup!Unbuilt
  <2>3. w \in Setup!Wrappers \cup {None}
    BY <1>2, <2>1, <2>2, LookupTyped
  <2> QED BY <1>4, <1>5, <2>1, <2>3 DEF Setup!Get
<1>6. ASSUME NEW d \in Setup!Unserved, Setup!loadInstance(Root, Setup!ControllerWrapper(d))
      PROVE  \E w : Begins(Root, w)
  <2>1. PICK w : w = Setup!ControllerWrapper(d)
    OBVIOUS
  <2>2. d \in Controllers
    BY DEF Setup!Unserved
  <2>3. w \in Setup!Wrappers
    BY <2>1, <2>2, ControllerTyped
  <2> QED BY <1>4, <1>6, <2>1, <2>3
<1> QED BY <1>1, <1>5, <1>6

LEMMA DescendIs ==
    ASSUME ApplicationAssumption, GraphInv, Wired, PathsInv, Setup!Descend
    PROVE  \E c, w : Goes(c, w)
<1>1. PICK c : c = calling
  OBVIOUS
<1>2. PICK w : w = Setup!LastFrame(c).dep
  OBVIOUS
<1>3. /\ c # None /\ Setup!loadInstance(c, w)
      /\ UNCHANGED <<graph, stack, body, edge, links, globals, own, asked, built, boot>>
  BY <1>1, <1>2 DEF Setup!Descend
<1>4. c \in Setup!Callers /\ GetsTyped /\ graph \in Graphs /\ own \in Counts
  BY <1>1, <1>3 DEF PathsInv, GetsTyped, Wired
<1>5. path[c] # <<>> /\ path[c] \in Seq(Setup!Frame)
  BY <1>1, <1>4 DEF PathsInv, LinkedIn, GetsTyped
<1>6. Setup!LastFrame(c) \in Setup!Frame
  <2>1. PICK s \in Seq(Setup!Frame) : s = path[c] /\ s # <<>>
    BY <1>5
  <2>2. s[Len(s)] \in Setup!Frame
    BY <2>1, BelowIs
  <2> QED BY <2>1, <2>2 DEF Setup!LastFrame
<1>7. w \in Setup!Wrappers \cup {None}
  BY <1>2, <1>6 DEF Setup!Frame
<1>8. Enters(c, w)
  BY <1>3, <1>4, <1>7, EntersIs
<1> QED BY <1>1, <1>2, <1>3, <1>4, <1>7, <1>8 DEF Goes

LEMMA BuildsIs ==
    ASSUME PathsInv, NEW c \in Setup!Callers, Setup!Load(c)
    PROVE  Builds(c)
<1>1. /\ calling = None /\ stack = <<>> /\ boot \in {"modules", "providers"} /\ path[c] # <<>>
      /\ path' = [path EXCEPT ![c] = Setup!Below(@)] /\ chain' = Setup!Below(chain)
      /\ built' = IF c \in failing THEN built ELSE Append(built, Setup!LastFrame(c))
      /\ UNCHANGED <<graph, stack, body, edge, links, globals, own, asked, calling, failing, met, boot>>
  BY DEF Setup!Load
<1>2. Setup!LastFrame(c) \in Setup!Frame /\ Less(c, Setup!LastFrame(c))
  BY <1>1, LessIs DEF PathsInv
<1> QED BY <1>1, <1>2 DEF Builds

LEMMA EndsIs ==
    ASSUME ApplicationAssumption, GraphInv, NEW c \in Controllers,
           Setup!Checked(c) \/ Setup!HookSettles(c)
    PROVE  Ends(c)
<1>p. PICK p \in Modules : p = graph.seat[c]
  BY Seats DEF GraphInv, GraphCore, GraphTyped
<1>t. GraphTyped /\ Asks
  BY DEF GraphInv, GraphCore
<1>1. /\ stack = <<>> /\ boot = "modules" /\ calling = None /\ path[c] = <<>>
      /\ asked[c] \in {"validating", "hooking"}
      /\ UNCHANGED <<graph, edge, globals, own, calling, path, chain, built, met, boot>>
      /\ failing' = failing \ {c}
  BY DEF Setup!Checked, Setup!HookSettles, Setup!Idle, Setup!Answered
<1>2. CASE Setup!Checked(c)
  <2>1. UNCHANGED body
    BY <1>2 DEF Setup!Checked
  <2>2. \E a \in {"found", "missing", "hooked"} :
            asked' = [asked EXCEPT ![c] = a] /\ (a = "missing" => c \in failing)
    BY <1>2 DEF Setup!Checked
  <2> QED BY <1>1, <2>1, <2>2 DEF Ends
<1>3. CASE Setup!HookSettles(c)
  <2>1. /\ asked[c] = "hooking"
        /\ asked' = [asked EXCEPT ![c] = IF c \in failing THEN "missing" ELSE "hooked"]
        /\ body' = [body EXCEPT ![p] = IF c \in failing THEN "failed"
                  ELSE IF \A d \in Setup!Hooked(p) \ {c} : asked[d] = "hooked" THEN "done"
                  ELSE body[p]]
    BY <1>3, <1>p DEF Setup!HookSettles
  <2>2. \E a \in {"found", "missing", "hooked"} :
            asked' = [asked EXCEPT ![c] = a] /\ (a = "missing" => c \in failing)
    BY <2>1
  <2>3. /\ body[p] \in {"hooks", "failed"} /\ body \in [Modules -> Setup!Bodies]
        /\ body[p] = "failed" => \E d \in Setup!Hooked(p) : asked[d] = "missing"
    BY <1>p, <1>t, <2>1 DEF Asks, GraphTyped
  <2>4. CASE body[p] = "failed"
    <3>1. ~ \A d \in Setup!Hooked(p) \ {c} : asked[d] = "hooked"
      BY <2>1, <2>3, <2>4
    <3>2. body' = [body EXCEPT ![p] = body[p]]
      BY <2>1, <2>4, <3>1
    <3>3. UNCHANGED body
      BY <2>3, <3>2
    <3> QED BY <1>1, <2>2, <3>3 DEF Ends
  <2>5. CASE body[p] = "hooks"
    <3>1. \/ body' = [body EXCEPT ![p] = body[p]]
          \/ \E b \in {"done", "failed"} : /\ body' = [body EXCEPT ![p] = b]
                                           /\ b = "failed" => c \in failing
      BY <2>1
    <3>2. \/ UNCHANGED body
          \/ \E b \in {"done", "failed"} : /\ body' = [body EXCEPT ![p] = b]
                                           /\ b = "failed" => c \in failing
      BY <2>3, <3>1
    <3> QED BY <1>p, <1>1, <2>2, <2>5, <3>2 DEF Ends
  <2> QED BY <2>3, <2>4, <2>5
<1> QED BY <1>2, <1>3

\* Every step of the set-up is one of these.
LEMMA SetupSteps ==
    ASSUME ApplicationAssumption, GraphInv, Wired, PathsInv, Setup!Next
    PROVE  \/ \E p \in Modules : \E i \in DOMAIN graph.imports[p] : \E m \in Modules : Calls(p, i, m)
           \/ boot = "modules" /\ \E p \in Modules : Settles(p) \/ Awaits(p) \/ Controls(p)
           \/ \E p \in Modules : \E i \in DOMAIN graph.imports[p] : Applies(p, i) \/ Fails(p, i)
           \/ \E c, w : Begins(c, w) \/ Goes(c, w)
           \/ \E c : Builds(c) \/ Ends(c)
           \/ Setup!ModulesSettle \/ Setup!Boots
<1>0. own \in Counts
  BY DEF Wired
<1>1. CASE Setup!CallImport
  BY <1>0, <1>1, CallIs
<1>2. CASE Setup!EndOfImports
  <2>1. stack # <<>> /\ \E p \in Modules : Settles(p) \/ Awaits(p)
    BY <1>0, <1>2, EndOfImportsIs
  <2>2. boot = "modules"
    BY <2>1 DEF Wired
  <2> QED BY <2>1, <2>2
<1>3. CASE Setup!Validate
  BY <1>3, ValidateIs
<1>4. ASSUME NEW p \in Modules, Setup!Register(p)
      PROVE  boot = "modules" /\ \E q \in Modules : Settles(q) \/ Awaits(q) \/ Controls(q)
  <2>1. /\ boot = "modules" /\ body[p] = "importing" /\ Setup!RegisterModule(p, <<>>)
        /\ UNCHANGED <<graph, edge, globals, boot>> /\ Still
    BY <1>4 DEF Setup!Register, Setup!Idle, Setup!gets, Still
  <2>2. Settles(p)
    BY <1>0, <2>1, SettlesIs
  <2> QED BY <2>1, <2>2
<1>5. ASSUME NEW p \in Modules, NEW i \in DOMAIN edge[p],
             Setup!ImportSettles(p, i) \/ Setup!ImportFails(p, i)
      PROVE  i \in DOMAIN graph.imports[p] /\ (Applies(p, i) \/ Fails(p, i))
  <2>1. i \in DOMAIN graph.imports[p]
    BY DEF GraphInv, GraphCore, GraphTyped
  <2>2. CASE Setup!ImportSettles(p, i)
    BY <1>0, <2>1, <2>2, AppliesIs
  <2>3. CASE Setup!ImportFails(p, i)
    BY <2>1, <2>3 DEF Setup!ImportFails, Setup!Idle, Setup!imports, Setup!gets, Fails, Still
  <2> QED BY <1>5, <2>1, <2>2, <2>3
<1>6. ASSUME NEW p \in Modules, Setup!SetupHooks(p) PROVE \E c, w : Begins(c, w)
  BY <1>6, SetupHooksIs
<1>7. CASE \/ \E t \in Tokens : Setup!LoadProvider(t)
           \/ \E d \in Controllers : Setup!LoadController(d)
  BY <1>7, LoadingIs
<1>8. CASE Setup!Descend
  BY <1>8, DescendIs
<1>9. ASSUME NEW c \in Setup!Callers, Setup!Load(c) PROVE Builds(c)
  BY <1>9, BuildsIs
<1>10. ASSUME NEW c \in Controllers, Setup!Checked(c) \/ Setup!HookSettles(c) PROVE Ends(c)
  BY <1>10, EndsIs
<1> QED BY <1>1, <1>2, <1>3, <1>4, <1>5, <1>6, <1>7, <1>8, <1>9, <1>10 DEF Setup!Next

LEMMA WiredOn ==
    ASSUME Wired, ApplicationAssumption, UNCHANGED graph, own' \in Counts, Grows,
           \A m \in Modules : body'[m] \in PastImports =>
               body[m] \in PastImports \/ RegisteredIn(m)',
           boot' # "modules" => stack' = <<>>,
           boot' = "ok" => (Setup!Unbuilt = {} /\ Setup!Unserved = {})'
    PROVE  Wired'
<1>2. \A m \in Modules : body'[m] \in PastImports => RegisteredIn(m)'
  <2> SUFFICES ASSUME NEW m \in Modules, body[m] \in PastImports PROVE RegisteredIn(m)'
    OBVIOUS
  <2>1. RegisteredIn(m)
    BY DEF Wired
  <2>2. Root \in Modules /\ own \in Counts
    BY DEF ApplicationAssumption, Setup!ModuleGraphAssumption, Wired
  <2>3. \A t \in Tokens : own[Root][t] \in Nat /\ own'[Root][t] \in Nat /\ own'[Root][t] >= own[Root][t]
    BY <2>2 DEF Counts, Grows
  <2> QED BY <2>1, <2>3 DEF RegisteredIn
<1> QED BY <1>2 DEF Wired

\* Nothing is registered.
LEMMA WiredStays ==
    ASSUME Wired, ApplicationAssumption, UNCHANGED <<graph, own>>,
           \A m \in Modules : body'[m] \in PastImports => body[m] \in PastImports,
           boot' # "modules" => stack' = <<>>,
           boot' = "ok" => (Setup!Unbuilt = {} /\ Setup!Unserved = {})'
    PROVE  Wired'
<1>1. own' \in Counts /\ Grows
  BY DEF Wired, Counts, Grows
<1> QED BY <1>1, WiredOn

LEMMA NothingLeft ==
    ASSUME UNCHANGED <<graph, body, own, built, globals, links>>
    PROVE  Setup!Unbuilt' = Setup!Unbuilt /\ Setup!Unserved' = Setup!Unserved
<1>1. \A m, t : Setup!Finds(m, t)' = Setup!Finds(m, t) /\ Setup!Wrapper(m, t)' = Setup!Wrapper(m, t)
  BY DEF Setup!Finds, Setup!Reach, Setup!Wrapper
<1>2. \A m, t : Setup!Lookup(m, t)' = Setup!Lookup(m, t)
  BY <1>1 DEF Setup!Lookup
<1>3. \A w : Setup!Resolved(w)' = Setup!Resolved(w)
  BY DEF Setup!Resolved
<1>4. \A c : Setup!ControllerWrapper(c)' = Setup!ControllerWrapper(c)
  BY DEF Setup!ControllerWrapper
<1> QED BY <1>2, <1>3, <1>4 DEF Setup!Unbuilt, Setup!Unserved

LEMMA WiredOnCall ==
    ASSUME ApplicationAssumption, GraphInv, Wired,
           NEW p \in Modules, NEW i \in DOMAIN graph.imports[p], NEW m \in Modules, Calls(p, i, m)
    PROVE  Wired'
<1>1. boot = "modules" /\ boot' = boot /\ UNCHANGED graph
  BY DEF Wired, Calls
<1>2. own \in Counts /\ own' \in Counts
  BY DEF Wired, Calls
<1>3. Grows
  <2> SUFFICES ASSUME NEW x \in Modules, NEW t \in Tokens PROVE own'[x][t] >= own[x][t]
    BY DEF Grows
  <2>1. own[x][t] \in Nat
    BY <1>2 DEF Counts
  <2>2. own'[x][t] = own[x][t] + 1 \/ own'[x][t] = own[x][t]
    BY DEF Calls
  <2> QED BY <2>1, <2>2
<1>4. \A q \in Modules : body'[q] = body[q] \/ body'[q] = "running"
  BY DEF Calls
<1>5. \A q \in Modules : body'[q] \in PastImports => body[q] \in PastImports
  BY <1>4 DEF PastImports
<1> QED BY <1>1, <1>2, <1>3, <1>5, WiredOn

LEMMA WiredOnSettles ==
    ASSUME ApplicationAssumption, GraphInv, Wired, NEW p \in Modules, Settles(p), boot = "modules"
    PROVE  Wired'
<1>1. PICK b \in {"validating", "hooks", "done"} : body' = [body EXCEPT ![p] = b]
  BY DEF Settles
<1>2. /\ UNCHANGED <<graph, boot>> /\ own' \in Counts /\ Grows
      /\ \A t \in Tokens : graph.home[t] = p => own'[Root][t] > own[Root][t]
  BY DEF Settles
<1>3. body'[p] = b /\ \A q \in Modules : q # p => body'[q] = body[q]
  BY <1>1 DEF GraphInv, GraphCore, GraphTyped
<1>4. RegisteredIn(p)'
  <2>1. Root \in Modules /\ own \in Counts
    BY DEF ApplicationAssumption, Setup!ModuleGraphAssumption, Wired
  <2>2. \A t \in Tokens : own[Root][t] \in Nat /\ own'[Root][t] \in Nat
    BY <1>2, <2>1 DEF Counts
  <2>3. \A t \in Tokens : graph'.home[t] = p => own'[Root][t] > 0
    BY <1>2, <2>2
  <2> QED BY <2>3 DEF RegisteredIn
<1>5. \A q \in Modules : body'[q] \in PastImports => body[q] \in PastImports \/ RegisteredIn(q)'
  BY <1>3, <1>4
<1>6. boot' = "modules"
  BY <1>2
<1> QED BY <1>2, <1>5, <1>6, WiredOn

LEMMA WiredOnApplies ==
    ASSUME ApplicationAssumption, Wired, NEW p \in Modules, NEW i, Applies(p, i)
    PROVE  Wired'
<1>1. own \in Counts /\ own' \in Counts /\ boot' = "modules" /\ UNCHANGED <<graph, body>>
  BY DEF Wired, Applies
<1>2. Grows
  <2> SUFFICES ASSUME NEW x \in Modules, NEW t \in Tokens PROVE own'[x][t] >= own[x][t]
    BY DEF Grows
  <2>1. own[x][t] \in Nat
    BY <1>1 DEF Counts
  <2>2. own'[x][t] = own[x][t] + 1 \/ own'[x][t] = own[x][t]
    BY DEF Applies
  <2> QED BY <2>1, <2>2
<1> QED BY <1>1, <1>2, WiredOn

LEMMA WiredStep ==
    ASSUME ApplicationAssumption, GraphInv, Wired, PathsInv, [Setup!Next]_setup
    PROVE  Wired'
<1>t. body \in [Modules -> Setup!Bodies]
  BY DEF GraphInv, GraphCore, GraphTyped
<1>1. CASE UNCHANGED <<graph, stack, body, own, built, globals, links, boot>>
  BY <1>1, WiredStays, NothingLeft DEF Wired
<1>2. ASSUME NEW p \in Modules, boot = "modules", Awaits(p) \/ Controls(p) PROVE Wired'
  <2>1. \A q \in Modules : body'[q] = body[q] \/ q = p
    BY <1>t, <1>2 DEF Awaits, Controls
  <2>2. body'[p] = "importing" \/ body[p] \in PastImports
    BY <1>t, <1>2 DEF Awaits, Controls, PastImports
  <2>3. \A q \in Modules : body'[q] \in PastImports => body[q] \in PastImports
    BY <2>1, <2>2 DEF PastImports
  <2>4. UNCHANGED <<graph, own>> /\ boot' = "modules"
    BY <1>2 DEF Awaits, Controls
  <2> QED BY <2>3, <2>4, WiredStays
<1>3. ASSUME NEW p \in Modules, NEW i, Fails(p, i) PROVE Wired'
  <2>1. \A q \in Modules : body'[q] = body[q] \/ body'[q] = "failed"
    BY <1>t, <1>3 DEF Fails
  <2>2. \A q \in Modules : body'[q] \in PastImports => body[q] \in PastImports
    BY <2>1 DEF PastImports
  <2>3. UNCHANGED <<graph, own>> /\ boot' = "modules"
    BY <1>3 DEF Fails
  <2> QED BY <2>2, <2>3, WiredStays
<1>4. ASSUME NEW c, NEW w, Begins(c, w) PROVE Wired'
  <2>1. UNCHANGED <<graph, own, body, boot>> /\ boot \in {"modules", "providers"}
        /\ (boot = "modules" \/ UNCHANGED stack)
    BY <1>4 DEF Begins
  <2> QED BY <2>1, WiredStays DEF Wired
<1>5. ASSUME NEW c, NEW w, Goes(c, w) PROVE Wired'
  BY <1>1, <1>5 DEF Goes
<1>6. ASSUME NEW c, Builds(c) PROVE Wired'
  <2>1. UNCHANGED <<graph, own, body, boot, stack>> /\ boot \in {"modules", "providers"}
    BY <1>6 DEF Builds
  <2> QED BY <2>1, WiredStays DEF Wired
<1>7. ASSUME NEW c, Ends(c) PROVE Wired'
  <2>1. UNCHANGED <<graph, own, boot>> /\ boot = "modules"
    BY <1>7 DEF Ends
  <2>2. \A q \in Modules : body'[q] = body[q] \/ body[q] = "hooks"
    BY <1>t, <1>7 DEF Ends
  <2>3. \A q \in Modules : body'[q] \in PastImports => body[q] \in PastImports
    BY <2>2 DEF PastImports
  <2> QED BY <2>1, <2>3, WiredStays
<1>8. CASE Setup!ModulesSettle
  <2>1. UNCHANGED <<graph, stack, body, own>> /\ stack = <<>> /\ boot' # "ok"
    BY <1>8 DEF Setup!ModulesSettle, Setup!Idle
  <2> QED BY <2>1, WiredStays
<1>9. CASE Setup!Boots
  <2>1. /\ UNCHANGED <<graph, stack, body, links, globals, own, built>> /\ boot = "providers"
        /\ boot' = "ok" => Setup!Unbuilt = {} /\ Setup!Unserved = {}
    BY <1>9 DEF Setup!Boots, Setup!Loading
  <2>2. stack' = <<>>
    BY <2>1 DEF Wired
  <2> QED BY <2>1, <2>2, WiredStays, NothingLeft
<1>10. CASE Setup!Next
  BY <1>2, <1>3, <1>4, <1>5, <1>6, <1>7, <1>8, <1>9, <1>10, SetupSteps, WiredOnCall, WiredOnSettles,
     WiredOnApplies
<1>11. CASE UNCHANGED setup
  BY <1>1, <1>11 DEF setup
<1> QED BY <1>10, <1>11

LEMMA TakesStay ==
    ASSUME UNCHANGED graph
    PROVE  \A w : Setup!Takes(w)' = Setup!Takes(w)
BY DEF Setup!Takes

\* What has an instance keeps it.
LEMMA ResolvedStays ==
    ASSUME GetsTyped, NEW f \in Setup!Frame, built' \in {built, Append(built, f)}
    PROVE  /\ \A w : Setup!Resolved(w) => Setup!Resolved(w)'
           /\ built' = Append(built, f) => Setup!Resolved(f.w)'
           /\ built' \in Seq(Setup!Frame)
<1>1. built \in Seq(Setup!Frame)
  BY DEF GetsTyped
<1>2. CASE built' = built
  <2>1. CASE built' = Append(built, f)
    <3>1. Len(built') = Len(built) + 1 /\ Len(built) \in Nat
      BY <1>1, <2>1, EntryOf
    <3> QED BY <1>2, <3>1
  <2> QED BY <1>1, <1>2, <2>1 DEF Setup!Resolved
<1>3. CASE built' = Append(built, f)
  <2>1. PICK n : n = Len(built)
    OBVIOUS
  <2>2. /\ built' \in Seq(Setup!Frame) /\ n \in Nat /\ DOMAIN built = 1 .. n
        /\ DOMAIN built' = 1 .. n + 1
        /\ built'[n + 1] = f /\ \A k \in 1 .. n : built'[k] = built[k]
    BY <1>1, <1>3, <2>1, EntryOf
  <2>3. n + 1 \in 1 .. n + 1 /\ \A k \in 1 .. n : k \in 1 .. n + 1
    BY <2>2
  <2> QED BY <2>2, <2>3 DEF Setup!Resolved
<1> QED BY <1>2, <1>3

\* A get() that is made, or goes on, leaves the others alone.
LEMMA PathsOnEnter ==
    ASSUME ApplicationAssumption, Wired, PathsInv, NEW c \in Setup!Callers,
           NEW w \in Setup!Wrappers \cup {None}, Enters(c, w), UNCHANGED <<graph, own, built>>,
           calling \in {None, c}, c \notin failing,
           path[c] # <<>> => w = Setup!LastFrame(c).dep
    PROVE  /\ GetsTyped' /\ Complete' /\ \A d \in Setup!Callers : LinkedIn(d)'
           /\ \A d \in Setup!Callers : d # c /\ UnderWay(d)' => UnderWay(d)
           /\ calling' \in {None, c} /\ \A d \in Setup!Callers : d # c => path'[d] = path[d]
<1>0. /\ GetsTyped /\ graph \in Graphs /\ own \in Counts /\ None \notin Setup!Wrappers
      /\ None \notin Setup!Callers /\ c # None
  BY Chained DEF PathsInv, Wired, Setup!Callers
<1>1. /\ \A v : Setup!Takes(v)' = Setup!Takes(v) /\ Setup!Resolved(v)' = Setup!Resolved(v)
      /\ \A f : Fits(f)' = Fits(f) /\ Filled(f)' = Filled(f)
  BY TakesStay DEF Setup!Resolved, Fits, Filled
<1>2. /\ calling' \in {None, c} /\ \A d : d # c => (d \in failing' <=> d \in failing)
      /\ \A d \in Setup!Callers : d # c => path'[d] = path[d]
  BY <1>0 DEF Enters, Misses, Hits, Collides, Pushes, Longer
<1>3. \A d \in Setup!Callers : d # c /\ UnderWay(d)' => UnderWay(d)
  BY <1>0, <1>2 DEF UnderWay
<1>4. ASSUME NEW d \in Setup!Callers, d # c PROVE LinkedIn(d)'
  <2>1. /\ path'[d] = path[d] /\ calling' # d /\ calling # d
        /\ d \in failing' <=> d \in failing
    BY <1>0, <1>2, <1>4
  <2>2. Setup!LastFrame(d)' = Setup!LastFrame(d)
    BY <2>1 DEF Setup!LastFrame
  <2> QED BY <1>1, <2>1, <2>2 DEF PathsInv, LinkedIn
<1>5. Complete'
  BY <1>1 DEF PathsInv, Complete
<1>6. \A v \in Setup!Wrappers : met \cup {v} \subseteq Setup!Wrappers
  BY <1>0 DEF GetsTyped
<1>7. CASE Misses(c, w)
  <2>1. /\ failing' = failing \cup {c} /\ calling' = None /\ UNCHANGED <<path, chain, met>>
    BY <1>7 DEF Misses
  <2>2. GetsTyped'
    BY <1>0, <2>1 DEF GetsTyped, Setup!Callers
  <2>3. LinkedIn(c)'
    BY <1>0, <1>1, <2>1 DEF PathsInv, LinkedIn
  <2> QED BY <1>2, <1>3, <1>4, <1>5, <2>2, <2>3
<1>8. CASE Collides(c, w)
  <2>1. /\ failing' = failing \cup {c} /\ calling' = None /\ UNCHANGED <<path, chain>>
        /\ w \in Setup!Wrappers /\ met' \in {met, met \cup {w}}
    BY <1>8 DEF Collides, Meets
  <2>2. GetsTyped'
    BY <1>0, <1>6, <2>1 DEF GetsTyped, Setup!Callers
  <2>3. LinkedIn(c)'
    BY <1>0, <1>1, <2>1 DEF PathsInv, LinkedIn
  <2> QED BY <1>2, <1>3, <1>4, <1>5, <2>2, <2>3
<1>9. CASE Hits(c, w)
  <2>1. /\ w \in Setup!Wrappers /\ Setup!Resolved(w) /\ calling' = None
        /\ UNCHANGED <<path, failing, chain, met>>
    BY <1>9 DEF Hits
  <2>2. GetsTyped'
    BY <1>0, <2>1 DEF GetsTyped, Setup!Callers
  <2>3. path[c] # <<>> => Filled(Setup!LastFrame(c))
    BY <1>0, <2>1 DEF Filled
  <2>4. Setup!LastFrame(c)' = Setup!LastFrame(c)
    BY <2>1 DEF Setup!LastFrame
  <2>5. LinkedIn(c)'
    BY <1>0, <1>1, <2>1, <2>3, <2>4 DEF PathsInv, LinkedIn
  <2> QED BY <1>2, <1>3, <1>4, <1>5, <2>2, <2>5
<1>10. CASE Pushes(c, w)
  <2>1. PICK f : f = Entry(w)
    OBVIOUS
  <2>2. /\ w \in Setup!Wrappers /\ chain' = Append(chain, w) /\ Longer(c, f)
        /\ calling' = IF Setup!Takes(w) = None THEN None ELSE c
        /\ UNCHANGED failing /\ met' \in {met, met \cup {w}}
    BY <1>10, <2>1 DEF Pushes, Meets
  <2>3. f \in Setup!Frame /\ f.w = w /\ Fits(f)
    BY <1>0, <2>1, <2>2, EntryTyped DEF Fits
  <2>4. chain' \in Seq(Setup!Wrappers)
    BY <1>0, <2>2, EntryOf DEF GetsTyped
  <2>5. GetsTyped'
    BY <1>0, <1>6, <2>2, <2>4 DEF GetsTyped, Longer, Setup!Callers
  <2>6. PICK n \in Nat :
            /\ DOMAIN path[c] = 1 .. n /\ DOMAIN path'[c] = 1 .. n + 1
            /\ \A k \in 1 .. n : path'[c][k] = path[c][k]
            /\ path'[c][n + 1] = f /\ path'[c] # <<>> /\ Setup!LastFrame(c)' = f
            /\ n # 0 => path[c] # <<>> /\ Setup!LastFrame(c) = path[c][n]
    BY <2>2 DEF Longer
  <2>l. LinkedIn(c)
    BY DEF PathsInv
  <2>7. \A k \in 1 .. n + 1 : Fits(path'[c][k])
    <3>1. \A k \in 1 .. n + 1 : k = n + 1 \/ k \in 1 .. n
      OBVIOUS
    <3> QED BY <2>3, <2>6, <2>l, <3>1 DEF LinkedIn
  <2>8. ASSUME NEW j \in 1 .. n + 1, NEW k \in 1 .. n + 1, k = j + 1
        PROVE  path'[c][j].dep # None /\ path'[c][k].w = path'[c][j].dep
    <3>1. CASE k = n + 1
      <4>1. j = n /\ n # 0 /\ j \in 1 .. n
        BY <2>8, <3>1
      <4>2. path'[c][j] = Setup!LastFrame(c) /\ w = Setup!LastFrame(c).dep
        BY <2>6, <4>1
      <4> QED BY <1>0, <2>2, <2>3, <2>6, <3>1, <4>2
    <3>2. CASE k # n + 1
      <4>1. j \in 1 .. n /\ k \in 1 .. n
        BY <2>8, <3>2
      <4> QED BY <2>6, <2>8, <2>l, <4>1 DEF LinkedIn
    <3> QED BY <3>1, <3>2
  <2>9. calling' # c => Filled(f)
    BY <2>2, <2>3 DEF Filled
  <2>10. calling' = c => Setup!Takes(f.w) # None /\ c \notin failing'
    BY <1>0, <2>2, <2>3
  <2>11. LinkedIn(c)'
    BY <1>1, <2>6, <2>7, <2>8, <2>9, <2>10 DEF LinkedIn
  <2> QED BY <1>2, <1>3, <1>4, <1>5, <2>5, <2>11
<1> QED BY <1>7, <1>8, <1>9, <1>10 DEF Enters

LEMMA PathsOnBuilds ==
    ASSUME ApplicationAssumption, Wired, PathsInv, NEW c, Builds(c)
    PROVE  PathsInv'
<1>1. /\ calling = None /\ path[c] # <<>> /\ c \in Setup!Callers
      /\ Setup!LastFrame(c) \in Setup!Frame /\ Less(c, Setup!LastFrame(c))
      /\ chain' = Setup!Below(chain)
      /\ built' = IF c \in failing THEN built ELSE Append(built, Setup!LastFrame(c))
      /\ UNCHANGED <<graph, own, asked, calling, failing, met, boot>>
  BY DEF Builds
<1>0. /\ GetsTyped /\ LinkedIn(c) /\ None \notin Setup!Callers
  BY <1>1, Chained DEF PathsInv, Wired, Setup!Callers
<1>2. PICK f \in Setup!Frame : f = Setup!LastFrame(c)
  BY <1>1
<1>3. PICK n \in Nat :
          /\ DOMAIN path[c] = 1 .. n + 1 /\ DOMAIN path'[c] = 1 .. n
          /\ \A k \in 1 .. n : path'[c][k] = path[c][k]
          /\ path[c][n + 1] = f
          /\ n = 0 => path'[c] = <<>>
          /\ n # 0 => path'[c] # <<>> /\ Setup!LastFrame(c)' = path[c][n]
  BY <1>1, <1>2 DEF Less
<1>4. /\ \A v : Setup!Resolved(v) => Setup!Resolved(v)'
      /\ c \notin failing => Setup!Resolved(f.w)'
      /\ built' \in Seq(Setup!Frame)
  BY <1>0, <1>1, <1>2, ResolvedStays
<1>5. /\ \A v : Setup!Takes(v)' = Setup!Takes(v)
      /\ \A g : Fits(g)' = Fits(g) /\ (Filled(g) => Filled(g)')
  BY <1>1, <1>4, TakesStay DEF Fits, Filled
<1>6. chain' \in Seq(Setup!Wrappers)
  <2>1. PICK s \in Seq(Setup!Wrappers) : s = chain
    BY <1>0 DEF GetsTyped
  <2>2. CASE s = <<>>
    <3>1. Setup!Below(s) \in Seq(Setup!Wrappers)
      BY <2>2, EmptySeq DEF Setup!Below
    <3> QED BY <1>1, <2>1, <3>1
  <2>3. CASE s # <<>>
    BY <1>1, <2>1, <2>3, BelowIs
  <2> QED BY <2>2, <2>3
<1>7. GetsTyped'
  BY <1>0, <1>1, <1>4, <1>6 DEF GetsTyped, Less, Setup!Callers
<1>8. ASSUME NEW d \in Setup!Callers, d # c PROVE LinkedIn(d)'
  <2>1. path'[d] = path[d]
    BY <1>1, <1>8 DEF Less
  <2>2. Setup!LastFrame(d)' = Setup!LastFrame(d)
    BY <2>1 DEF Setup!LastFrame
  <2> QED BY <1>1, <1>5, <2>1, <2>2 DEF PathsInv, LinkedIn
<1>9. LinkedIn(c)'
  <2>1. \A j \in 1 .. n : j \in 1 .. n + 1
    OBVIOUS
  <2>2. ASSUME path'[c] # <<>>, c \notin failing PROVE Filled(Setup!LastFrame(c))'
    <3>1. n # 0 /\ n \in 1 .. n + 1 /\ n + 1 \in 1 .. n + 1
      BY <1>3, <2>2
    <3>2. path[c][n].dep # None /\ path[c][n + 1].w = path[c][n].dep
      BY <1>0, <1>3, <3>1 DEF LinkedIn
    <3>4. PICK g : g = path[c][n]
      OBVIOUS
    <3>3. Setup!Resolved(g.dep)'
      <4>1. f.w = g.dep
        BY <1>3, <3>2, <3>4
      <4>2. Setup!Resolved(f.w)'
        BY <1>4, <2>2
      <4>3. PICK x : x = f.w
        OBVIOUS
      <4>4. Setup!Resolved(x)'
        BY <4>2, <4>3
      <4> QED BY <4>1, <4>3, <4>4
    <3>5. Filled(g)'
      BY <3>2, <3>3, <3>4 DEF Filled
    <3> QED BY <1>3, <3>1, <3>4, <3>5
  <2>3. \A k \in 1 .. n : Fits(path'[c][k])
    BY <1>0, <1>3, <2>1 DEF LinkedIn
  <2>4. ASSUME NEW j \in 1 .. n, NEW k \in 1 .. n, k = j + 1
        PROVE  path'[c][j].dep # None /\ path'[c][k].w = path'[c][j].dep
    <3>1. path'[c][j] = path[c][j] /\ path'[c][k] = path[c][k]
      BY <1>3
    <3>2. path[c][j].dep # None /\ path[c][k].w = path[c][j].dep
      BY <1>0, <1>3, <2>1, <2>4 DEF LinkedIn
    <3> QED BY <3>1, <3>2
  <2>5. calling' # c
    BY <1>0, <1>1
  <2> QED BY <1>1, <1>3, <1>5, <2>2, <2>3, <2>4, <2>5 DEF LinkedIn
<1>10. Complete'
  <2>1. CASE c \in failing
    BY <1>1, <1>5, <2>1 DEF PathsInv, Complete
  <2>2. CASE c \notin failing
    <3>1. PICK l : l = Len(built)
      OBVIOUS
    <3>2. /\ l \in Nat /\ DOMAIN built = 1 .. l /\ DOMAIN built' = 1 .. l + 1
          /\ built'[l + 1] = f /\ \A k \in 1 .. l : built'[k] = built[k]
      BY <1>0, <1>1, <1>2, <2>2, <3>1, EntryOf DEF GetsTyped
    <3>3. Fits(f) /\ Filled(f)
      <4>1. n + 1 \in 1 .. n + 1
        OBVIOUS
      <4>2. calling # c
        BY <1>0, <1>1
      <4> QED BY <1>0, <1>1, <1>2, <1>3, <2>2, <4>1, <4>2 DEF LinkedIn
    <3>4. \A k \in 1 .. l + 1 : k = l + 1 \/ k \in 1 .. l
      BY <3>2
    <3>5. \A k \in 1 .. l : Fits(built[k]) /\ Filled(built[k])
      BY <3>2 DEF PathsInv, Complete
    <3>6. \A k \in 1 .. l + 1 : Fits(built'[k]) /\ Filled(built'[k])
      BY <3>2, <3>3, <3>4, <3>5
    <3> QED BY <1>5, <3>2, <3>6 DEF Complete
  <2> QED BY <2>1, <2>2
<1>11. \A d \in Setup!Callers : UnderWay(d)' => UnderWay(d)
  BY <1>1 DEF UnderWay, Less
<1>12. Awaited'
  <2>1. path'[Root] # <<>> => path[Root] # <<>>
    BY <1>1 DEF Less, Setup!Callers
  <2> QED BY <1>1, <1>11, <2>1 DEF PathsInv, Awaited, Setup!Callers
<1> QED BY <1>7, <1>8, <1>9, <1>10, <1>12 DEF PathsInv

LEMMA PathsStill ==
    ASSUME PathsInv, Still, UNCHANGED graph,
           boot' = boot \/ (boot = "modules" /\ boot' # "modules")
             \/ (boot' # "modules" /\ calling # Root /\ path[Root] = <<>>)
    PROVE  PathsInv'
<1>1. UNCHANGED <<asked, calling, path, failing, chain, built, met>>
  BY DEF Still
<1>2. /\ \A v : Setup!Takes(v)' = Setup!Takes(v) /\ Setup!Resolved(v)' = Setup!Resolved(v)
      /\ \A f : Fits(f)' = Fits(f) /\ Filled(f)' = Filled(f)
  BY <1>1, TakesStay DEF Setup!Resolved, Fits, Filled
<1>3. GetsTyped'
  BY <1>1 DEF PathsInv, GetsTyped, Setup!Callers
<1>4. Complete'
  BY <1>1, <1>2 DEF PathsInv, Complete
<1>5. ASSUME NEW d \in Setup!Callers PROVE LinkedIn(d)'
  <2>1. Setup!LastFrame(d)' = Setup!LastFrame(d)
    BY <1>1 DEF Setup!LastFrame
  <2>2. LinkedIn(d)
    BY DEF PathsInv
  <2>3. PICK g : g = Setup!LastFrame(d)
    OBVIOUS
  <2>4. Filled(g)' = Filled(g) /\ Setup!Takes(g.w)' = Setup!Takes(g.w)
    BY <1>2
  <2> QED BY <1>1, <1>2, <2>1, <2>2, <2>3, <2>4 DEF LinkedIn
<1>6. \A d : UnderWay(d)' = UnderWay(d)
  BY <1>1 DEF UnderWay
<1>7. Awaited'
  BY <1>1, <1>6 DEF PathsInv, Awaited, UnderWay
<1> QED BY <1>3, <1>4, <1>5, <1>7 DEF PathsInv, Setup!Callers

LEMMA PathsOnEnds ==
    ASSUME ApplicationAssumption, Wired, PathsInv, NEW c, Ends(c)
    PROVE  PathsInv'
<1>1. /\ c \in Controllers /\ c \in Setup!Callers /\ path[c] = <<>> /\ calling = None
      /\ UNCHANGED <<graph, calling, path, chain, built, met, boot>> /\ failing' = failing \ {c}
      /\ \A d \in Controllers : d # c => asked'[d] = asked[d]
  BY DEF Ends, Setup!Callers
<1>0. GetsTyped /\ None \notin Setup!Callers /\ Root # c
  BY <1>1, Chained DEF PathsInv, Wired, Setup!Callers
<1>2. /\ \A v : Setup!Takes(v)' = Setup!Takes(v) /\ Setup!Resolved(v)' = Setup!Resolved(v)
      /\ \A f : Fits(f)' = Fits(f) /\ Filled(f)' = Filled(f)
  BY <1>1, TakesStay DEF Setup!Resolved, Fits, Filled
<1>3. GetsTyped'
  BY <1>0, <1>1 DEF GetsTyped, Setup!Callers
<1>4. Complete'
  BY <1>1, <1>2 DEF PathsInv, Complete
<1>5. ASSUME NEW d \in Setup!Callers PROVE LinkedIn(d)'
  <2>1. Setup!LastFrame(d)' = Setup!LastFrame(d)
    BY <1>1 DEF Setup!LastFrame
  <2>2. LinkedIn(d) /\ calling # d
    BY <1>0, <1>1 DEF PathsInv
  <2>3. PICK g : g = Setup!LastFrame(d)
    OBVIOUS
  <2>4. Filled(g)' = Filled(g)
    BY <1>2
  <2> QED BY <1>1, <1>2, <2>1, <2>2, <2>3, <2>4 DEF LinkedIn
<1>6. \A d \in Setup!Callers : UnderWay(d)' => UnderWay(d) /\ d # c
  BY <1>0, <1>1 DEF UnderWay
<1>7. Awaited'
  BY <1>0, <1>1, <1>6 DEF PathsInv, Awaited, Setup!Callers
<1> QED BY <1>3, <1>4, <1>5, <1>7 DEF PathsInv, Setup!Callers

LEMMA PathsStep ==
    ASSUME ApplicationAssumption, GraphInv, Wired, PathsInv, [Setup!Next]_setup
    PROVE  PathsInv'
<1>0. /\ None \notin Setup!Callers /\ Root \notin Controllers /\ Root \in Setup!Callers
      /\ asked \in [Controllers -> AskStates] /\ Controllers \subseteq Setup!Callers
  BY Chained DEF Wired, Setup!Callers, GraphInv, Asks
<1>1. ASSUME NEW c, NEW w, Begins(c, w) PROVE PathsInv'
  <2>1. /\ calling = None /\ path[c] = <<>> /\ c \notin failing /\ c \in Setup!Callers
        /\ w \in Setup!Wrappers \cup {None} /\ Enters(c, w) /\ UNCHANGED <<graph, own, built, boot>>
    BY <1>1 DEF Begins
  <2>2. /\ GetsTyped' /\ Complete' /\ \A d \in Setup!Callers : LinkedIn(d)'
        /\ \A d \in Setup!Callers : d # c /\ UnderWay(d)' => UnderWay(d)
        /\ calling' \in {None, c} /\ \A d \in Setup!Callers : d # c => path'[d] = path[d]
    BY <2>1, PathsOnEnter
  <2>3. Awaited'
    <3>1. CASE boot = "modules" /\ c \in Controllers
                 /\ \E a \in {"validating", "hooking"} : asked' = [asked EXCEPT ![c] = a]
      <4>1. /\ asked'[c] \in {"validating", "hooking"}
            /\ \A d \in Controllers : d # c => asked'[d] = asked[d]
        BY <1>0, <3>1
      <4>2. \A d \in Controllers : UnderWay(d)' => asked'[d] \in {"validating", "hooking"}
        BY <1>0, <2>2, <4>1 DEF PathsInv, Awaited
      <4>3. ~UnderWay(Root) /\ Root # c
        BY <1>0, <3>1 DEF PathsInv, Awaited
      <4>4. ~UnderWay(Root)' /\ calling' # Root /\ path'[Root] = <<>>
        BY <1>0, <2>2, <4>3 DEF UnderWay
      <4> QED BY <4>2, <4>4 DEF Awaited
    <3>2. CASE boot = "providers" /\ c = Root /\ UNCHANGED asked
      <4>1. \A d \in Controllers : UnderWay(d)' => UnderWay(d)
        BY <1>0, <2>2, <3>2
      <4> QED BY <2>1, <3>2, <4>1 DEF PathsInv, Awaited
    <3> QED BY <1>1, <3>1, <3>2 DEF Begins
  <2> QED BY <2>2, <2>3 DEF PathsInv, Setup!Callers
<1>2. ASSUME NEW c, NEW w, Goes(c, w) PROVE PathsInv'
  <2>1. /\ calling = c /\ c \in Setup!Callers /\ w \in Setup!Wrappers \cup {None} /\ Enters(c, w)
        /\ w = Setup!LastFrame(c).dep /\ UNCHANGED <<graph, own, built, boot, asked>>
    BY <1>2 DEF Goes
  <2>2. c \notin failing /\ UnderWay(c)
    BY <2>1 DEF PathsInv, LinkedIn, UnderWay
  <2>3. /\ GetsTyped' /\ Complete' /\ \A d \in Setup!Callers : LinkedIn(d)'
        /\ \A d \in Setup!Callers : d # c /\ UnderWay(d)' => UnderWay(d)
        /\ calling' \in {None, c} /\ \A d \in Setup!Callers : d # c => path'[d] = path[d]
    BY <2>1, <2>2, PathsOnEnter
  <2>4. \A d \in Setup!Callers : UnderWay(d)' => UnderWay(d)
    BY <2>2, <2>3
  <2>5. calling' = Root \/ path'[Root] # <<>> => calling = Root \/ path[Root] # <<>>
    BY <1>0, <2>1, <2>3
  <2>6. Awaited'
    BY <1>0, <2>1, <2>4, <2>5 DEF PathsInv, Awaited
  <2> QED BY <2>3, <2>6 DEF PathsInv, Setup!Callers
<1>3. CASE Still /\ UNCHANGED <<graph, boot>>
  BY <1>3, PathsStill
<1>4. CASE Setup!ModulesSettle \/ Setup!Boots
  <2>1. /\ Still /\ UNCHANGED graph
        /\ boot' # "modules"
        /\ boot = "modules" \/ (calling # Root /\ path[Root] = <<>>)
    BY <1>4 DEF Setup!ModulesSettle, Setup!Boots, Setup!Idle, Setup!Loading, Setup!Answered, Still,
       Setup!gets
  <2> QED BY <2>1, PathsStill
<1>5. CASE UNCHANGED setup
  BY <1>3, <1>5 DEF setup, Still
<1>6. CASE Setup!Next
  BY <1>1, <1>2, <1>3, <1>4, <1>6, SetupSteps, PathsOnBuilds, PathsOnEnds
     DEF Calls, Settles, Awaits, Controls, Applies, Fails
<1> QED BY <1>5, <1>6

\* What the tokens of a module have in the root, and its controllers, is built when the
\* application has booted.
LEMMA WiredFailsFast ==
    ASSUME ApplicationAssumption, GraphInv, Wired, PathsInv
    PROVE  Setup!FailsFast
<1> SUFFICES ASSUME boot = "ok"
             PROVE  /\ \A t \in Tokens : body[graph.home[t]] = "done" =>
                                            Setup!Resolved(Setup!Wrapper(Root, t))
                    /\ \A c \in Controllers : body[graph.seat[c]] = "done" =>
                                            Setup!Resolved(Setup!ControllerWrapper(c))
                    /\ \A k \in DOMAIN built : Setup!Takes(built[k].w) # None =>
                         /\ built[k].dep.token = Setup!Takes(built[k].w)
                         /\ Setup!Resolved(built[k].dep)
  BY DEF Setup!FailsFast
<1>1. Setup!Unbuilt = {} /\ Setup!Unserved = {} /\ own \in Counts
  BY DEF Wired
<1>2. ASSUME NEW t \in Tokens, body[graph.home[t]] = "done"
      PROVE  Setup!Resolved(Setup!Wrapper(Root, t))
  <2>1. graph.home[t] \in Modules /\ Root \in Modules /\ None \notin Modules /\ t # None
    BY Chained DEF Wired
  <2>2. own[Root][t] > 0
    BY <1>2, <2>1 DEF Wired, RegisteredIn, PastImports
  <2>3. Setup!Lookup(Root, t) = Setup!Wrapper(Root, t)
    BY <2>1, <2>2 DEF Setup!Lookup, Setup!Finds
  <2>4. Setup!Resolved(Setup!Lookup(Root, t))
    BY <1>1, <2>1, <2>2 DEF Setup!Unbuilt
  <2> QED BY <2>3, <2>4
<1>3. \A c \in Controllers : body[graph.seat[c]] = "done" => Setup!Resolved(Setup!ControllerWrapper(c))
  BY <1>1 DEF Setup!Unserved
<1>4. \A k \in DOMAIN built : Setup!Takes(built[k].w) # None =>
          built[k].dep.token = Setup!Takes(built[k].w) /\ Setup!Resolved(built[k].dep)
  BY DEF PathsInv, Complete, Fits, Filled
<1> QED BY <1>2, <1>3, <1>4

(***************************************************************************)
(* Who builds what: gets that come upon each other, and those that do not  *)
(***************************************************************************)
\* When every token belongs to one controller at most, a get() builds nothing that belongs
\* to another.
Coloring(user) ==
    /\ \A c \in Controllers :
         Setup!Asking(c) /\ graph.needs[c] # None => user[graph.needs[c]] = c
    /\ \A t \in Tokens : user[t] # None /\ graph.dep[t] # None => user[graph.dep[t]] = user[t]
Users == [Tokens -> Controllers \cup {None}]
Of(user, c, t) == t = c \/ (t \in Tokens /\ user[t] = c)
Coloured ==
    \A user \in Users : Coloring(user) =>
        /\ met = {}
        /\ \A c \in Controllers : \A k \in DOMAIN path[c] : Of(user, c, path[c][k].w.token)

\* What a get() changes of its own path, and of the others.
LEMMA Steps ==
    ASSUME ApplicationAssumption, GraphInv, Wired, PathsInv, [Setup!Next]_setup
    PROVE  \/ \E c, w : Begins(c, w) \/ Goes(c, w)
           \/ \E c : Builds(c)
           \/ UNCHANGED <<graph, path, built, met, chain>>
<1>1. CASE Setup!ModulesSettle \/ Setup!Boots
  BY <1>1 DEF Setup!ModulesSettle, Setup!Boots, Setup!gets
<1>2. CASE UNCHANGED setup
  BY <1>2 DEF setup
<1>3. CASE Setup!Next
  BY <1>1, <1>3, SetupSteps DEF Calls, Settles, Awaits, Controls, Applies, Fails, Ends, Still
<1> QED BY <1>2, <1>3

LEMMA LastIs ==
    ASSUME GetsTyped, NEW c \in Setup!Callers, path[c] # <<>>
    PROVE  \E n \in Nat \ {0} : /\ DOMAIN path[c] = 1 .. n /\ n \in DOMAIN path[c]
                                /\ Setup!LastFrame(c) = path[c][n] /\ path[c][n] \in Setup!Frame
<1>1. PICK s \in Seq(Setup!Frame) : s = path[c] /\ s # <<>>
  BY DEF GetsTyped
<1>2. /\ Len(s) \in Nat \ {0} /\ DOMAIN s = 1 .. Len(s) /\ s[Len(s)] \in Setup!Frame
      /\ Len(s) \in DOMAIN s
  BY <1>1, EmptySeq, LenProperties, ElementOfSeq
<1> QED BY <1>1, <1>2 DEF Setup!LastFrame

\* Who begins or goes on asks for what it needs, or for what its last provider takes.
LEMMA Wanted ==
    ASSUME ApplicationAssumption, GraphInv, Wired, PathsInv, NEW c \in Controllers, NEW w,
           Begins(c, w) \/ Goes(c, w), w # None
    PROVE  /\ w \in Setup!Wrappers /\ Enters(c, w) /\ path[Root] = <<>> /\ UNCHANGED graph
           /\ Setup!Asking(c)
           /\ \/ w.token = c
              \/ w.token = graph.needs[c] /\ graph.needs[c] \in Tokens
              \/ /\ path[c] # <<>> /\ w = Setup!LastFrame(c).dep
                 /\ w.token = Setup!Takes(Setup!LastFrame(c).w)
<1>0. /\ graph \in Graphs /\ own \in Counts /\ Root \in Modules /\ Root # c /\ graph.seat[c] \in Modules
      /\ graph.needs[c] \in Tokens \cup {None} /\ w \in Setup!Wrappers /\ None \notin Tokens
  BY Chained DEF Wired, Begins, Goes
<1>1. CASE Begins(c, w)
  <2>1. /\ boot = "modules" /\ Enters(c, w) /\ UNCHANGED graph
        /\ \/ w = Setup!Lookup(Root, graph.needs[c]) /\ c \in Setup!Validated(graph.seat[c])
           \/ w = Setup!ControllerWrapper(c) /\ c \in Setup!Hooked(graph.seat[c])
    BY <1>0, <1>1 DEF Begins
  <2>2. Setup!Asking(c)
    BY <2>1 DEF Setup!Asking
  <2>5. path[Root] = <<>>
    BY <2>1 DEF PathsInv, Awaited
  <2>3. CASE w = Setup!Lookup(Root, graph.needs[c])
    <3>1. graph.needs[c] \in Tokens /\ w.token = graph.needs[c]
      BY <1>0, <2>3, LookupTyped
    <3> QED BY <1>0, <2>1, <2>2, <2>5, <3>1
  <2>4. CASE w = Setup!ControllerWrapper(c)
    BY <1>0, <2>1, <2>2, <2>4, <2>5, ControllerTyped
  <2> QED BY <2>1, <2>3, <2>4
<1>2. CASE Goes(c, w)
  <2>1. calling = c /\ Enters(c, w) /\ UNCHANGED graph /\ w = Setup!LastFrame(c).dep
        /\ c \in Setup!Callers
    BY <1>2 DEF Goes
  <2>2. asked[c] \in {"validating", "hooking"} /\ UnderWay(c)
    BY <2>1 DEF PathsInv, Awaited, UnderWay
  <2>3. Setup!Asking(c)
    BY <2>2 DEF GraphInv, Asks, Setup!Asking
  <2>4. path[Root] = <<>>
    BY <2>2, NobodyElse DEF PathsInv, Awaited
  <2>5. path[c] # <<>>
    BY <2>1 DEF PathsInv, LinkedIn
  <2>6. w.token = Setup!Takes(Setup!LastFrame(c).w)
    <3>1. PICK n \in DOMAIN path[c] : Setup!LastFrame(c) = path[c][n]
      BY <2>1, <2>5, LastIs DEF PathsInv
    <3>2. Fits(path[c][n])
      BY <2>1 DEF PathsInv, LinkedIn
    <3> QED BY <2>1, <3>1, <3>2 DEF Fits
  <2> QED BY <1>0, <2>1, <2>3, <2>4, <2>5, <2>6
<1> QED BY <1>1, <1>2

LEMMA ColouredStep ==
    ASSUME ApplicationAssumption, GraphInv, Wired, PathsInv, Coloured, [Setup!Next]_setup
    PROVE  Coloured'
<1>0. /\ graph \in Graphs /\ GetsTyped /\ Root \notin Controllers /\ Tokens \cap Controllers = {}
      /\ Controllers \subseteq Setup!Callers /\ None \notin Controllers
      /\ Setup!Callers = Controllers \cup {Root}
  BY Chained DEF Wired, PathsInv, Setup!Callers
<1>1. UNCHANGED graph
  BY Steps DEF Begins, Goes, Builds
<1>2. \A user : Coloring(user)' = Coloring(user)
  <2>1. \A c : Setup!Asking(c)' = Setup!Asking(c)
    BY <1>1 DEF Setup!Asking, Setup!Hooked, Setup!Validated, Setup!Seated, Setup!Provided
  <2> QED BY <1>1, <2>1 DEF Coloring
<1> SUFFICES ASSUME NEW user \in Users, Coloring(user)
             PROVE  /\ met' = {}
                    /\ \A c \in Controllers : \A k \in DOMAIN path'[c] :
                           Of(user, c, path'[c][k].w.token)
  BY <1>2 DEF Coloured, Of
<1>3. /\ met = {}
      /\ \A c \in Controllers : \A k \in DOMAIN path[c] : Of(user, c, path[c][k].w.token)
  BY DEF Coloured
<1>4. CASE UNCHANGED <<graph, path, built, met, chain>>
  BY <1>3, <1>4
<1>5. ASSUME NEW c, Builds(c)
      PROVE  /\ met' = {}
             /\ \A d \in Controllers : \A k \in DOMAIN path'[d] : Of(user, d, path'[d][k].w.token)
  <2>1. UNCHANGED met /\ Less(c, Setup!LastFrame(c)) /\ c \in Setup!Callers
    BY <1>5 DEF Builds
  <2>2. \A d \in Setup!Callers : \A k \in DOMAIN path'[d] :
            k \in DOMAIN path[d] /\ path'[d][k] = path[d][k]
    <3>1. PICK n \in Nat : /\ DOMAIN path[c] = 1 .. n + 1 /\ DOMAIN path'[c] = 1 .. n
                           /\ \A k \in 1 .. n : path'[c][k] = path[c][k]
      BY <2>1 DEF Less
    <3>2. \A k \in 1 .. n : k \in 1 .. n + 1
      OBVIOUS
    <3> QED BY <2>1, <3>1, <3>2 DEF Less
  <2> QED BY <1>0, <1>3, <2>1, <2>2
<1>6. ASSUME NEW c \in Controllers, NEW w, Begins(c, w) \/ Goes(c, w), w # None
      PROVE  Of(user, c, w.token)
  <2>1. /\ w \in Setup!Wrappers /\ Setup!Asking(c)
        /\ \/ w.token = c
           \/ w.token = graph.needs[c] /\ graph.needs[c] \in Tokens
           \/ /\ path[c] # <<>> /\ w = Setup!LastFrame(c).dep
              /\ w.token = Setup!Takes(Setup!LastFrame(c).w)
    BY <1>6, Wanted
  <2>2. None \notin Tokens /\ graph.dep \in [Tokens -> Tokens \cup {None}]
        /\ graph.needs \in [Controllers -> Tokens \cup {None}]
    BY Chained DEF Wired
  <2>3. CASE w.token = c
    BY <2>3 DEF Of
  <2>4. CASE w.token = graph.needs[c] /\ graph.needs[c] \in Tokens
    BY <2>1, <2>2, <2>4 DEF Of, Coloring
  <2>5. CASE path[c] # <<>> /\ w = Setup!LastFrame(c).dep
             /\ w.token = Setup!Takes(Setup!LastFrame(c).w)
    <3>1. PICK n \in DOMAIN path[c] : Setup!LastFrame(c) = path[c][n] /\ path[c][n] \in Setup!Frame
      BY <1>0, <2>5, LastIs
    <3>2. PICK v \in Setup!Wrappers : v = path[c][n].w
      BY <3>1 DEF Setup!Frame
    <3>3. Of(user, c, v.token) /\ w.token = Setup!Takes(v)
      BY <1>3, <2>5, <3>1, <3>2
    <3>t. /\ Setup!Takes(v) \in Tokens \cup {None}
          /\ v.token \in Tokens => Setup!Takes(v) = graph.dep[v.token]
          /\ v.token \in Controllers => Setup!Takes(v) = graph.needs[v.token]
      BY <1>0, TakesTyped
    <3>4. w.token # None
      BY <1>0, <2>1, <2>2, TakesTyped, Chained
    <3>5. CASE v.token = c
      BY <2>1, <2>2, <3>3, <3>t, <3>4, <3>5 DEF Of, Coloring
    <3>6. CASE v.token \in Tokens /\ user[v.token] = c
      BY <1>0, <3>3, <3>t, <3>4, <3>6 DEF Of, Coloring
    <3> QED BY <3>3, <3>5, <3>6 DEF Of
  <2> QED BY <2>1, <2>3, <2>4, <2>5
<1>7. ASSUME NEW c, NEW w, Begins(c, w) \/ Goes(c, w)
      PROVE  /\ met' = {}
             /\ \A d \in Controllers : \A k \in DOMAIN path'[d] : Of(user, d, path'[d][k].w.token)
  <2>1. Enters(c, w) /\ c \in Setup!Callers
    BY <1>7 DEF Begins, Goes
  <2>2. CASE UNCHANGED <<path, met>>
    BY <1>3, <2>2
  <2>3. ASSUME w \in Setup!Wrappers, Meets(c, w) PROVE met' = {}
    <3>1. ~ \E d \in Setup!Callers \ {c} : Setup!Under(d, w)
      <4> SUFFICES ASSUME NEW d \in Setup!Callers, d # c, Setup!Under(d, w) PROVE FALSE
        OBVIOUS
      <4>1. PICK k \in DOMAIN path[d] : path[d][k].w = w
        BY DEF Setup!Under
      <4>2. path[d] # <<>>
        BY <4>1
      <4>3. CASE c = Root
        <5>1. d \in Controllers /\ (boot = "providers" \/ calling = Root)
          BY <1>0, <1>7, <4>3 DEF Begins, Goes
        <5>2. boot = "providers"
          BY <1>0, <1>7, <4>3 DEF Begins, Goes, PathsInv, Awaited
        <5>3. d \in Controllers /\ ~UnderWay(d)
          BY <1>0, <4>3, <5>2, NobodyElse
        <5> QED BY <4>2, <5>3 DEF UnderWay
      <4>4. CASE c \in Controllers
        <5>0. None \notin Setup!Wrappers
          BY Chained DEF Wired
        <5>1. path[Root] = <<>> /\ Of(user, c, w.token)
          BY <1>6, <1>7, <2>3, <4>4, <5>0, Wanted
        <5>2. d \in Controllers
          BY <1>0, <4>2, <5>1
        <5>3. Of(user, d, w.token)
          BY <1>3, <4>1, <5>2
        <5> QED BY <1>0, <4>4, <5>1, <5>2, <5>3 DEF Of
      <4> QED BY <1>0, <2>1, <4>3, <4>4
    <3> QED BY <1>3, <2>3, <3>1 DEF Meets
  <2>4. CASE Pushes(c, w)
    <3>1. w \in Setup!Wrappers /\ Meets(c, w) /\ Longer(c, Entry(w))
      BY <2>4 DEF Pushes
    <3>2. PICK n \in Nat : /\ DOMAIN path[c] = 1 .. n /\ DOMAIN path'[c] = 1 .. n + 1
                           /\ \A k \in 1 .. n : path'[c][k] = path[c][k]
                           /\ path'[c][n + 1] = Entry(w)
      BY <3>1 DEF Longer
    <3>3. Entry(w).w = w
      BY DEF Entry
    <3>4. ASSUME NEW d \in Controllers, NEW k \in DOMAIN path'[d]
          PROVE  Of(user, d, path'[d][k].w.token)
      <4>1. CASE d # c
        BY <1>0, <1>3, <3>1, <4>1 DEF Longer
      <4>2. CASE d = c /\ k = n + 1
        BY <1>0, <1>6, <1>7, <3>1, <3>2, <3>3, <4>2, Chained
      <4>3. CASE d = c /\ k # n + 1
        <5>1. k \in 1 .. n
          BY <3>2, <4>3
        <5> QED BY <1>3, <3>2, <4>3, <5>1
      <4> QED BY <4>1, <4>2, <4>3
    <3> QED BY <2>3, <3>1, <3>4
  <2>5. CASE Collides(c, w)
    BY <1>3, <2>3, <2>5 DEF Collides
  <2>6. CASE Misses(c, w) \/ Hits(c, w)
    BY <2>2, <2>6 DEF Misses, Hits
  <2> QED BY <2>1, <2>4, <2>5, <2>6 DEF Enters
<1> QED BY <1>4, <1>5, <1>7, Steps

LEMMA ColouredInit == ASSUME ApplicationAssumption, Setup!Init PROVE Coloured
<1>1. met = {} /\ \A c \in Controllers : DOMAIN path[c] = {}
  BY DEF Setup!Init, Setup!Callers
<1> QED BY <1>1 DEF Coloured

LEMMA ColouredKeeps == ASSUME Coloured PROVE met # {} => ~Setup!Apart
<1> SUFFICES ASSUME Setup!Apart PROVE met = {}
  OBVIOUS
<1>1. PICK user \in Users : Coloring(user)
  BY DEF Setup!Apart, Users, Coloring
<1> QED BY <1>1 DEF Coloured

\* Down its path a get() enters what comes later and later in the order of what providers
\* take, so that it never comes upon what it is building itself.
Ranked ==
    \A r \in [Tokens -> Nat] : Falls(r) =>
        \A c \in Setup!Callers : \A j, k \in DOMAIN path[c] : j < k =>
            /\ path[c][k].w.token \in Tokens
            /\ path[c][j].w.token \in Tokens => r[path[c][k].w.token] < r[path[c][j].w.token]

\* What is entered next comes after all of them.
LEMMA ComesAfter ==
    ASSUME ApplicationAssumption, GraphInv, Wired, PathsInv, Ranked, NEW c, NEW w,
           Begins(c, w) \/ Goes(c, w), w # None, NEW r \in [Tokens -> Nat], Falls(r)
    PROVE  \A j \in DOMAIN path[c] :
               /\ w.token \in Tokens
               /\ path[c][j].w.token \in Tokens => r[w.token] < r[path[c][j].w.token]
<1>0. /\ graph \in Graphs /\ GetsTyped /\ c \in Setup!Callers /\ w \in Setup!Wrappers
      /\ None \notin Tokens
  BY Chained DEF Wired, PathsInv, Begins, Goes
<1>1. CASE Begins(c, w)
  BY <1>1 DEF Begins
<1>2. CASE Goes(c, w)
  <2>1. path[c] # <<>> /\ w = Setup!LastFrame(c).dep
    BY <1>2 DEF Goes, PathsInv, LinkedIn
  <2>2. PICK n \in Nat \ {0} : /\ DOMAIN path[c] = 1 .. n /\ n \in DOMAIN path[c]
                               /\ Setup!LastFrame(c) = path[c][n] /\ path[c][n] \in Setup!Frame
    BY <1>0, <2>1, LastIs
  <2>3. PICK v \in Setup!Wrappers : v = path[c][n].w
    BY <2>2 DEF Setup!Frame
  <2>4. w.token = Setup!Takes(v) /\ Setup!Takes(v) # None
    BY <1>0, <2>1, <2>2, <2>3 DEF PathsInv, LinkedIn, Fits
  <2>5. /\ Setup!Takes(v) \in Tokens \cup {None}
        /\ v.token \in Tokens => Setup!Takes(v) = graph.dep[v.token]
    BY <1>0, TakesTyped
  <2>6. w.token \in Tokens /\ (v.token \in Tokens => r[w.token] < r[v.token])
    BY <2>4, <2>5 DEF Falls
  <2>7. ASSUME NEW j \in DOMAIN path[c], path[c][j].w.token \in Tokens
        PROVE  r[w.token] < r[path[c][j].w.token]
    <3>1. CASE j = n
      BY <2>3, <2>6, <2>7, <3>1
    <3>2. CASE j # n
      <4>1. j < n
        BY <2>2, <3>2
      <4>2. v.token \in Tokens /\ r[v.token] < r[path[c][j].w.token]
        BY <1>0, <2>2, <2>3, <2>7, <4>1 DEF Ranked
      <4>3. r[w.token] \in Nat /\ r[v.token] \in Nat /\ r[path[c][j].w.token] \in Nat
        BY <2>6, <2>7, <4>2
      <4> QED BY <2>6, <4>2, <4>3
    <3> QED BY <3>1, <3>2
  <2> QED BY <2>6, <2>7
<1> QED BY <1>1, <1>2

LEMMA RankedStep ==
    ASSUME ApplicationAssumption, GraphInv, Wired, PathsInv, Ranked, [Setup!Next]_setup
    PROVE  Ranked'
<1>0. GetsTyped /\ None \notin Setup!Wrappers
  BY Chained DEF PathsInv, Wired
<1>1. UNCHANGED graph
  BY Steps DEF Begins, Goes, Builds
<1>2. \A r : Falls(r)' = Falls(r)
  BY <1>1 DEF Falls
<1> SUFFICES ASSUME NEW r \in [Tokens -> Nat], Falls(r), NEW d \in Setup!Callers,
                    NEW j \in DOMAIN path'[d], NEW k \in DOMAIN path'[d], j < k
             PROVE  /\ path'[d][k].w.token \in Tokens
                    /\ path'[d][j].w.token \in Tokens =>
                         r[path'[d][k].w.token] < r[path'[d][j].w.token]
  BY <1>2 DEF Ranked, Setup!Callers
<1>3. CASE path'[d] = path[d]
  BY <1>3 DEF Ranked
<1>4. ASSUME NEW c, Builds(c)
      PROVE  /\ path'[d][k].w.token \in Tokens
             /\ path'[d][j].w.token \in Tokens =>
                  r[path'[d][k].w.token] < r[path'[d][j].w.token]
  <2>1. Less(c, Setup!LastFrame(c)) /\ c \in Setup!Callers
    BY <1>4 DEF Builds
  <2>2. CASE d # c
    BY <1>3, <2>1, <2>2 DEF Less
  <2>3. CASE d = c
    <3>1. PICK n \in Nat : /\ DOMAIN path[c] = 1 .. n + 1 /\ DOMAIN path'[c] = 1 .. n
                           /\ \A i \in 1 .. n : path'[c][i] = path[c][i]
      BY <2>1 DEF Less
    <3>2. /\ j \in 1 .. n + 1 /\ k \in 1 .. n + 1
          /\ path'[c][j] = path[c][j] /\ path'[c][k] = path[c][k]
      BY <2>3, <3>1
    <3> QED BY <2>1, <2>3, <3>1, <3>2 DEF Ranked
  <2> QED BY <2>2, <2>3
<1>5. ASSUME NEW c, NEW w, Begins(c, w) \/ Goes(c, w)
      PROVE  /\ path'[d][k].w.token \in Tokens
             /\ path'[d][j].w.token \in Tokens =>
                  r[path'[d][k].w.token] < r[path'[d][j].w.token]
  <2>1. Enters(c, w) /\ c \in Setup!Callers
    BY <1>5 DEF Begins, Goes
  <2>2. CASE Pushes(c, w)
    <3>1. w \in Setup!Wrappers /\ Longer(c, Entry(w)) /\ Entry(w).w = w
      BY <2>2 DEF Pushes, Entry
    <3>2. CASE d # c
      BY <1>3, <3>1, <3>2 DEF Longer
    <3>3. CASE d = c
      <4>1. PICK n \in Nat : /\ DOMAIN path[c] = 1 .. n /\ DOMAIN path'[c] = 1 .. n + 1
                             /\ \A i \in 1 .. n : path'[c][i] = path[c][i]
                             /\ path'[c][n + 1] = Entry(w)
        BY <3>1 DEF Longer
      <4>2. j \in 1 .. n /\ path'[c][j] = path[c][j]
        BY <3>3, <4>1
      <4>3. CASE k = n + 1
        <5>1. path'[d][k].w = w /\ path'[d][j] = path[c][j] /\ w # None
          BY <1>0, <3>1, <3>3, <4>1, <4>2, <4>3
        <5>2. /\ w.token \in Tokens
              /\ path[c][j].w.token \in Tokens => r[w.token] < r[path[c][j].w.token]
          BY <1>5, <4>1, <4>2, <5>1, ComesAfter
        <5> QED BY <5>1, <5>2
      <4>4. CASE k # n + 1
        <5>1. k \in 1 .. n /\ path'[c][k] = path[c][k]
          BY <3>3, <4>1, <4>4
        <5> QED BY <2>1, <3>3, <4>1, <4>2, <5>1 DEF Ranked
      <4> QED BY <4>3, <4>4
    <3> QED BY <3>2, <3>3
  <2>3. CASE Misses(c, w) \/ Hits(c, w) \/ Collides(c, w)
    BY <1>3, <2>3 DEF Misses, Hits, Collides
  <2> QED BY <2>1, <2>2, <2>3 DEF Enters
<1>6. CASE UNCHANGED <<graph, path, built, met, chain>>
  BY <1>3, <1>6
<1> QED BY <1>4, <1>5, <1>6, Steps

LEMMA RankedInit == ASSUME ApplicationAssumption, Setup!Init PROVE Ranked
<1>1. \A c \in Setup!Callers : DOMAIN path[c] = {}
  BY DEF Setup!Init
<1> QED BY <1>1 DEF Ranked

LEMMA NeverItsOwn ==
    ASSUME ApplicationAssumption, GraphInv, Wired, PathsInv, Ranked, NEW c, NEW w,
           Begins(c, w) \/ Goes(c, w), w # None
    PROVE  ~Setup!Under(c, w)
<1> SUFFICES ASSUME NEW j \in DOMAIN path[c], path[c][j].w = w PROVE FALSE
  BY DEF Setup!Under
<1>1. PICK r \in [Tokens -> Nat] : Falls(r)
  BY Falling DEF Wired
<1>2. w.token \in Tokens /\ r[w.token] < r[w.token]
  BY <1>1, ComesAfter
<1>3. r[w.token] \in Nat
  BY <1>2
<1> QED BY <1>2, <1>3

\* As long as no get() comes upon another, a provider is built by one of them, once.
Alone ==
    met = {} =>
        /\ \A c \in Setup!Callers : \A k \in DOMAIN path[c] : ~Setup!Resolved(path[c][k].w)
        /\ \A c, d \in Setup!Callers : \A j \in DOMAIN path[c], k \in DOMAIN path[d] :
               path[c][j].w = path[d][k].w => c = d /\ j = k
        /\ \A j, k \in DOMAIN built : built[j].w = built[k].w => j = k

LEMMA MetNothing ==
    ASSUME NEW c, NEW w, Meets(c, w), met' = {}
    PROVE  met = {} /\ \A d \in Setup!Callers \ {c} : ~Setup!Under(d, w)
BY DEF Meets

LEMMA MetGrows ==
    ASSUME ApplicationAssumption, GraphInv, Wired, PathsInv, [Setup!Next]_setup, met' = {}
    PROVE  met = {}
<1>1. ASSUME NEW c, NEW w, Begins(c, w) \/ Goes(c, w) PROVE met = {}
  <2>1. Enters(c, w)
    BY <1>1 DEF Begins, Goes
  <2> QED BY <2>1, MetNothing DEF Enters, Misses, Hits, Collides, Pushes
<1> QED BY <1>1, Steps DEF Builds

LEMMA AloneStep ==
    ASSUME ApplicationAssumption, GraphInv, Wired, PathsInv, Ranked, Alone, [Setup!Next]_setup
    PROVE  Alone'
<1>0. GetsTyped /\ None \notin Setup!Wrappers
  BY Chained DEF PathsInv, Wired
<1> SUFFICES ASSUME met' = {}
             PROVE  /\ \A c \in Setup!Callers : \A k \in DOMAIN path'[c] :
                           ~Setup!Resolved(path[c][k].w)'
                    /\ \A c, d \in Setup!Callers : \A j \in DOMAIN path'[c], k \in DOMAIN path'[d] :
                           path'[c][j].w = path'[d][k].w => c = d /\ j = k
                    /\ \A j, k \in DOMAIN built' : built'[j].w = built'[k].w => j = k
  BY DEF Alone, Setup!Callers
<1>1. /\ \A c \in Setup!Callers : \A k \in DOMAIN path[c] : ~Setup!Resolved(path[c][k].w)
      /\ \A c, d \in Setup!Callers : \A j \in DOMAIN path[c], k \in DOMAIN path[d] :
             path[c][j].w = path[d][k].w => c = d /\ j = k
      /\ \A j, k \in DOMAIN built : built[j].w = built[k].w => j = k
  BY MetGrows DEF Alone
<1>2. CASE UNCHANGED <<path, built>>
  BY <1>1, <1>2 DEF Setup!Resolved
<1>3. ASSUME NEW c, NEW w, Begins(c, w) \/ Goes(c, w), Pushes(c, w)
      PROVE  /\ \A a \in Setup!Callers : \A k \in DOMAIN path'[a] : ~Setup!Resolved(path[a][k].w)'
             /\ \A a, d \in Setup!Callers : \A j \in DOMAIN path'[a], k \in DOMAIN path'[d] :
                    path'[a][j].w = path'[d][k].w => a = d /\ j = k
             /\ \A j, k \in DOMAIN built' : built'[j].w = built'[k].w => j = k
  <2>1. /\ w \in Setup!Wrappers /\ ~Setup!Resolved(w) /\ Meets(c, w) /\ Longer(c, Entry(w))
        /\ c \in Setup!Callers /\ UNCHANGED built /\ w # None /\ Entry(w).w = w
    BY <1>0, <1>3 DEF Pushes, Begins, Goes, Entry
  <2>2. \A d \in Setup!Callers : ~Setup!Under(d, w)
    BY <1>3, <2>1, MetNothing, NeverItsOwn
  <2>3. PICK n \in Nat : /\ DOMAIN path[c] = 1 .. n /\ DOMAIN path'[c] = 1 .. n + 1
                         /\ \A k \in 1 .. n : path'[c][k] = path[c][k]
                         /\ path'[c][n + 1] = Entry(w)
    BY <2>1 DEF Longer
  <2>4. \A d \in Setup!Callers : d # c => path'[d] = path[d]
    BY <2>1 DEF Longer
  <2>5. ASSUME NEW d \in Setup!Callers, NEW k \in DOMAIN path'[d]
        PROVE  \/ d = c /\ k = n + 1 /\ path'[d][k].w = w
               \/ /\ k \in DOMAIN path[d] /\ path'[d][k] = path[d][k]
                  /\ path[d][k].w # w /\ ~Setup!Resolved(path[d][k].w)
    <3>1. CASE d = c /\ k = n + 1
      BY <2>1, <2>3, <3>1
    <3>2. CASE d # c \/ k # n + 1
      <4>1. k \in DOMAIN path[d] /\ path'[d][k] = path[d][k]
        BY <2>3, <2>4, <3>2
      <4> QED BY <1>1, <2>2, <4>1 DEF Setup!Under
    <3> QED BY <3>1, <3>2
  <2>6. \A v : Setup!Resolved(v)' = Setup!Resolved(v)
    BY <2>1 DEF Setup!Resolved
  <2>7. ASSUME NEW d \in Setup!Callers, NEW k \in DOMAIN path'[d]
        PROVE  ~Setup!Resolved(path[d][k].w)'
    <3>1. PICK v : v = path'[d][k].w
      OBVIOUS
    <3>2. ~Setup!Resolved(v)
      BY <2>1, <2>5, <3>1
    <3>3. ~Setup!Resolved(v)'
      BY <2>6, <3>2
    <3> QED BY <3>1, <3>3
  <2>8. ASSUME NEW a \in Setup!Callers, NEW d \in Setup!Callers, NEW j \in DOMAIN path'[a],
               NEW k \in DOMAIN path'[d], path'[a][j].w = path'[d][k].w
        PROVE  a = d /\ j = k
    <3>1. \/ a = c /\ j = n + 1 /\ path'[a][j].w = w
          \/ j \in DOMAIN path[a] /\ path'[a][j] = path[a][j] /\ path[a][j].w # w
      BY <2>5
    <3>2. \/ d = c /\ k = n + 1 /\ path'[d][k].w = w
          \/ k \in DOMAIN path[d] /\ path'[d][k] = path[d][k] /\ path[d][k].w # w
      BY <2>5
    <3> QED BY <1>1, <2>8, <3>1, <3>2
  <2> QED BY <1>1, <2>1, <2>7, <2>8
<1>4. ASSUME NEW c, NEW w, Begins(c, w) \/ Goes(c, w)
      PROVE  UNCHANGED <<path, built>> \/ Pushes(c, w)
  BY <1>4 DEF Begins, Goes, Enters, Misses, Hits, Collides
<1>5. ASSUME NEW c, Builds(c)
      PROVE  /\ \A a \in Setup!Callers : \A k \in DOMAIN path'[a] : ~Setup!Resolved(path[a][k].w)'
             /\ \A a, d \in Setup!Callers : \A j \in DOMAIN path'[a], k \in DOMAIN path'[d] :
                    path'[a][j].w = path'[d][k].w => a = d /\ j = k
             /\ \A j, k \in DOMAIN built' : built'[j].w = built'[k].w => j = k
  <2>1. /\ c \in Setup!Callers /\ Setup!LastFrame(c) \in Setup!Frame /\ Less(c, Setup!LastFrame(c))
        /\ built' = IF c \in failing THEN built ELSE Append(built, Setup!LastFrame(c))
    BY <1>5 DEF Builds
  <2>2. PICK f \in Setup!Frame : f = Setup!LastFrame(c)
    BY <2>1
  <2>3. PICK n \in Nat : /\ DOMAIN path[c] = 1 .. n + 1 /\ DOMAIN path'[c] = 1 .. n
                         /\ \A k \in 1 .. n : path'[c][k] = path[c][k]
                         /\ path[c][n + 1] = f
    BY <2>1, <2>2 DEF Less
  <2>4. \A d \in Setup!Callers : d # c => path'[d] = path[d]
    BY <2>1 DEF Less
  <2>5. n + 1 \in DOMAIN path[c] /\ ~Setup!Resolved(f.w)
    <3>1. n + 1 \in DOMAIN path[c]
      BY <2>3
    <3>2. ~Setup!Resolved(path[c][n + 1].w)
      BY <1>1, <2>1, <3>1
    <3> QED BY <2>3, <3>1, <3>2
  <2>6. ASSUME NEW d \in Setup!Callers, NEW k \in DOMAIN path'[d]
        PROVE  k \in DOMAIN path[d] /\ path'[d][k] = path[d][k] /\ path[d][k].w # f.w
    <3>1. k \in DOMAIN path[d] /\ path'[d][k] = path[d][k] /\ (d # c \/ k # n + 1)
      BY <2>3, <2>4
    <3> QED BY <1>1, <2>1, <2>3, <2>5, <3>1
  <2>7. /\ \A j, k \in DOMAIN built' : built'[j].w = built'[k].w => j = k
        /\ \A v : Setup!Resolved(v)' => Setup!Resolved(v) \/ v = f.w
    <3>1. CASE built' = built
      BY <1>1, <3>1 DEF Setup!Resolved
    <3>2. CASE built' = Append(built, f)
      <4>1. PICK l : l = Len(built)
        OBVIOUS
      <4>2. /\ l \in Nat /\ DOMAIN built = 1 .. l /\ DOMAIN built' = 1 .. l + 1
            /\ built'[l + 1] = f /\ \A k \in 1 .. l : built'[k] = built[k]
        BY <1>0, <3>2, <4>1, EntryOf DEF GetsTyped
      <4>3. \A k \in 1 .. l + 1 : k = l + 1 \/ k \in 1 .. l
        BY <4>2
      <4>4. \A k \in 1 .. l : built[k].w # f.w
        BY <2>5, <4>2 DEF Setup!Resolved
      <4> QED BY <1>1, <4>2, <4>3, <4>4 DEF Setup!Resolved
    <3> QED BY <2>1, <2>2, <3>1, <3>2
  <2>8. ASSUME NEW d \in Setup!Callers, NEW k \in DOMAIN path'[d]
        PROVE  ~Setup!Resolved(path[d][k].w)'
    <3>1. PICK v : v = path'[d][k].w
      OBVIOUS
    <3>2. ~Setup!Resolved(v) /\ v # f.w
      BY <1>1, <2>6, <3>1
    <3>3. ~Setup!Resolved(v)'
      BY <2>7, <3>2
    <3> QED BY <3>1, <3>3
  <2>9. \A a, d \in Setup!Callers : \A j \in DOMAIN path'[a], k \in DOMAIN path'[d] :
            path'[a][j].w = path'[d][k].w => a = d /\ j = k
    BY <1>1, <2>6
  <2> QED BY <2>7, <2>8, <2>9
<1> QED BY <1>2, <1>3, <1>4, <1>5, Steps

LEMMA AloneInit == ASSUME ApplicationAssumption, Setup!Init PROVE Alone
<1>1. PICK e : e = <<>>
  OBVIOUS
<1>2. DOMAIN e = {} /\ built = e /\ \A c \in Setup!Callers : path[c] = e
  BY <1>1 DEF Setup!Init
<1> QED BY <1>2 DEF Alone

(***************************************************************************)
(* One instance for all                                                    *)
(***************************************************************************)
\* A body that runs is in the stack, so that none does while the stack is empty.
Running == \A m \in Modules : body[m] = "running" => OnList(stack, m)

LEMMA PushKeeps ==
    ASSUME NEW s \in Seq(Frames), NEW f \in Frames
    PROVE  /\ Append(s, f) \in Seq(Frames)
           /\ OnList(Append(s, f), f.m) /\ \A q : OnList(s, q) => OnList(Append(s, f), q)
<1>1. PICK t : t = Append(s, f)
  OBVIOUS
<1>2. PICK n \in Nat : n = Len(s)
  BY Pushed
<1>3. /\ t \in Seq(Frames) /\ DOMAIN t = 1 .. n + 1 /\ DOMAIN s = 1 .. n
      /\ t[n + 1] = f /\ \A k \in 1 .. n : t[k] = s[k]
  BY <1>1, <1>2, Pushed
<1>4. n + 1 \in 1 .. n + 1 /\ \A k \in 1 .. n : k \in 1 .. n + 1
  OBVIOUS
<1> QED BY <1>1, <1>3, <1>4 DEF OnList

LEMMA PopKeeps ==
    ASSUME GraphTyped, stack # <<>>
    PROVE  /\ Setup!Popped \in Seq(Frames) /\ Setup!Top.m \in Modules /\ Setup!Top.next \in Nat \ {0}
           /\ \A q : OnList(stack, q) => q = Setup!Top.m \/ OnList(Setup!Popped, q)
<1>1. PICK rest : rest = Setup!Popped
  OBVIOUS
<1>2. PICK n \in Nat \ {0} : n = Len(stack)
  BY Frames1 DEF GraphTyped
<1>3. /\ rest \in Seq(Frames) /\ DOMAIN rest = 1 .. n - 1 /\ DOMAIN stack = 1 .. n
      /\ Setup!Top = stack[n] /\ Setup!Top.m \in Modules /\ Setup!Top.next \in Nat \ {0}
      /\ \A k \in 1 .. n - 1 : rest[k] = stack[k]
  <2>1. DOMAIN stack = 1 .. n
    BY <1>2, LenProperties DEF GraphTyped
  <2> QED BY <1>1, <1>2, <2>1, Frames1 DEF GraphTyped, Setup!Top, Setup!Popped, Setup!Below
<1>4. \A k \in 1 .. n : k = n \/ k \in 1 .. n - 1
  OBVIOUS
<1> QED BY <1>1, <1>3, <1>4 DEF OnList

LEMMA RunningStep ==
    ASSUME ApplicationAssumption, GraphInv, Running, [Setup!Next]_setup
    PROVE  Running'
<1>t. GraphTyped
  BY DEF GraphInv, GraphCore
<1>1. CASE UNCHANGED <<stack, body>>
  BY <1>1 DEF Running
<1>2. CASE Setup!CallImport
  <2>1. PICK p : p = Setup!Top.m
    OBVIOUS
  <2>2. PICK i : i = Setup!Top.next
    OBVIOUS
  <2>3. PICK m : m = graph.imports[p][i]
    OBVIOUS
  <2>4. PICK f : f = [m |-> p, next |-> i + 1]
    OBVIOUS
  <2>5. PICK g : g = [m |-> m, next |-> 1]
    OBVIOUS
  <2>6. PICK s : s = Append(Setup!Popped, f)
    OBVIOUS
  <2>7. /\ stack # <<>> /\ i <= Len(graph.imports[p])
        /\ \/ stack' = s /\ UNCHANGED body
           \/ stack' = Append(s, g) /\ body' = [body EXCEPT ![m] = "running"]
    BY <1>2, <2>1, <2>2, <2>3, <2>4, <2>5, <2>6 DEF Setup!CallImport, Setup!On, Setup!imports
  <2>8. /\ Setup!Popped \in Seq(Frames) /\ p \in Modules /\ i \in Nat \ {0}
        /\ \A q : OnList(stack, q) => q = p \/ OnList(Setup!Popped, q)
    BY <1>t, <2>1, <2>2, <2>7, PopKeeps
  <2>9. m \in Modules
    <3>1. /\ Len(graph.imports[p]) \in Nat /\ DOMAIN graph.imports[p] = 1 .. Len(graph.imports[p])
          /\ \A j \in DOMAIN graph.imports[p] : graph.imports[p][j] \in Modules
      BY <1>t, <2>8, ImportsTyped DEF GraphTyped
    <3>2. i \in DOMAIN graph.imports[p]
      BY <2>7, <2>8, <3>1
    <3> QED BY <2>3, <3>1, <3>2
  <2>10. f \in Frames /\ f.m = p /\ g \in Frames /\ g.m = m
    BY <2>4, <2>5, <2>8, <2>9 DEF Frames
  <2>11. s \in Seq(Frames) /\ \A q : OnList(stack, q) => OnList(s, q)
    BY <2>6, <2>8, <2>10, PushKeeps
  <2>12. OnList(Append(s, g), m) /\ \A q : OnList(stack, q) => OnList(Append(s, g), q)
    BY <2>10, <2>11, PushKeeps
  <2>13. \A q \in Modules : body'[q] = body[q] \/ (q = m /\ stack' = Append(s, g))
    BY <1>t, <2>7 DEF GraphTyped
  <2> QED BY <2>7, <2>11, <2>12, <2>13 DEF Running
<1>3. CASE Setup!EndOfImports
  <2>1. PICK p : p = Setup!Top.m
    OBVIOUS
  <2>2. PICK f : f = [m |-> p, next |-> 1]
    OBVIOUS
  <2>3. PICK rest : rest = Setup!Popped
    OBVIOUS
  <2>4. /\ stack # <<>> /\ stack' \in {rest, Append(rest, f)}
        /\ \E b \in {"importing", "validating", "hooks", "done"} : body' = [body EXCEPT ![p] = b]
    BY <1>3, <2>1, <2>2, <2>3 DEF Setup!EndOfImports, Setup!On, Setup!RegisterModule,
       Setup!AfterRegistration, Setup!AfterValidation
  <2>5. rest \in Seq(Frames) /\ p \in Modules /\ \A q : OnList(stack, q) => q = p \/ OnList(rest, q)
    BY <1>t, <2>1, <2>3, <2>4, PopKeeps
  <2>6. f \in Frames
    BY <2>2, <2>5 DEF Frames
  <2>7. \A q : OnList(rest, q) => OnList(stack', q)
    BY <2>4, <2>5, <2>6, PushKeeps
  <2>8. \A q \in Modules : body'[q] = "running" => q # p /\ body[q] = "running"
    BY <1>t, <2>4 DEF GraphTyped
  <2> QED BY <2>5, <2>7, <2>8 DEF Running
<1>4. CASE Setup!Validate
  <2>1. PICK p : p = Setup!Top.m
    OBVIOUS
  <2>2. PICK rest : rest = Setup!Popped
    OBVIOUS
  <2>3. /\ stack # <<>> /\ stack' = rest /\ body[p] = "validating"
        /\ \/ UNCHANGED body
           \/ \E b \in {"hooks", "done", "failed"} : body' = [body EXCEPT ![p] = b]
    BY <1>4, <2>1, <2>2 DEF Setup!Validate, Setup!On, Setup!AfterValidation
  <2>4. p \in Modules /\ \A q : OnList(stack, q) => q = p \/ OnList(rest, q)
    BY <1>t, <2>1, <2>2, <2>3, PopKeeps
  <2>5. \A q \in Modules : body'[q] = "running" => q # p /\ body[q] = "running"
    BY <1>t, <2>3, <2>4 DEF GraphTyped
  <2> QED BY <2>3, <2>4, <2>5 DEF Running
<1>5. ASSUME stack = <<>>, \A q \in Modules : body'[q] = "running" => body[q] = "running"
      PROVE  Running'
  <2>1. \A q : ~OnList(stack, q)
    BY <1>5 DEF OnList
  <2> QED BY <1>5, <2>1 DEF Running
<1>6. ASSUME NEW p \in Modules, Setup!Register(p) PROVE Running'
  <2>1. /\ stack = <<>>
        /\ \E b \in {"validating", "hooks", "done"} : body' = [body EXCEPT ![p] = b]
    BY <1>6 DEF Setup!Register, Setup!Idle, Setup!RegisterModule, Setup!AfterRegistration,
       Setup!AfterValidation
  <2>2. \A q \in Modules : body'[q] = "running" => body[q] = "running"
    BY <1>t, <2>1 DEF GraphTyped
  <2> QED BY <1>5, <2>1, <2>2
<1>7. ASSUME NEW p \in Modules, NEW i, Setup!ImportFails(p, i) PROVE Running'
  <2>1. stack = <<>> /\ body' = [body EXCEPT ![p] = "failed"]
    BY <1>7 DEF Setup!ImportFails, Setup!Idle
  <2>2. \A q \in Modules : body'[q] = "running" => body[q] = "running"
    BY <1>t, <2>1 DEF GraphTyped
  <2> QED BY <1>5, <2>1, <2>2
<1>8. ASSUME NEW p \in Modules, Setup!SetupHooks(p) PROVE Running'
  <2>1. /\ stack \in {<<>>, <<[m |-> p, next |-> 1]>>} /\ body[p] = "hooks" /\ UNCHANGED body
    BY <1>8 DEF Setup!SetupHooks
  <2>2. \A q : OnList(stack, q) => q = p
    BY <2>1 DEF OnList
  <2>3. \A q \in Modules : body[q] # "running"
    BY <2>1, <2>2 DEF Running
  <2> QED BY <2>1, <2>3 DEF Running
<1>9. ASSUME NEW c \in Controllers, Setup!Checked(c) \/ Setup!HookSettles(c) PROVE Running'
  <2>1. stack = <<>>
    BY <1>9 DEF Setup!Checked, Setup!HookSettles, Setup!Idle
  <2>2. PICK p \in Modules : p = graph.seat[c]
    BY Seats DEF GraphInv, GraphCore, GraphTyped
  <2>3. \/ UNCHANGED body
        \/ \E b \in {"failed", "done", body[p]} : body' = [body EXCEPT ![p] = b]
    BY <1>9, <2>2 DEF Setup!Checked, Setup!HookSettles
  <2>4. \A q \in Modules : body'[q] = "running" => body[q] = "running"
    BY <1>t, <2>3 DEF GraphTyped
  <2> QED BY <1>5, <2>1, <2>4
<1>10. CASE \/ Setup!ModulesSettle \/ Setup!Boots \/ Setup!Descend
            \/ \E t \in Tokens : Setup!LoadProvider(t)
            \/ \E c \in Controllers : Setup!LoadController(c)
            \/ \E c \in Setup!Callers : Setup!Load(c)
            \/ \E p \in Modules : \E i \in DOMAIN edge[p] : Setup!ImportSettles(p, i)
  BY <1>1, <1>10 DEF Setup!ModulesSettle, Setup!Boots, Setup!LoadProvider, Setup!LoadController,
     Setup!ImportSettles, Setup!Descend, Setup!Load
<1> QED BY <1>1, <1>2, <1>3, <1>4, <1>6, <1>7, <1>8, <1>9, <1>10 DEF Setup!Next, setup

LEMMA RunningInit == ASSUME ApplicationAssumption, Setup!Init PROVE Running
<1>1. \A m \in Modules : body[m] = "running" => m = Root
  BY DEF Setup!Init
<1>2. stack = <<[m |-> Root, next |-> 1]>>
  BY DEF Setup!Init
<1>3. 1 \in DOMAIN stack /\ stack[1].m = Root
  BY <1>2
<1> QED BY <1>1, <1>3 DEF Running, OnList

\* How the imports bring modules in: by the first import that is called, and those of a
\* module that is imported once wait for its body.  What was added to a module is its own
\* or the root's, and the root has it from the moment its home registers.
InProgress == {"none", "running", "importing"}
Once(m) == \A p, q \in Modules : \A i \in DOMAIN graph.imports[p], j \in DOMAIN graph.imports[q] :
               graph.imports[p][i] = m /\ graph.imports[q][j] = m => p = q /\ i = j
Enlisted ==
    /\ \A p \in Modules : \A i \in DOMAIN graph.imports[p] :
         /\ edge[p][i] # "idle" => body[graph.imports[p][i]] # "none"
         /\ Once(graph.imports[p][i]) =>
              /\ edge[p][i] # "returned"
              /\ edge[p][i] = "applied" => body[graph.imports[p][i]] = "done"
    /\ \A m \in Modules : m # Root /\ body[m] # "none" =>
         \E p \in Modules : \E i \in DOMAIN graph.imports[p] :
             graph.imports[p][i] = m /\ edge[p][i] # "idle"
    /\ \A m \in Modules :
         /\ body[m] = "importing" => graph.imports[m] # <<>>
         /\ body[m] = "failed" /\ graph.imports[m] = <<>> => RegisteredIn(m)
    /\ \A t \in Tokens : own[Root][t] > 0 => body[graph.home[t]] \notin InProgress
    /\ \A m \in Modules : \A t \in Tokens : own[m][t] > 0 =>
         m \in {Root, graph.home[t]} /\ body[graph.home[t]] # "none"

LEMMA EnlistedInit == ASSUME ApplicationAssumption, Setup!Init PROVE Enlisted
<1>1. graph \in Graphs /\ body = [m \in Modules |-> IF m = Root THEN "running" ELSE "none"]
      /\ own = [m \in Modules |-> [t \in Tokens |-> 0]]
      /\ edge = [m \in Modules |-> [i \in DOMAIN graph.imports[m] |-> "idle"]]
  BY DEF Setup!Init, Setup!imports
<1>2. \A m \in Modules : \A t \in Tokens : ~(own[m][t] > 0)
  BY <1>1
<1>3. Root \in Modules
  BY DEF ApplicationAssumption, Setup!ModuleGraphAssumption
<1>4. \A p \in Modules : \A i \in DOMAIN graph.imports[p] : edge[p][i] = "idle"
  BY <1>1
<1>5. \A m \in Modules : body[m] \notin {"importing", "failed"} /\ (m # Root => body[m] = "none")
  BY <1>1
<1> QED BY <1>2, <1>3, <1>4, <1>5 DEF Enlisted

\* Only the body of p goes on, and nothing is added.
LEMMA EnlistedStays ==
    ASSUME ApplicationAssumption, GraphInv, Wired, Enlisted, UNCHANGED <<graph, edge, own>>,
           NEW p \in Modules, \A q \in Modules : q # p => body'[q] = body[q],
           body'[p] # "none", body'[p] = "done" \/ body[p] # "done",
           body[p] \in InProgress \/ body'[p] \notin InProgress,
           p = Root \/ body[p] # "none",
           body'[p] = "importing" => graph.imports[p] # <<>>,
           body'[p] = "failed" => body[p] \in PastImports \/ graph.imports[p] # <<>>
    PROVE  Enlisted'
<1>0. graph \in Setup!Graph /\ graph \in Graphs /\ graph.home \in [Tokens -> Modules]
  BY Chained DEF Wired
<1>1. \A q \in Modules : \A i \in DOMAIN graph.imports[q] : graph.imports[q][i] \in Modules
  BY <1>0, ImportsTyped
<1>2. \A m \in Modules : /\ body[m] # "none" => body'[m] # "none"
                         /\ body[m] = "done" => body'[m] = "done"
                         /\ body[m] \notin InProgress => body'[m] \notin InProgress
  OBVIOUS
<1>3. \A m : Once(m)' = Once(m)
  BY DEF Once
<1>4. \A q \in Modules : \A i \in DOMAIN graph.imports[q] :
         /\ edge[q][i] # "idle" => body'[graph.imports[q][i]] # "none"
         /\ Once(graph.imports[q][i]) =>
              /\ edge[q][i] # "returned"
              /\ edge[q][i] = "applied" => body'[graph.imports[q][i]] = "done"
  BY <1>1, <1>2 DEF Enlisted
<1>5. \A m \in Modules : m # Root /\ body'[m] # "none" =>
         \E q \in Modules : \E i \in DOMAIN graph.imports[q] :
             graph.imports[q][i] = m /\ edge[q][i] # "idle"
  <2> SUFFICES ASSUME NEW m \in Modules, m # Root, body'[m] # "none" PROVE body[m] # "none"
    BY DEF Enlisted
  <2> QED OBVIOUS
<1>6. ASSUME NEW m \in Modules
      PROVE  /\ body'[m] = "importing" => graph.imports[m] # <<>>
             /\ body'[m] = "failed" /\ graph.imports[m] = <<>> => RegisteredIn(m)
  <2>1. CASE m = p
    BY <2>1 DEF Wired
  <2>2. CASE m # p
    BY <2>2 DEF Enlisted
  <2> QED BY <2>1, <2>2
<1>7. \A m : RegisteredIn(m)' = RegisteredIn(m)
  BY DEF RegisteredIn
<1>8. \A t \in Tokens : own[Root][t] > 0 => body'[graph.home[t]] \notin InProgress
  BY <1>0, <1>2 DEF Enlisted
<1>9. \A m \in Modules : \A t \in Tokens : own[m][t] > 0 =>
         m \in {Root, graph.home[t]} /\ body'[graph.home[t]] # "none"
  BY <1>0, <1>2 DEF Enlisted
<1> QED BY <1>3, <1>4, <1>5, <1>6, <1>7, <1>8, <1>9 DEF Enlisted

LEMMA NotTheRoot ==
    ASSUME graph \in Setup!Graph
    PROVE  \A q \in Modules : \A j \in DOMAIN graph.imports[q] :
               graph.imports[q][j] \in Modules \ {Root}
<1> SUFFICES ASSUME NEW q \in Modules, NEW j \in DOMAIN graph.imports[q]
             PROVE  graph.imports[q][j] \in Modules \ {Root}
  OBVIOUS
<1>1. /\ graph.imports[q] \in Seq(Modules \ {Root})
      /\ DOMAIN graph.imports[q] = 1 .. Len(graph.imports[q])
  BY ImportsTyped
<1> QED BY <1>1, ElementOfSeq

LEMMA EnlistedOnCall ==
    ASSUME ApplicationAssumption, GraphInv, Wired, Enlisted,
           NEW p \in Modules, NEW i \in DOMAIN graph.imports[p], NEW m \in Modules, Calls(p, i, m)
    PROVE  Enlisted'
<1>0. /\ graph \in Setup!Graph /\ graph.home \in [Tokens -> Modules]
      /\ Root \in Modules /\ own \in Counts /\ graph.dynamic \subseteq Modules \ {Root}
  BY Chained DEF Wired, Setup!Graph
<1>1. \A q \in Modules : \A j \in DOMAIN graph.imports[q] : graph.imports[q][j] \in Modules \ {Root}
  BY <1>0, NotTheRoot
<1>2. /\ m = graph.imports[p][i] /\ body[p] = "running" /\ edge[p][i] = "idle" /\ UNCHANGED graph
      /\ edge'[p][i] = IF body[m] = "none" THEN "called" ELSE "returned"
      /\ \A q \in Modules : \A j \in DOMAIN graph.imports[q] :
             q # p \/ j # i => edge'[q][j] = edge[q][j]
      /\ \A q \in Modules : body'[q] = IF q = m /\ body[m] = "none" THEN "running" ELSE body[q]
  BY DEF Calls
<1>3. m # Root
  BY <1>1, <1>2
<1>4. \A q \in Modules : /\ body[q] # "none" => body'[q] = body[q]
                         /\ body'[q] # "none" => body[q] # "none" \/ q = m
                         /\ body'[q] # body[q] => body'[q] = "running" /\ body[q] = "none"
  BY <1>2
<1>5. \A q : Once(q)' = Once(q)
  BY <1>2 DEF Once
<1>6. Once(m) => body[m] = "none"
  <2> SUFFICES ASSUME Once(m), body[m] # "none" PROVE FALSE
    OBVIOUS
  <2>1. PICK q \in Modules : \E j \in DOMAIN graph.imports[q] :
            graph.imports[q][j] = m /\ edge[q][j] # "idle"
    BY <1>3 DEF Enlisted
  <2>2. PICK j \in DOMAIN graph.imports[q] : graph.imports[q][j] = m /\ edge[q][j] # "idle"
    BY <2>1
  <2>3. q = p /\ j = i
    BY <1>2, <2>2 DEF Once
  <2> QED BY <1>2, <2>2, <2>3
<1>7. ASSUME NEW q \in Modules, NEW j \in DOMAIN graph.imports[q]
      PROVE  /\ edge'[q][j] # "idle" => body'[graph.imports[q][j]] # "none"
             /\ Once(graph.imports[q][j]) =>
                  /\ edge'[q][j] # "returned"
                  /\ edge'[q][j] = "applied" => body'[graph.imports[q][j]] = "done"
  <2>1. CASE q = p /\ j = i
    BY <1>2, <1>6, <2>1
  <2>2. CASE q # p \/ j # i
    <3>1. edge'[q][j] = edge[q][j]
      BY <1>2, <2>2
    <3>2. graph.imports[q][j] \in Modules
      BY <1>1
    <3> QED BY <1>4, <3>1, <3>2 DEF Enlisted
  <2> QED BY <2>1, <2>2
<1>8. ASSUME NEW x \in Modules, x # Root, body'[x] # "none"
      PROVE  \E q \in Modules : \E j \in DOMAIN graph.imports[q] :
                 graph.imports[q][j] = x /\ edge'[q][j] # "idle"
  <2>1. CASE x = m
    BY <1>2, <2>1
  <2>2. CASE x # m
    <3>1. PICK q \in Modules : \E j \in DOMAIN graph.imports[q] :
              graph.imports[q][j] = x /\ edge[q][j] # "idle"
      BY <1>4, <1>8, <2>2 DEF Enlisted
    <3>2. PICK j \in DOMAIN graph.imports[q] : graph.imports[q][j] = x /\ edge[q][j] # "idle"
      BY <3>1
    <3>3. edge'[q][j] = edge[q][j]
      BY <1>2, <2>2, <3>2
    <3> QED BY <3>2, <3>3
  <2> QED BY <2>1, <2>2
<1>9. \A x \in Modules : \A t \in Tokens : own[x][t] \in Nat /\ own'[x][t] =
          IF x = m /\ m \in graph.dynamic /\ graph.home[t] = m THEN own[x][t] + 1 ELSE own[x][t]
  BY <1>0 DEF Calls, Counts
<1>10. \A t \in Tokens : own'[Root][t] = own[Root][t]
  BY <1>0, <1>3, <1>9
<1>11. \A x \in Modules : RegisteredIn(x) => RegisteredIn(x)'
  BY <1>2, <1>10 DEF RegisteredIn
<1>12. ASSUME NEW x \in Modules
       PROVE  /\ body'[x] = "importing" => graph.imports[x] # <<>>
              /\ body'[x] = "failed" /\ graph.imports[x] = <<>> => RegisteredIn(x)'
  BY <1>4, <1>11 DEF Enlisted
<1>13. \A t \in Tokens : own'[Root][t] > 0 => body'[graph.home[t]] \notin InProgress
  BY <1>0, <1>4, <1>10 DEF Enlisted, InProgress
<1>14. ASSUME NEW x \in Modules, NEW t \in Tokens, own'[x][t] > 0
       PROVE  x \in {Root, graph.home[t]} /\ body'[graph.home[t]] # "none"
  <2>1. CASE own[x][t] > 0
    BY <1>0, <1>4, <2>1 DEF Enlisted
  <2>2. CASE ~(own[x][t] > 0)
    <3>1. x = m /\ graph.home[t] = m
      BY <1>9, <1>14, <2>2
    <3>2. body'[m] # "none"
      BY <1>2
    <3> QED BY <3>1, <3>2
  <2> QED BY <2>1, <2>2
<1> QED BY <1>2, <1>5, <1>7, <1>8, <1>12, <1>13, <1>14 DEF Enlisted

LEMMA EnlistedOnSettles ==
    ASSUME ApplicationAssumption, GraphInv, Wired, Enlisted, Wired', NEW p \in Modules, Settles(p)
    PROVE  Enlisted'
<1>0. /\ graph \in Setup!Graph /\ graph.home \in [Tokens -> Modules] /\ Root \in Modules
      /\ own \in Counts /\ own' \in Counts
  BY Chained DEF Wired
<1>1. \A q \in Modules : \A j \in DOMAIN graph.imports[q] : graph.imports[q][j] \in Modules \ {Root}
  BY <1>0, NotTheRoot
<1>2. /\ body[p] \in {"running", "importing"} /\ UNCHANGED <<graph, edge>> /\ Grows
      /\ \E b \in {"validating", "hooks", "done"} : body' = [body EXCEPT ![p] = b]
      /\ \A x \in Modules : \A t \in Tokens :
           own'[x][t] # own[x][t] => graph.home[t] = p /\ x \in {Root, p}
  BY DEF Settles
<1>3. /\ body'[p] \in {"validating", "hooks", "done"} /\ body[p] \in {"running", "importing"}
      /\ \A q \in Modules : q # p => body'[q] = body[q]
  BY <1>2 DEF GraphInv, GraphCore, GraphTyped
<1>4. \A q : Once(q)' = Once(q)
  BY <1>2 DEF Once
<1>5. \A q \in Modules : \A i \in DOMAIN graph.imports[q] :
         /\ edge[q][i] # "idle" => body'[graph.imports[q][i]] # "none"
         /\ Once(graph.imports[q][i]) =>
              /\ edge[q][i] # "returned"
              /\ edge[q][i] = "applied" => body'[graph.imports[q][i]] = "done"
  BY <1>1, <1>3 DEF Enlisted
<1>6. \A m \in Modules : m # Root /\ body'[m] # "none" =>
         \E q \in Modules : \E i \in DOMAIN graph.imports[q] :
             graph.imports[q][i] = m /\ edge[q][i] # "idle"
  <2> SUFFICES ASSUME NEW m \in Modules, m # Root, body'[m] # "none" PROVE body[m] # "none"
    BY DEF Enlisted
  <2> QED BY <1>3
<1>7. \A x \in Modules : \A t \in Tokens :
          own[x][t] \in Nat /\ own'[x][t] \in Nat /\ own'[x][t] >= own[x][t]
  BY <1>0, <1>2 DEF Counts, Grows
<1>8. \A x \in Modules : RegisteredIn(x) => RegisteredIn(x)'
  <2> SUFFICES ASSUME NEW x \in Modules, RegisteredIn(x), NEW t \in Tokens, graph.home[t] = x
               PROVE  own'[Root][t] > 0
    BY <1>2 DEF RegisteredIn
  <2>1. own[Root][t] > 0
    BY DEF RegisteredIn
  <2>2. own[Root][t] \in Nat /\ own'[Root][t] \in Nat /\ own'[Root][t] >= own[Root][t]
    BY <1>0, <1>7
  <2> QED BY <2>1, <2>2
<1>9. ASSUME NEW x \in Modules
      PROVE  /\ body'[x] = "importing" => graph.imports[x] # <<>>
             /\ body'[x] = "failed" /\ graph.imports[x] = <<>> => RegisteredIn(x)'
  BY <1>3, <1>8 DEF Enlisted
<1>10. ASSUME NEW t \in Tokens, own'[Root][t] > 0 PROVE body'[graph.home[t]] \notin InProgress
  <2>1. CASE graph.home[t] = p
    BY <1>3, <2>1 DEF InProgress
  <2>2. CASE graph.home[t] # p
    BY <1>0, <1>2, <1>3, <1>10, <2>2 DEF Enlisted
  <2> QED BY <2>1, <2>2
<1>11. ASSUME NEW x \in Modules, NEW t \in Tokens, own'[x][t] > 0
       PROVE  x \in {Root, graph.home[t]} /\ body'[graph.home[t]] # "none"
  <2>1. CASE own'[x][t] = own[x][t]
    BY <1>0, <1>3, <1>11, <2>1 DEF Enlisted
  <2>2. CASE own'[x][t] # own[x][t]
    BY <1>2, <1>3, <2>2
  <2> QED BY <2>1, <2>2
<1> QED BY <1>2, <1>4, <1>5, <1>6, <1>9, <1>10, <1>11 DEF Enlisted

LEMMA EnlistedOnApplies ==
    ASSUME ApplicationAssumption, GraphInv, Wired, Enlisted, NEW p \in Modules, NEW i, Applies(p, i)
    PROVE  Enlisted'
<1>0. /\ graph \in Setup!Graph /\ graph.home \in [Tokens -> Modules] /\ Root \in Modules
      /\ own \in Counts /\ graph.global \subseteq Modules \ {Root}
  BY Chained DEF Wired, Setup!Graph
<1>1. \A q \in Modules : \A j \in DOMAIN graph.imports[q] : graph.imports[q][j] \in Modules \ {Root}
  BY <1>0, NotTheRoot
<1>2. /\ i \in DOMAIN graph.imports[p] /\ UNCHANGED <<graph, body>>
      /\ \/ edge[p][i] = "returned"
         \/ edge[p][i] = "called" /\ body[graph.imports[p][i]] = "done"
      /\ edge'[p][i] = "applied"
      /\ \A q \in Modules : \A j \in DOMAIN graph.imports[q] :
             q # p \/ j # i => edge'[q][j] = edge[q][j]
  BY DEF Applies
<1>3. PICK m \in Modules \ {Root} : m = graph.imports[p][i]
  BY <1>1, <1>2
<1>4. body[m] # "none" /\ (Once(m) => body[m] = "done")
  BY <1>2, <1>3 DEF Enlisted
<1>5. \A q : Once(q)' = Once(q)
  BY <1>2 DEF Once
<1>6. ASSUME NEW q \in Modules, NEW j \in DOMAIN graph.imports[q]
      PROVE  /\ edge'[q][j] # "idle" => body[graph.imports[q][j]] # "none"
             /\ Once(graph.imports[q][j]) =>
                  /\ edge'[q][j] # "returned"
                  /\ edge'[q][j] = "applied" => body[graph.imports[q][j]] = "done"
  <2>1. CASE q = p /\ j = i
    BY <1>2, <1>3, <1>4, <2>1
  <2>2. CASE q # p \/ j # i
    <3>1. edge'[q][j] = edge[q][j]
      BY <1>2, <2>2
    <3> QED BY <3>1 DEF Enlisted
  <2> QED BY <2>1, <2>2
<1>7. ASSUME NEW x \in Modules, x # Root, body[x] # "none"
      PROVE  \E q \in Modules : \E j \in DOMAIN graph.imports[q] :
                 graph.imports[q][j] = x /\ edge'[q][j] # "idle"
  <2>1. PICK q \in Modules : \E j \in DOMAIN graph.imports[q] :
            graph.imports[q][j] = x /\ edge[q][j] # "idle"
    BY <1>7 DEF Enlisted
  <2>2. PICK j \in DOMAIN graph.imports[q] : graph.imports[q][j] = x /\ edge[q][j] # "idle"
    BY <2>1
  <2>3. edge'[q][j] # "idle"
    BY <1>2, <2>2
  <2> QED BY <2>2, <2>3
<1>8. \A x \in Modules : \A t \in Tokens : own[x][t] \in Nat /\ own'[x][t] =
          IF x = m /\ x \in graph.global /\ graph.home[t] = x THEN own[x][t] + 1 ELSE own[x][t]
  BY <1>0, <1>3 DEF Applies, Counts
<1>9. \A t \in Tokens : own'[Root][t] = own[Root][t]
  BY <1>0, <1>8
<1>10. \A x \in Modules : RegisteredIn(x) => RegisteredIn(x)'
  BY <1>2, <1>9 DEF RegisteredIn
<1>11. ASSUME NEW x \in Modules
       PROVE  /\ body[x] = "importing" => graph.imports[x] # <<>>
              /\ body[x] = "failed" /\ graph.imports[x] = <<>> => RegisteredIn(x)'
  BY <1>10 DEF Enlisted
<1>12. \A t \in Tokens : own'[Root][t] > 0 => body[graph.home[t]] \notin InProgress
  BY <1>9 DEF Enlisted
<1>13. ASSUME NEW x \in Modules, NEW t \in Tokens, own'[x][t] > 0
       PROVE  x \in {Root, graph.home[t]} /\ body[graph.home[t]] # "none"
  <2>1. CASE own[x][t] > 0
    BY <2>1 DEF Enlisted
  <2>2. CASE ~(own[x][t] > 0)
    BY <1>4, <1>8, <1>13, <2>2
  <2> QED BY <2>1, <2>2
<1> QED BY <1>2, <1>5, <1>6, <1>7, <1>11, <1>12, <1>13 DEF Enlisted

LEMMA EnlistedStep ==
    ASSUME ApplicationAssumption, GraphInv, Wired, PathsInv, Enlisted, Wired', [Setup!Next]_setup
    PROVE  Enlisted'
<1>t. body \in [Modules -> Setup!Bodies]
  BY DEF GraphInv, GraphCore, GraphTyped
<1>1. CASE UNCHANGED <<graph, body, edge, own>>
  <2>1. \A q : Once(q)' = Once(q) /\ RegisteredIn(q)' = RegisteredIn(q)
    BY <1>1 DEF Once, RegisteredIn
  <2> QED BY <1>1, <2>1 DEF Enlisted
<1>2. ASSUME NEW p \in Modules, Awaits(p) PROVE Enlisted'
  <2>1. /\ body[p] = "running" /\ body'[p] = "importing" /\ graph.imports[p] # <<>>
        /\ UNCHANGED <<graph, edge, own>> /\ \A q \in Modules : q # p => body'[q] = body[q]
    BY <1>2, <1>t DEF Awaits
  <2> QED BY <2>1, EnlistedStays DEF InProgress, PastImports
<1>3. ASSUME NEW p \in Modules, Controls(p) PROVE Enlisted'
  <2>1. /\ body[p] = "validating" /\ body'[p] \in {"hooks", "done", "failed"}
        /\ UNCHANGED <<graph, edge, own>> /\ \A q \in Modules : q # p => body'[q] = body[q]
    BY <1>3, <1>t DEF Controls
  <2> QED BY <2>1, EnlistedStays DEF InProgress, PastImports
<1>4. ASSUME NEW p \in Modules, NEW i, Fails(p, i) PROVE Enlisted'
  <2>1. /\ body[p] = "importing" /\ body'[p] = "failed"
        /\ UNCHANGED <<graph, edge, own>> /\ \A q \in Modules : q # p => body'[q] = body[q]
    BY <1>4, <1>t DEF Fails
  <2>2. graph.imports[p] # <<>>
    BY <2>1 DEF Enlisted
  <2> QED BY <2>1, <2>2, EnlistedStays DEF InProgress, PastImports
<1>5. ASSUME NEW c, Ends(c) PROVE Enlisted'
  <2>1. UNCHANGED <<graph, edge, own>> /\ c \in Controllers
    BY <1>5 DEF Ends
  <2>2. CASE UNCHANGED body
    BY <1>1, <2>1, <2>2
  <2>3. PICK p \in Modules : p = graph.seat[c]
    BY <2>1, Chained DEF Wired
  <2>4. CASE body[p] = "hooks" /\ \E b \in {"done", "failed"} : body' = [body EXCEPT ![p] = b]
    <3>1. body'[p] \in {"done", "failed"} /\ \A q \in Modules : q # p => body'[q] = body[q]
      BY <1>t, <2>4
    <3> QED BY <2>1, <2>4, <3>1, EnlistedStays DEF InProgress, PastImports
  <2> QED BY <1>5, <2>2, <2>3, <2>4 DEF Ends
<1>6. ASSUME NEW c, NEW w, Begins(c, w) \/ Goes(c, w) PROVE Enlisted'
  BY <1>1, <1>6 DEF Begins, Goes
<1>7. ASSUME NEW c, Builds(c) PROVE Enlisted'
  BY <1>1, <1>7 DEF Builds
<1>8. CASE Setup!ModulesSettle \/ Setup!Boots
  BY <1>1, <1>8 DEF Setup!ModulesSettle, Setup!Boots
<1>9. CASE Setup!Next
  BY <1>2, <1>3, <1>4, <1>5, <1>6, <1>7, <1>8, <1>9, SetupSteps, EnlistedOnCall,
     EnlistedOnSettles, EnlistedOnApplies
<1> QED BY <1>1, <1>9 DEF setup

\* The two kinds of graph whose modules share their instances.
Ready == graph.dynamic = {} /\ Setup!GlobalsAreReady
Neat == Setup!WellFormed /\ \A m \in Modules : Setup!ImportedOnce(m)
Alike == Ready \/ (Neat /\ met = {})

\* What holds of them: nothing can be found that the root does not have; in a graph that
\* lists and exports what it uses, nothing fails and what is on the chain is there or under
\* way; and the wrappers that a get() comes to are those of the root.
Placed(w) == /\ w.in = Root
             /\ w.token \in Tokens => w.v = own[Root][w.token] /\ own[Root][w.token] > 0
             /\ w.token \notin Tokens => w.v = 1
Roots == Ready => \A m \in Modules : \A t \in Tokens : own[m][t] > 0 => own[Root][t] > 0
Unfailing ==
    /\ boot # "failed" /\ failing = {}
    /\ \A m \in Modules : body[m] # "failed"
    /\ \A c \in Controllers : asked[c] # "missing"
Traced ==
    /\ \A c \in Setup!Callers : \A k \in DOMAIN path[c] :
         Setup!Takes(path[c][k].w) # None => path[c][k].dep # None
    /\ \A k \in DOMAIN chain :
         Setup!Resolved(chain[k]) \/ \E d \in Setup!Callers : Setup!Under(d, chain[k])
Fine == Neat /\ met = {} => Unfailing /\ Traced
InRoot ==
    Alike => /\ \A c \in Setup!Callers : \A k \in DOMAIN path[c] :
                  /\ Placed(path[c][k].w)
                  /\ path[c][k].dep # None => Placed(path[c][k].dep)
             /\ \A k \in DOMAIN built : Placed(built[k].w)
Shared == Roots /\ Fine /\ InRoot

\* What a module may use is registered as soon as the module comes past its imports.
LEMMA Offers ==
    ASSUME ApplicationAssumption, GraphInv, Wired, Enlisted, Neat, NEW m \in Modules,
           body[m] \in PastImports, NEW u \in Tokens, Setup!Offered(m, u)
    PROVE  own[Root][u] > 0
<1>1. CASE graph.home[u] = m
  BY <1>1 DEF Wired, RegisteredIn
<1>2. ASSUME NEW i \in DOMAIN graph.imports[m], graph.imports[m][i] = graph.home[u]
      PROVE  own[Root][u] > 0
  <2>1. edge[m][i] = "applied"
    BY DEF GraphInv, GraphCore, Imported
  <2>2. graph.home[u] \in Modules
    BY Chained DEF Wired
  <2>3. Once(graph.home[u])
    BY <2>2 DEF Neat, Setup!ImportedOnce, Setup!imports, Once
  <2>4. body[graph.home[u]] = "done"
    BY <1>2, <2>1, <2>3 DEF Enlisted
  <2> QED BY <2>2, <2>4 DEF Wired, RegisteredIn, PastImports
<1> QED BY <1>1, <1>2 DEF Setup!Offered, Setup!imports

LEMMA NeatUses ==
    ASSUME ApplicationAssumption, GraphInv, Wired, Enlisted, Fine, Neat, met = {},
           NEW t \in Tokens, own[Root][t] > 0, graph.dep[t] # None
    PROVE  own[Root][graph.dep[t]] > 0
<1>1. PICK m \in Modules : m = graph.home[t]
  BY Chained DEF Wired
<1>2. body[m] \in PastImports
  <2>1. body[m] \notin InProgress /\ body[m] # "failed"
    BY <1>1 DEF Enlisted, Fine, Unfailing
  <2>2. body[m] \in Setup!Bodies
    BY DEF GraphInv, GraphCore, GraphTyped
  <2> QED BY <2>1, <2>2 DEF Setup!Bodies, InProgress, PastImports
<1>3. graph.dep[t] \in Tokens /\ Setup!Offered(m, graph.dep[t])
  BY <1>1, Chained DEF Wired, Neat, Setup!WellFormed
<1> QED BY <1>2, <1>3, Offers

\* A lookup in the root ends in the root.
LEMMA RootFinds ==
    ASSUME ApplicationAssumption, Wired, NEW t \in Tokens, own[Root][t] > 0
    PROVE  Setup!Lookup(Root, t) # None /\ Placed(Setup!Lookup(Root, t))
<1>1. /\ Root \in Modules /\ None \notin Modules /\ t # None /\ own \in Counts
      /\ None \notin Setup!Wrappers
  BY Chained DEF Wired
<1>2. Setup!Finds(Root, t) = Root
  BY DEF Setup!Finds
<1>3. Setup!Lookup(Root, t) = Setup!Wrapper(Root, t)
  BY <1>1, <1>2 DEF Setup!Lookup
<1>4. PICK w : w = Setup!Wrapper(Root, t)
  OBVIOUS
<1>5. w \in Setup!Wrappers /\ w.token = t /\ w.in = Root /\ w.v = own[Root][t]
  BY <1>1, <1>4, WrapperTyped
<1> QED BY <1>1, <1>3, <1>4, <1>5 DEF Placed

\* What can be found in a graph without dynamic modules is in the root.
LEMMA ReadyFinds ==
    ASSUME ApplicationAssumption, Wired, Roots, Ready, NEW t \in Tokens,
           Setup!Lookup(Root, t) # None
    PROVE  own[Root][t] > 0
<1>1. Setup!Finds(Root, t) # None /\ Root \in Modules
  BY Chained DEF Setup!Lookup, Wired
<1>2. graph.home[t] \in Modules
  BY Chained DEF Wired
<1>3. own[Root][t] > 0 \/ own[graph.home[t]][t] > 0
  BY <1>1 DEF Setup!Finds
<1> QED BY <1>2, <1>3 DEF Roots

\* What a wrapper of the root takes is a wrapper of the root.
LEMMA EntryPlaced ==
    ASSUME ApplicationAssumption, GraphInv, Wired, Enlisted, Roots, Fine, Alike,
           NEW w \in Setup!Wrappers, Placed(w),
           Neat /\ met = {} /\ w.token \in Controllers =>
               body[graph.seat[w.token]] \in PastImports
    PROVE  /\ Entry(w).dep # None => Placed(Entry(w).dep)
           /\ Neat /\ met = {} /\ Setup!Takes(w) # None => Entry(w).dep # None
<1>0. /\ graph \in Graphs /\ own \in Counts /\ Root \in Modules /\ w.in = Root
      /\ graph.seat \in [Controllers -> Modules]
  BY Chained DEF Wired, Placed
<1>1. PICK u : u = Setup!Takes(w)
  OBVIOUS
<1>2. /\ u \in Tokens \cup {None} /\ w.token \in Tokens \cup Controllers
      /\ w.token \in Tokens => u = graph.dep[w.token]
      /\ w.token \in Controllers => u = graph.needs[w.token]
  BY <1>0, <1>1, TakesTyped
<1>3. Entry(w).dep = Setup!Lookup(Root, u)
  BY <1>0, <1>1 DEF Entry
<1>4. CASE u = None
  BY <1>1, <1>3, <1>4 DEF Setup!Lookup
<1>5. CASE u # None
  <2>1. u \in Tokens
    BY <1>2, <1>5
  <2>2. Neat /\ met = {} => own[Root][u] > 0
    <3> SUFFICES ASSUME Neat, met = {} PROVE own[Root][u] > 0
      OBVIOUS
    <3>1. CASE w.token \in Tokens
      BY <1>2, <1>5, <3>1, NeatUses DEF Placed
    <3>2. CASE w.token \in Controllers
      <4>1. PICK m \in Modules : m = graph.seat[w.token]
        BY <1>0, <3>2
      <4>2. body[m] \in PastImports
        BY <3>2, <4>1
      <4>3. Setup!Offered(m, u)
        BY <1>2, <1>5, <3>2, <4>1 DEF Neat, Setup!WellFormed
      <4> QED BY <2>1, <4>2, <4>3, Offers
    <3> QED BY <1>2, <3>1, <3>2
  <2>3. Setup!Lookup(Root, u) # None => own[Root][u] > 0
    BY <2>1, <2>2, ReadyFinds DEF Alike
  <2>4. own[Root][u] > 0 => Setup!Lookup(Root, u) # None /\ Placed(Setup!Lookup(Root, u))
    BY <2>1, RootFinds
  <2> QED BY <1>3, <2>2, <2>3, <2>4
<1> QED BY <1>4, <1>5

\* Every get() comes to wrappers of the root, and where nothing fails it finds one.
LEMMA ComesTo ==
    ASSUME ApplicationAssumption, GraphInv, Wired, PathsInv, Enlisted, Shared, Alike,
           NEW c, NEW w, Begins(c, w) \/ Goes(c, w)
    PROVE  /\ w # None => Placed(w)
           /\ Neat /\ met = {} =>
                w # None /\ (w.token \in Controllers => body[graph.seat[w.token]] \in PastImports)
<1>0. /\ graph \in Graphs /\ own \in Counts /\ Root \in Modules /\ None \notin Setup!Wrappers
      /\ graph.seat \in [Controllers -> Modules] /\ None \notin Tokens
      /\ graph.home \in [Tokens -> Modules] /\ Tokens \cap Controllers = {}
      /\ graph.needs \in [Controllers -> Tokens \cup {None}]
  BY Chained DEF Wired
<1>1. ASSUME NEW t \in Tokens, w = Setup!Lookup(Root, t), Neat /\ met = {} => own[Root][t] > 0
      PROVE  /\ w # None => Placed(w) /\ w.token \notin Controllers
             /\ Neat /\ met = {} => w # None
  <2>1. w # None => own[Root][t] > 0
    BY <1>1, ReadyFinds DEF Alike, Shared
  <2>2. own[Root][t] > 0 => w # None /\ Placed(w)
    BY <1>1, RootFinds
  <2>3. w # None => w.token = t
    BY <1>0, <1>1, LookupTyped
  <2> QED BY <1>0, <1>1, <2>1, <2>2, <2>3
<1>2. ASSUME NEW d \in Controllers, w = Setup!ControllerWrapper(d), body[graph.seat[d]] \in PastImports
      PROVE  /\ w # None /\ Placed(w)
             /\ w.token \in Controllers => body[graph.seat[w.token]] \in PastImports
  <2>1. w \in Setup!Wrappers /\ w.token = d /\ w.in = Root /\ w.v = 1
    BY <1>2, ControllerTyped
  <2> QED BY <1>0, <1>2, <2>1 DEF Placed
<1>3. CASE Begins(c, w) /\ boot = "modules"
  <2>1. /\ c \in Controllers /\ body[graph.seat[c]] \in PastImports
        /\ \/ w = Setup!Lookup(Root, graph.needs[c]) /\ c \in Setup!Validated(graph.seat[c])
           \/ w = Setup!ControllerWrapper(c) /\ c \in Setup!Hooked(graph.seat[c])
    BY <1>3 DEF Begins
  <2>2. CASE w = Setup!Lookup(Root, graph.needs[c]) /\ c \in Setup!Validated(graph.seat[c])
    <3>1. graph.needs[c] # None
      BY <2>2 DEF Setup!Validated
    <3>2. graph.needs[c] \in Tokens
      BY <1>0, <2>1, <3>1
    <3>3. Neat => Setup!Offered(graph.seat[c], graph.needs[c])
      BY <2>1, <3>1 DEF Neat, Setup!WellFormed
    <3>4. graph.seat[c] \in Modules
      BY <1>0, <2>1
    <3>5. Neat => own[Root][graph.needs[c]] > 0
      BY <2>1, <3>2, <3>3, <3>4, Offers
    <3> QED BY <1>1, <2>2, <3>2, <3>5
  <2>3. CASE w = Setup!ControllerWrapper(c)
    BY <1>2, <2>1, <2>3
  <2> QED BY <2>1, <2>2, <2>3
<1>4. CASE Begins(c, w) /\ boot = "providers"
  <2>1. \/ \E t \in Setup!Unbuilt : w = Setup!Lookup(Root, t)
        \/ \E d \in Setup!Unserved : w = Setup!ControllerWrapper(d)
    BY <1>4 DEF Begins
  <2>2. ASSUME NEW t \in Setup!Unbuilt, w = Setup!Lookup(Root, t)
        PROVE  t \in Tokens /\ own[Root][t] > 0
    <3>1. PICK m \in Modules : t \in Tokens /\ own[m][t] > 0
      BY DEF Setup!Unbuilt
    <3>2. graph.home[t] \in Modules /\ body[graph.home[t]] # "none"
      BY <1>0, <3>1 DEF Enlisted
    <3>3. body[graph.home[t]] = "done"
      BY <1>4, <3>2, GraphKeeps DEF RootLast, Setup!RootLast
    <3> QED BY <3>1, <3>2, <3>3 DEF Wired, RegisteredIn, PastImports
  <2>3. ASSUME NEW d \in Setup!Unserved, w = Setup!ControllerWrapper(d)
        PROVE  d \in Controllers /\ body[graph.seat[d]] \in PastImports
    BY DEF Setup!Unserved, PastImports
  <2> QED BY <1>1, <1>2, <2>1, <2>2, <2>3
<1>5. CASE Goes(c, w)
  <2>1. calling = c /\ c \in Setup!Callers /\ w = Setup!LastFrame(c).dep /\ GetsTyped
        /\ w \in Setup!Wrappers \cup {None}
    BY <1>5 DEF Goes, PathsInv
  <2>2. path[c] # <<>> /\ Setup!Takes(Setup!LastFrame(c).w) # None
    BY <2>1 DEF PathsInv, LinkedIn
  <2>3. PICK n \in DOMAIN path[c] : Setup!LastFrame(c) = path[c][n] /\ path[c][n] \in Setup!Frame
    BY <2>1, <2>2, LastIs
  <2>4. w # None => Placed(w)
    BY <2>1, <2>3 DEF Shared, InRoot
  <2>5. Neat /\ met = {} => w # None
    BY <2>1, <2>2, <2>3 DEF Shared, Fine, Traced
  <2>6. w # None => w.token \in Tokens
    <3>1. w # None => w.token = Setup!Takes(path[c][n].w) /\ Setup!Takes(path[c][n].w) # None
      BY <2>1, <2>3 DEF PathsInv, LinkedIn, Fits
    <3>2. path[c][n].w \in Setup!Wrappers
      BY <2>3 DEF Setup!Frame
    <3> QED BY <1>0, <3>1, <3>2, TakesTyped
  <2> QED BY <1>0, <2>4, <2>5, <2>6
<1> QED BY <1>3, <1>4, <1>5 DEF Begins

LEMMA SameKind == ASSUME UNCHANGED graph PROVE Ready' = Ready /\ Neat' = Neat
<1>1. \A m : Setup!ImportedOnce(m)' = Setup!ImportedOnce(m)
  BY DEF Setup!ImportedOnce, Setup!imports
<1>2. Setup!WellFormed' = Setup!WellFormed
  BY DEF Setup!WellFormed, Setup!Offered, Setup!imports
<1>3. Setup!GlobalsAreReady' = Setup!GlobalsAreReady
  BY <1>1 DEF Setup!GlobalsAreReady, Setup!imports
<1> QED BY <1>1, <1>2, <1>3 DEF Ready, Neat

\* What the steps do to the registrations, and that the graph stays.
LEMMA OwnSteps ==
    ASSUME ApplicationAssumption, GraphInv, Wired, PathsInv, [Setup!Next]_setup
    PROVE  /\ UNCHANGED graph
           /\ \/ UNCHANGED own
              \/ \E p \in Modules : \E i \in DOMAIN graph.imports[p] : \E m \in Modules : Calls(p, i, m)
              \/ \E p \in Modules : Settles(p)
              \/ \E p \in Modules : \E i \in DOMAIN graph.imports[p] : Applies(p, i)
<1>1. CASE Setup!ModulesSettle \/ Setup!Boots
  BY <1>1 DEF Setup!ModulesSettle, Setup!Boots
<1>2. CASE UNCHANGED setup
  BY <1>2 DEF setup
<1>3. CASE Setup!Next
  BY <1>1, <1>3, SetupSteps
     DEF Calls, Settles, Awaits, Controls, Applies, Fails, Begins, Goes, Builds, Ends
<1> QED BY <1>1, <1>2, <1>3

\* The root's registration of a token is not replaced.
LEMMA RootStays ==
    ASSUME ApplicationAssumption, GraphInv, Wired, PathsInv, Enlisted, [Setup!Next]_setup
    PROVE  \A t \in Tokens : own[Root][t] > 0 => own'[Root][t] = own[Root][t]
<1>0. /\ graph \in Setup!Graph /\ Root \in Modules /\ graph.home \in [Tokens -> Modules]
      /\ \A q \in Modules : \A j \in DOMAIN graph.imports[q] :
             graph.imports[q][j] \in Modules \ {Root}
  BY Chained, NotTheRoot DEF Wired
<1>1. ASSUME NEW p \in Modules, NEW i \in DOMAIN graph.imports[p], NEW m \in Modules, Calls(p, i, m),
             NEW t \in Tokens
      PROVE  own'[Root][t] = own[Root][t]
  <2>1. m # Root
    BY <1>0, <1>1 DEF Calls
  <2> QED BY <1>0, <1>1, <2>1 DEF Calls
<1>2. ASSUME NEW p \in Modules, Settles(p), NEW t \in Tokens, own[Root][t] > 0
      PROVE  own'[Root][t] = own[Root][t]
  <2>1. body[graph.home[t]] \notin InProgress /\ body[p] \in {"running", "importing"}
    BY <1>0, <1>2 DEF Enlisted, Settles
  <2>2. graph.home[t] # p
    BY <2>1 DEF InProgress
  <2> QED BY <1>0, <1>2, <2>2 DEF Settles
<1>3. ASSUME NEW p \in Modules, NEW i \in DOMAIN graph.imports[p], Applies(p, i), NEW t \in Tokens
      PROVE  own'[Root][t] = own[Root][t]
  <2>1. graph.imports[p][i] # Root
    BY <1>0
  <2> QED BY <1>0, <1>3, <2>1 DEF Applies
<1> QED BY <1>1, <1>2, <1>3, OwnSteps

\* A global module is offered when its providers are in the root: it imports nothing and
\* was entered, or its only import has waited for it.
LEMMA AppliesReady ==
    ASSUME ApplicationAssumption, GraphInv, Wired, Enlisted, Running, Ready,
           NEW p \in Modules, NEW i, Applies(p, i), graph.imports[p][i] \in graph.global
    PROVE  RegisteredIn(graph.imports[p][i])
<1>1. PICK m \in Modules : m = graph.imports[p][i]
  BY NotTheRoot DEF Applies, GraphInv, GraphCore, GraphTyped
<1>2. /\ stack = <<>> /\ i \in DOMAIN graph.imports[p]
      /\ edge[p][i] = "returned" \/ (edge[p][i] = "called" /\ body[m] = "done")
  BY <1>1 DEF Applies
<1>3. CASE edge[p][i] = "called" /\ body[m] = "done"
  BY <1>1, <1>3 DEF Wired, PastImports
<1>4. CASE edge[p][i] = "returned"
  <2>1. ~Once(m)
    BY <1>1, <1>2, <1>4 DEF Enlisted
  <2>2. graph.imports[m] = <<>>
    BY <1>1, <2>1 DEF Ready, Setup!GlobalsAreReady, Setup!ImportedOnce, Setup!imports, Once
  <2>3. body[m] # "none" /\ body[m] # "importing"
    BY <1>1, <1>2, <1>4, <2>2 DEF Enlisted
  <2>4. body[m] # "running"
    BY <1>2 DEF Running, OnList
  <2>5. body[m] \in Setup!Bodies
    BY DEF GraphInv, GraphCore, GraphTyped
  <2>6. body[m] \in PastImports \/ body[m] = "failed"
    BY <2>3, <2>4, <2>5 DEF Setup!Bodies, PastImports
  <2> QED BY <1>1, <2>2, <2>6 DEF Wired, Enlisted
<1> QED BY <1>2, <1>3, <1>4

LEMMA RootsStep ==
    ASSUME ApplicationAssumption, GraphInv, Wired, PathsInv, Enlisted, Running, Roots,
           [Setup!Next]_setup
    PROVE  Roots'
<1>0. /\ graph \in Setup!Graph /\ Root \in Modules /\ own \in Counts
      /\ \A q \in Modules : \A j \in DOMAIN graph.imports[q] :
             graph.imports[q][j] \in Modules \ {Root}
  BY Chained, NotTheRoot DEF Wired
<1>1. Ready' = Ready
  BY OwnSteps, SameKind
<1> SUFFICES ASSUME Ready, NEW x \in Modules, NEW t \in Tokens, own'[x][t] > 0
             PROVE  own'[Root][t] > 0
  BY <1>1 DEF Roots
<1>2. CASE own[x][t] > 0
  <2>1. own[Root][t] > 0
    BY <1>2 DEF Roots
  <2>2. own'[Root][t] = own[Root][t]
    BY <2>1, RootStays
  <2> QED BY <2>1, <2>2
<1>3. ASSUME NEW p \in Modules, NEW i \in DOMAIN graph.imports[p], NEW m \in Modules, Calls(p, i, m)
      PROVE  own'[x][t] = own[x][t]
  BY <1>3 DEF Calls, Ready
<1>4. ASSUME NEW p \in Modules, Settles(p), ~(own[x][t] > 0) PROVE own'[Root][t] > 0
  <2>1. graph.home[t] = p
    BY <1>4 DEF Settles
  <2>2. own'[Root][t] > own[Root][t] /\ own[Root][t] \in Nat /\ own' \in Counts
    BY <1>0, <1>4, <2>1 DEF Settles, Counts
  <2>3. own'[Root][t] \in Nat
    BY <1>0, <2>2 DEF Counts
  <2> QED BY <2>2, <2>3
<1>5. ASSUME NEW p \in Modules, NEW i \in DOMAIN graph.imports[p], Applies(p, i), ~(own[x][t] > 0)
      PROVE  own'[Root][t] > 0
  <2>1. PICK m \in Modules \ {Root} : m = graph.imports[p][i]
    BY <1>0
  <2>2. m \in graph.global /\ graph.home[t] = m
    BY <1>5, <2>1 DEF Applies
  <2>3. RegisteredIn(m)
    BY <1>5, <2>1, <2>2, AppliesReady
  <2>4. own[Root][t] > 0
    BY <2>2, <2>3 DEF RegisteredIn
  <2>5. own'[Root][t] = own[Root][t]
    BY <2>4, RootStays
  <2> QED BY <2>4, <2>5
<1> QED BY <1>2, <1>3, <1>4, <1>5, OwnSteps

LEMMA PlacedStays ==
    ASSUME \A t \in Tokens : own[Root][t] > 0 => own'[Root][t] = own[Root][t]
    PROVE  \A w : Placed(w) => Placed(w)'
BY DEF Placed

LEMMA InRootStep ==
    ASSUME ApplicationAssumption, GraphInv, Wired, PathsInv, Enlisted, Shared, [Setup!Next]_setup
    PROVE  InRoot'
<1>0. GetsTyped /\ None \notin Setup!Wrappers
  BY Chained DEF PathsInv, Wired
<1> SUFFICES ASSUME Alike'
             PROVE  /\ \A c \in Setup!Callers : \A k \in DOMAIN path'[c] :
                         /\ Placed(path[c][k].w)'
                         /\ path'[c][k].dep # None => Placed(path[c][k].dep)'
                    /\ \A k \in DOMAIN built' : Placed(built[k].w)'
  BY DEF InRoot, Setup!Callers
<1>1. Alike
  BY OwnSteps, SameKind, MetGrows DEF Alike
<1>2. /\ \A c \in Setup!Callers : \A k \in DOMAIN path[c] :
           Placed(path[c][k].w) /\ (path[c][k].dep # None => Placed(path[c][k].dep))
      /\ \A k \in DOMAIN built : Placed(built[k].w)
  BY <1>1 DEF Shared, InRoot
<1>3. \A w : Placed(w) => Placed(w)'
  BY RootStays, PlacedStays
<1>4. ASSUME \A c \in Setup!Callers : \A k \in DOMAIN path'[c] :
                 Placed(path'[c][k].w) /\ (path'[c][k].dep # None => Placed(path'[c][k].dep)),
             \A k \in DOMAIN built' : Placed(built'[k].w)
      PROVE  /\ \A c \in Setup!Callers : \A k \in DOMAIN path'[c] :
                  /\ Placed(path[c][k].w)'
                  /\ path'[c][k].dep # None => Placed(path[c][k].dep)'
             /\ \A k \in DOMAIN built' : Placed(built[k].w)'
  <2>1. ASSUME NEW c \in Setup!Callers, NEW k \in DOMAIN path'[c]
        PROVE  Placed(path[c][k].w)' /\ (path'[c][k].dep # None => Placed(path[c][k].dep)')
    <3>1. PICK f : f = path'[c][k]
      OBVIOUS
    <3>2. Placed(f.w)' /\ (f.dep # None => Placed(f.dep)')
      BY <1>3, <1>4, <3>1
    <3> QED BY <3>1, <3>2
  <2>2. ASSUME NEW k \in DOMAIN built' PROVE Placed(built[k].w)'
    <3>1. PICK f : f = built'[k]
      OBVIOUS
    <3>2. Placed(f.w)'
      BY <1>3, <1>4, <3>1
    <3> QED BY <3>1, <3>2
  <2> QED BY <2>1, <2>2
<1>5. CASE UNCHANGED <<path, built>>
  BY <1>2, <1>4, <1>5
<1>6. ASSUME NEW c, NEW w, Begins(c, w) \/ Goes(c, w), Pushes(c, w)
      PROVE  /\ \A d \in Setup!Callers : \A k \in DOMAIN path'[d] :
                    Placed(path'[d][k].w) /\ (path'[d][k].dep # None => Placed(path'[d][k].dep))
             /\ \A k \in DOMAIN built' : Placed(built'[k].w)
  <2>1. /\ w \in Setup!Wrappers /\ Longer(c, Entry(w)) /\ c \in Setup!Callers /\ UNCHANGED built
        /\ w # None /\ Entry(w).w = w
    BY <1>0, <1>6 DEF Pushes, Begins, Goes, Entry
  <2>2. Placed(w) /\ (Entry(w).dep # None => Placed(Entry(w).dep))
    BY <1>1, <1>6, <2>1, ComesTo, EntryPlaced DEF Shared
  <2>3. PICK n \in Nat : /\ DOMAIN path[c] = 1 .. n /\ DOMAIN path'[c] = 1 .. n + 1
                         /\ \A k \in 1 .. n : path'[c][k] = path[c][k]
                         /\ path'[c][n + 1] = Entry(w)
    BY <2>1 DEF Longer
  <2>4. \A k \in 1 .. n + 1 : k = n + 1 \/ k \in 1 .. n
    OBVIOUS
  <2>5. \A d \in Setup!Callers : d # c => path'[d] = path[d]
    BY <2>1 DEF Longer
  <2> QED BY <1>2, <2>1, <2>2, <2>3, <2>4, <2>5
<1>7. ASSUME NEW c, NEW w, Begins(c, w) \/ Goes(c, w)
      PROVE  UNCHANGED <<path, built>> \/ Pushes(c, w)
  BY <1>7 DEF Begins, Goes, Enters, Misses, Hits, Collides
<1>8. ASSUME NEW c, Builds(c)
      PROVE  /\ \A d \in Setup!Callers : \A k \in DOMAIN path'[d] :
                    Placed(path'[d][k].w) /\ (path'[d][k].dep # None => Placed(path'[d][k].dep))
             /\ \A k \in DOMAIN built' : Placed(built'[k].w)
  <2>1. /\ c \in Setup!Callers /\ Setup!LastFrame(c) \in Setup!Frame /\ Less(c, Setup!LastFrame(c))
        /\ built' = IF c \in failing THEN built ELSE Append(built, Setup!LastFrame(c))
    BY <1>8 DEF Builds
  <2>2. PICK f \in Setup!Frame : f = Setup!LastFrame(c)
    BY <2>1
  <2>3. PICK n \in Nat : /\ DOMAIN path[c] = 1 .. n + 1 /\ DOMAIN path'[c] = 1 .. n
                         /\ \A k \in 1 .. n : path'[c][k] = path[c][k]
                         /\ path[c][n + 1] = f
    BY <2>1, <2>2 DEF Less
  <2>4. \A d \in Setup!Callers : d # c => path'[d] = path[d]
    BY <2>1 DEF Less
  <2>5. Placed(f.w)
    <3>1. n + 1 \in DOMAIN path[c]
      BY <2>3
    <3> QED BY <1>2, <2>1, <2>3, <3>1
  <2>6. \A k \in DOMAIN built' : Placed(built'[k].w)
    <3>1. CASE built' = built
      BY <1>2, <3>1
    <3>2. CASE built' = Append(built, f)
      <4>1. PICK l : l = Len(built)
        OBVIOUS
      <4>2. /\ l \in Nat /\ DOMAIN built = 1 .. l /\ DOMAIN built' = 1 .. l + 1
            /\ built'[l + 1] = f /\ \A k \in 1 .. l : built'[k] = built[k]
        BY <1>0, <3>2, <4>1, EntryOf DEF GetsTyped
      <4>3. \A k \in 1 .. l + 1 : k = l + 1 \/ k \in 1 .. l
        BY <4>2
      <4> QED BY <1>2, <2>5, <4>2, <4>3
    <3> QED BY <2>1, <2>2, <3>1, <3>2
  <2>7. \A k \in 1 .. n : k \in 1 .. n + 1
    OBVIOUS
  <2> QED BY <1>2, <2>3, <2>4, <2>6, <2>7
<1> QED BY <1>4, <1>5, <1>6, <1>7, <1>8, Steps

\* Nothing fails.
LEMMA UnfailingStep ==
    ASSUME ApplicationAssumption, GraphInv, Wired, PathsInv, Enlisted, Ranked, Shared,
           [Setup!Next]_setup, Neat, met = {}, met' = {}
    PROVE  Unfailing'
<1>0. /\ body \in [Modules -> Setup!Bodies] /\ asked \in [Controllers -> AskStates]
      /\ graph \in Setup!Graph /\ Root \in Modules /\ None \notin Setup!Wrappers
  BY Chained DEF GraphInv, GraphCore, GraphTyped, Asks, Wired
<1>1. /\ boot # "failed" /\ failing = {}
      /\ \A m \in Modules : body[m] # "failed"
      /\ \A c \in Controllers : asked[c] # "missing"
  BY DEF Shared, Fine, Unfailing
<1>2. CASE UNCHANGED <<boot, failing, body, asked>>
  BY <1>1, <1>2 DEF Unfailing
<1>3. ASSUME Still, UNCHANGED boot, \A m \in Modules : body'[m] # "failed" PROVE Unfailing'
  BY <1>1, <1>3 DEF Unfailing, Still
<1>4. ASSUME NEW p \in Modules, NEW i, NEW m, Calls(p, i, m) PROVE Unfailing'
  BY <1>1, <1>3, <1>4 DEF Calls
<1>5. ASSUME NEW p \in Modules, Settles(p) \/ Awaits(p) \/ Controls(p) PROVE Unfailing'
  <2>1. /\ Still /\ UNCHANGED boot
        /\ \E b \in {"importing", "validating", "hooks", "done"} : body' = [body EXCEPT ![p] = b]
    BY <1>1, <1>5 DEF Settles, Awaits, Controls
  <2>2. \A m \in Modules : body'[m] # "failed"
    BY <1>0, <1>1, <2>1
  <2> QED BY <1>3, <2>1, <2>2
<1>6. ASSUME NEW p \in Modules, NEW i \in DOMAIN graph.imports[p], Applies(p, i) \/ Fails(p, i)
      PROVE  Unfailing'
  <2>1. graph.imports[p][i] \in Modules
    BY <1>0, NotTheRoot
  <2>2. Applies(p, i)
    BY <1>1, <1>6, <2>1 DEF Fails
  <2> QED BY <1>1, <1>3, <2>2 DEF Applies
<1>7. ASSUME NEW c, NEW w, Begins(c, w) \/ Goes(c, w) PROVE Unfailing'
  <2>1. Enters(c, w) /\ c \in Setup!Callers /\ UNCHANGED <<boot, body>>
    BY <1>7 DEF Begins, Goes
  <2>2. w # None
    BY <1>7, ComesTo DEF Alike
  <2>3. ~Collides(c, w)
    <3> SUFFICES ASSUME Collides(c, w) PROVE FALSE
      OBVIOUS
    <3>1. ~Setup!Resolved(w) /\ Meets(c, w) /\ Setup!InChain(w)
      BY DEF Collides
    <3>2. PICK d \in Setup!Callers : Setup!Under(d, w)
      BY <3>1 DEF Setup!InChain, Shared, Fine, Traced
    <3>3. d # c
      BY <1>7, <2>2, <3>2, NeverItsOwn
    <3> QED BY <3>1, <3>2, <3>3, MetNothing
  <2>4. UNCHANGED failing
    BY <2>1, <2>2, <2>3 DEF Enters, Misses, Hits, Pushes
  <2>5. \A d \in Controllers : asked'[d] # "missing"
    <3>1. UNCHANGED asked \/ \E a \in {"validating", "hooking"} : asked' = [asked EXCEPT ![c] = a]
      BY <1>7 DEF Begins, Goes
    <3> QED BY <1>0, <1>1, <3>1
  <2> QED BY <1>1, <2>1, <2>4, <2>5 DEF Unfailing
<1>8. ASSUME NEW c, Builds(c) PROVE Unfailing'
  BY <1>2, <1>8 DEF Builds
<1>9. ASSUME NEW c, Ends(c) PROVE Unfailing'
  <2>1. /\ UNCHANGED boot /\ failing' = {}
        /\ \E a \in {"found", "hooked"} : asked' = [asked EXCEPT ![c] = a]
        /\ \/ UNCHANGED body
           \/ body' = [body EXCEPT ![graph.seat[c]] = "done"]
    BY <1>1, <1>9 DEF Ends
  <2>2. \A m \in Modules : body'[m] # "failed"
    BY <1>0, <1>1, <2>1
  <2>3. \A d \in Controllers : asked'[d] # "missing"
    BY <1>0, <1>1, <2>1
  <2> QED BY <1>1, <2>1, <2>2, <2>3 DEF Unfailing
<1>10. CASE Setup!ModulesSettle \/ Setup!Boots
  <2>1. UNCHANGED <<body, asked, failing>> /\ boot' # "failed"
    BY <1>0, <1>1, <1>10 DEF Setup!ModulesSettle, Setup!Boots, Setup!gets
  <2> QED BY <1>1, <2>1 DEF Unfailing
<1>11. CASE UNCHANGED setup
  BY <1>2, <1>11 DEF setup
<1>12. CASE Setup!Next
  BY <1>4, <1>5, <1>6, <1>7, <1>8, <1>9, <1>10, <1>12, SetupSteps
<1> QED BY <1>11, <1>12

LEMMA BelowAll ==
    ASSUME NEW S, NEW s \in Seq(S)
    PROVE  \A k \in DOMAIN Setup!Below(s) : k \in DOMAIN s /\ Setup!Below(s)[k] = s[k]
<1>1. CASE s = <<>>
  <2>1. Len(s) = 0
    BY <1>1, EmptySeq
  <2>2. Setup!Below(s) = [i \in 1 .. (1 + (Len(s) - 1) - 1) |-> s[i + 1 - 1]]
    BY DEF Setup!Below
  <2>3. DOMAIN Setup!Below(s) = {}
    BY <2>1, <2>2
  <2> QED BY <2>3
<1>2. CASE s # <<>>
  <2>1. PICK n \in Nat : n = Len(s) - 1
    BY <1>2, BelowIs
  <2>2. /\ DOMAIN s = 1 .. n + 1 /\ DOMAIN Setup!Below(s) = 1 .. n
        /\ \A k \in 1 .. n : Setup!Below(s)[k] = s[k]
    BY <1>2, <2>1, BelowIs
  <2> QED BY <2>2
<1> QED BY <1>1, <1>2

\* What is on the chain has an instance or is being built, and every get() has found what
\* the provider that it is at takes.
LEMMA TracedStep ==
    ASSUME ApplicationAssumption, GraphInv, Wired, PathsInv, Enlisted, Shared,
           [Setup!Next]_setup, Neat, met = {}
    PROVE  Traced'
<1>0. GetsTyped /\ None \notin Setup!Wrappers /\ UNCHANGED graph
  BY Chained, OwnSteps DEF PathsInv, Wired
<1>1. \A v : Setup!Takes(v)' = Setup!Takes(v)
  BY <1>0, TakesStay
<1>2. /\ \A c \in Setup!Callers : \A k \in DOMAIN path[c] :
           Setup!Takes(path[c][k].w) # None => path[c][k].dep # None
      /\ \A k \in DOMAIN chain :
           Setup!Resolved(chain[k]) \/ \E d \in Setup!Callers : Setup!Under(d, chain[k])
      /\ failing = {}
  BY DEF Shared, Fine, Traced, Unfailing
<1>3. ASSUME \A c \in Setup!Callers : \A k \in DOMAIN path'[c] :
                 Setup!Takes(path'[c][k].w) # None => path'[c][k].dep # None,
             \A k \in DOMAIN chain' : \E v :
                 /\ v = chain'[k]
                 /\ Setup!Resolved(v)' \/ \E d \in Setup!Callers : Setup!Under(d, v)'
      PROVE  Traced'
  <2>1. ASSUME NEW k \in DOMAIN chain'
        PROVE  Setup!Resolved(chain[k])' \/ \E d \in Setup!Callers : Setup!Under(d, chain[k])'
    <3>1. PICK v : /\ v = chain'[k]
                   /\ Setup!Resolved(v)' \/ \E d \in Setup!Callers : Setup!Under(d, v)'
      BY <1>3, <2>1
    <3> QED BY <3>1
  <2>2. ASSUME NEW c \in Setup!Callers, NEW k \in DOMAIN path'[c],
               Setup!Takes(path[c][k].w)' # None
        PROVE  path'[c][k].dep # None
    <3>1. PICK f : f = path'[c][k]
      OBVIOUS
    <3>2. Setup!Takes(f.w)' # None
      BY <2>2, <3>1
    <3> QED BY <1>1, <1>3, <3>1, <3>2
  <2> QED BY <2>1, <2>2 DEF Traced, Setup!Callers
<1>4. CASE UNCHANGED <<path, built, chain>>
  <2>1. ASSUME NEW k \in DOMAIN chain'
        PROVE  \E v : /\ v = chain'[k]
                      /\ Setup!Resolved(v)' \/ \E d \in Setup!Callers : Setup!Under(d, v)'
    <3>1. PICK v : v = chain[k]
      OBVIOUS
    <3>2. Setup!Resolved(v) \/ \E d \in Setup!Callers : Setup!Under(d, v)
      BY <1>2, <1>4, <2>1, <3>1
    <3>3. Setup!Resolved(v)' \/ \E d \in Setup!Callers : Setup!Under(d, v)'
      BY <1>4, <3>2 DEF Setup!Resolved, Setup!Under
    <3> QED BY <1>4, <3>1, <3>3
  <2> QED BY <1>2, <1>3, <1>4, <2>1
<1>5. ASSUME NEW c, NEW w, Begins(c, w) \/ Goes(c, w), Pushes(c, w) PROVE Traced'
  <2>1. /\ w \in Setup!Wrappers /\ Longer(c, Entry(w)) /\ c \in Setup!Callers /\ UNCHANGED built
        /\ w # None /\ Entry(w).w = w /\ chain' = Append(chain, w)
    BY <1>0, <1>5 DEF Pushes, Begins, Goes, Entry
  <2>2. Setup!Takes(w) # None => Entry(w).dep # None
    BY <1>5, <2>1, ComesTo, EntryPlaced DEF Shared, Alike
  <2>3. PICK n \in Nat : /\ DOMAIN path[c] = 1 .. n /\ DOMAIN path'[c] = 1 .. n + 1
                         /\ \A k \in 1 .. n : path'[c][k] = path[c][k]
                         /\ path'[c][n + 1] = Entry(w)
    BY <2>1 DEF Longer
  <2>4. \A k \in 1 .. n + 1 : k = n + 1 \/ k \in 1 .. n
    OBVIOUS
  <2>5. \A d \in Setup!Callers : d # c => path'[d] = path[d]
    BY <2>1 DEF Longer
  <2>6. \A d \in Setup!Callers : \A k \in DOMAIN path'[d] :
            Setup!Takes(path'[d][k].w) # None => path'[d][k].dep # None
    BY <1>2, <2>1, <2>2, <2>3, <2>4, <2>5
  <2>7. PICK l : l = Len(chain)
    OBVIOUS
  <2>8. /\ l \in Nat /\ DOMAIN chain = 1 .. l /\ DOMAIN chain' = 1 .. l + 1
        /\ chain'[l + 1] = w /\ \A k \in 1 .. l : chain'[k] = chain[k]
    BY <1>0, <2>1, <2>7, EntryOf DEF GetsTyped
  <2>9. n + 1 \in 1 .. n + 1 /\ \A k \in 1 .. n : k \in 1 .. n + 1
    BY <2>3
  <2>10. Setup!Under(c, w)'
    BY <2>1, <2>3, <2>9 DEF Setup!Under
  <2>11. \A d \in Setup!Callers : \A v : Setup!Under(d, v) => Setup!Under(d, v)'
    BY <2>3, <2>5, <2>9 DEF Setup!Under
  <2>12. \A v : Setup!Resolved(v)' = Setup!Resolved(v)
    BY <2>1 DEF Setup!Resolved
  <2>13. ASSUME NEW k \in DOMAIN chain'
         PROVE  \E v : /\ v = chain'[k]
                       /\ Setup!Resolved(v)' \/ \E d \in Setup!Callers : Setup!Under(d, v)'
    <3>1. CASE k = l + 1
      BY <2>1, <2>8, <2>10, <3>1
    <3>2. CASE k # l + 1
      <4>1. k \in 1 .. l
        BY <2>8, <3>2
      <4>2. PICK v : v = chain[k]
        OBVIOUS
      <4>3. Setup!Resolved(v) \/ \E d \in Setup!Callers : Setup!Under(d, v)
        BY <1>2, <2>8, <4>1, <4>2
      <4>4. Setup!Resolved(v)' \/ \E d \in Setup!Callers : Setup!Under(d, v)'
        BY <2>11, <2>12, <4>3
      <4> QED BY <2>8, <4>1, <4>2, <4>4
    <3> QED BY <3>1, <3>2
  <2> QED BY <1>3, <2>6, <2>13
<1>6. ASSUME NEW c, NEW w, Begins(c, w) \/ Goes(c, w)
      PROVE  UNCHANGED <<path, built, chain>> \/ Pushes(c, w)
  BY <1>6 DEF Begins, Goes, Enters, Misses, Hits, Collides
<1>7. ASSUME NEW c, Builds(c) PROVE Traced'
  <2>1. /\ c \in Setup!Callers /\ Setup!LastFrame(c) \in Setup!Frame /\ Less(c, Setup!LastFrame(c))
        /\ built' = Append(built, Setup!LastFrame(c)) /\ chain' = Setup!Below(chain)
    BY <1>2, <1>7 DEF Builds
  <2>2. PICK f \in Setup!Frame : f = Setup!LastFrame(c)
    BY <2>1
  <2>3. PICK n \in Nat : /\ DOMAIN path[c] = 1 .. n + 1 /\ DOMAIN path'[c] = 1 .. n
                         /\ \A k \in 1 .. n : path'[c][k] = path[c][k]
                         /\ path[c][n + 1] = f
    BY <2>1, <2>2 DEF Less
  <2>4. /\ \A d \in Setup!Callers : d # c => path'[d] = path[d]
        /\ \A k \in 1 .. n : k \in 1 .. n + 1
        /\ \A k \in 1 .. n + 1 : k = n + 1 \/ k \in 1 .. n
    BY <2>1 DEF Less
  <2>5. /\ \A v : Setup!Resolved(v) => Setup!Resolved(v)'
        /\ Setup!Resolved(f.w)'
    BY <1>0, <2>1, <2>2, ResolvedStays
  <2>6. \A d \in Setup!Callers : \A k \in DOMAIN path'[d] :
            Setup!Takes(path'[d][k].w) # None => path'[d][k].dep # None
    BY <1>2, <2>3, <2>4
  <2>7. ASSUME NEW d \in Setup!Callers, NEW v, Setup!Under(d, v)
        PROVE  Setup!Under(d, v)' \/ Setup!Resolved(v)'
    <3>1. PICK k \in DOMAIN path[d] : path[d][k].w = v
      BY <2>7 DEF Setup!Under
    <3>2. CASE d # c
      BY <2>4, <3>1, <3>2 DEF Setup!Under
    <3>3. CASE d = c /\ k \in 1 .. n
      BY <2>3, <3>1, <3>3 DEF Setup!Under
    <3>4. CASE d = c /\ k = n + 1
      <4>1. v = f.w
        BY <2>3, <3>1, <3>4
      <4>2. PICK x : x = f.w
        OBVIOUS
      <4> QED BY <2>5, <4>1, <4>2
    <3> QED BY <2>3, <2>4, <3>1, <3>2, <3>3, <3>4
  <2>8. \A k \in DOMAIN chain' : k \in DOMAIN chain /\ chain'[k] = chain[k]
    BY <1>0, <2>1, BelowAll DEF GetsTyped
  <2>9. ASSUME NEW k \in DOMAIN chain'
        PROVE  \E v : /\ v = chain'[k]
                      /\ Setup!Resolved(v)' \/ \E d \in Setup!Callers : Setup!Under(d, v)'
    <3>1. PICK v : v = chain[k]
      OBVIOUS
    <3>2. Setup!Resolved(v) \/ \E d \in Setup!Callers : Setup!Under(d, v)
      BY <1>2, <2>8, <3>1
    <3>3. Setup!Resolved(v)' \/ \E d \in Setup!Callers : Setup!Under(d, v)'
      BY <2>5, <2>7, <3>2
    <3> QED BY <2>8, <3>1, <3>3
  <2> QED BY <1>3, <2>6, <2>9
<1> QED BY <1>4, <1>5, <1>6, <1>7, Steps

LEMMA SharedStep ==
    ASSUME ApplicationAssumption, GraphInv, Wired, PathsInv, Enlisted, Running, Ranked, Shared,
           [Setup!Next]_setup
    PROVE  Shared'
<1>1. Roots'
  BY RootsStep DEF Shared
<1>2. InRoot'
  BY InRootStep
<1>3. Fine'
  <2> SUFFICES ASSUME Neat', met' = {} PROVE Unfailing' /\ Traced'
    BY DEF Fine
  <2>1. Neat /\ met = {}
    BY OwnSteps, SameKind, MetGrows
  <2> QED BY <2>1, UnfailingStep, TracedStep
<1> QED BY <1>1, <1>2, <1>3 DEF Shared

LEMMA SharedInit == ASSUME ApplicationAssumption, Setup!Init PROVE Shared
<1>1. \A m \in Modules : \A t \in Tokens : ~(own[m][t] > 0)
  BY DEF Setup!Init
<1>2. /\ boot # "failed" /\ failing = {} /\ \A m \in Modules : body[m] # "failed"
      /\ \A c \in Controllers : asked[c] # "missing"
  BY DEF Setup!Init
<1>3. PICK e : e = <<>>
  OBVIOUS
<1>4. DOMAIN e = {} /\ built = e /\ chain = e /\ \A c \in Setup!Callers : path[c] = e
  BY <1>3 DEF Setup!Init
<1>5. Unfailing
  BY <1>2 DEF Unfailing
<1>6. Traced
  BY <1>4 DEF Traced
<1>7. InRoot
  BY <1>4 DEF InRoot
<1>8. Roots
  BY <1>1 DEF Roots
<1> QED BY <1>5, <1>6, <1>7, <1>8 DEF Shared, Fine

LEMMA SharedKeeps ==
    ASSUME ApplicationAssumption, Wired, PathsInv, Coloured, Alone, Shared
    PROVE  Setup!SharesInstances
<1>1. ASSUME Alike, met = {} PROVE Setup!OneInstance
  <2> SUFFICES ASSUME NEW j \in DOMAIN built, NEW k \in DOMAIN built,
                      built[j].w.token = built[k].w.token
               PROVE  j = k
    BY DEF Setup!OneInstance
  <2>1. built[j] \in Setup!Frame /\ built[k] \in Setup!Frame
    BY ElementOfSeq, LenProperties DEF PathsInv, GetsTyped
  <2>2. PICK v \in Setup!Wrappers : v = built[j].w
    BY <2>1 DEF Setup!Frame
  <2>3. PICK w \in Setup!Wrappers : w = built[k].w
    BY <2>1 DEF Setup!Frame
  <2>4. Placed(v) /\ Placed(w)
    BY <1>1, <2>2, <2>3 DEF Shared, InRoot
  <2>5. v.token = w.token
    BY <2>2, <2>3
  <2>6. v.in = w.in /\ v.v = w.v
    BY <2>4, <2>5 DEF Placed
  <2>7. v = w
    BY <2>5, <2>6 DEF Setup!Wrappers
  <2> QED BY <1>1, <2>2, <2>3, <2>7 DEF Alone
<1>2. ASSUME met = {}, graph.dynamic = {}, Setup!GlobalsAreReady
      PROVE  Setup!OneInstance /\ \A k \in DOMAIN built : built[k].w.in = Root
  <2>1. Alike
    BY <1>2 DEF Alike, Ready
  <2> QED BY <1>1, <1>2, <2>1 DEF Shared, InRoot, Placed
<1>3. ASSUME met = {}, Setup!WellFormed, \A m \in Modules : Setup!ImportedOnce(m)
      PROVE  boot # "failed" /\ Setup!OneInstance
  <2>1. Neat
    BY <1>3 DEF Neat
  <2>2. boot # "failed"
    BY <1>3, <2>1 DEF Shared, Fine, Unfailing
  <2> QED BY <1>1, <1>3, <2>1, <2>2 DEF Alike
<1> QED BY <1>2, <1>3, ColouredKeeps DEF Setup!SharesInstances
=============================================================================
