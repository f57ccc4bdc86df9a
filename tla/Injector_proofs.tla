-------------------------- MODULE Injector_proofs ---------------------------
(***************************************************************************)
(* Injector for any providers, dependency graph and get() calls: its type  *)
(* invariant; that the resolution chain drains even when calls overlap;    *)
(* and, when every get() is awaited before the next one starts, that a     *)
(* reported cycle is one of the graph and that a singleton is built once.  *)
(***************************************************************************)
EXTENDS Injector, SequenceTheorems, FiniteSetTheorems, TLAPS

\* Instances are numbered in the order they were made.
Numbered == \A k \in Wrappers \X Contexts : inst[k] <= Len(built)

\* The first frame of a call is that of the provider it asked for, and only an
\* error or a stored instance leaves no frame.
Rooted ==
    \A g \in Gets :
        /\ stack[g] # <<>> => stack[g][1].w = Root[g]
        /\ result[g] = "running" /\ stack[g] = <<>> /\ err[g] = "none" =>
                inst[Key(Root[g], ContextOf(g))] # 0

\* A frame waits for the provider the next frame is for.
Linked(f, w) == f.pending /\ Len(f.args) < Len(deps(f.w)) /\ NextDep(f).token = w
LinkedStack(s) == \A k \in 1 .. Len(s) - 1 : Linked(s[k], s[k + 1].w)
AwaitsProvider(f) == Len(f.args) < Len(deps(f.w)) /\ NextDep(f).token \in Wrappers
Wired ==
    \A g \in Gets :
        /\ LinkedStack(stack[g])
        /\ stack[g] # <<>> /\ err[g] = "none" /\ Top(g).pending => AwaitsProvider(Top(g))

TypeInv == TypeOK /\ Numbered /\ Rooted /\ Wired

-----------------------------------------------------------------------------
LEMMA PushTop ==
    ASSUME NEW S, NEW s \in Seq(S), NEW e \in S
    PROVE  /\ Append(s, e) \in Seq(S) /\ Len(Append(s, e)) = Len(s) + 1
           /\ Append(s, e)[Len(s) + 1] = e /\ Append(s, e) # <<>>
           /\ \A k \in 1 .. Len(s) : Append(s, e)[k] = s[k]
OBVIOUS

LEMMA PopTop ==
    ASSUME NEW S, NEW s \in Seq(S), s # <<>>
    PROVE  /\ Below(s) \in Seq(S) /\ Len(Below(s)) = Len(s) - 1
           /\ \A k \in 1 .. Len(s) - 1 : Below(s)[k] = s[k]
           /\ s[Len(s)] \in S /\ Len(s) \in Nat \ {0}
<1> DEFINE n == Len(s)
<1>1. n \in Nat \ {0} /\ \A i \in 1 .. n : s[i] \in S
  OBVIOUS
<1>2. \A i \in 1 .. n - 1 : s[i] \in S
  BY <1>1
<1>3. /\ Below(s) \in Seq(S)
      /\ Len(Below(s)) = IF 1 <= n - 1 THEN (n - 1) - 1 + 1 ELSE 0
      /\ \A i \in 1 .. (n - 1) - 1 + 1 : Below(s)[i] = s[1 + i - 1]
  <2> HIDE DEF n
  <2> QED BY <1>1, <1>2, SubSeqProperties DEF Below, n
<1> HIDE DEF n
<1>4. Len(Below(s)) = n - 1 /\ \A k \in 1 .. n - 1 : Below(s)[k] = s[k]
  BY <1>1, <1>3
<1> QED BY <1>1, <1>3, <1>4 DEF n

LEMMA ElementType ==
    ASSUME NEW S, NEW s \in Seq(S), NEW i \in 1 .. Len(s)
    PROVE  s[i] \in S
OBVIOUS

\* The top of a stack replaced: the rest stays.
LEMMA SwapTop ==
    ASSUME NEW s \in Seq(Frame), s # <<>>, NEW e \in Frame
    PROVE  /\ Append(Below(s), e) \in Seq(Frame) /\ Len(Append(Below(s), e)) = Len(s)
           /\ Append(Below(s), e)[Len(s)] = e /\ Append(Below(s), e) # <<>>
           /\ \A k \in 1 .. Len(s) - 1 : Append(Below(s), e)[k] = s[k]
BY PopTop, PushTop

LEMMA PopEither ==
    ASSUME NEW S, NEW s \in Seq(S)
    PROVE  Below(s) \in Seq(S)
<1>1. CASE s = <<>>
  BY <1>1 DEF Below
<1>2. CASE s # <<>>
  BY <1>2, PopTop
<1> QED BY <1>1, <1>2

LEMMA KeyType ==
    ASSUME InjectorAssumption, NEW g \in Gets, NEW w \in Wrappers
    PROVE  Key(w, ContextOf(g)) \in Wrappers \X Contexts
BY DEF InjectorAssumption, Key, ContextOf, Contexts

\* What loadInstance() does to the types, and where it leaves the stack.
LEMMA EnterType ==
    ASSUME InjectorAssumption, TypeOK, NEW g \in Gets, NEW w \in Wrappers,
           NEW s \in Seq(Frame), Enter(g, w, s)
    PROVE  /\ chain' \in Seq(Wrappers) /\ stack' \in [Gets -> Seq(Frame)]
           /\ err' \in [Gets -> Errors \cup {"none"}] /\ report' \in [Gets -> Seq(Wrappers)]
           /\ \/ stack'[g] = s /\ Resolved(g, w)
              \/ stack'[g] = s /\ err'[g] # "none"
              \/ \E f \in Frame : stack'[g] = Append(s, f) /\ f.w = w /\ f.args = <<>> /\ ~f.pending
           /\ \A h \in Gets \ {g} : stack'[h] = stack[h] /\ err'[h] = err[h]
<1>t. /\ chain \in Seq(Wrappers) /\ stack \in [Gets -> Seq(Frame)]
      /\ err \in [Gets -> Errors \cup {"none"}] /\ report \in [Gets -> Seq(Wrappers)]
  BY DEF TypeOK
<1>1. CASE Resolved(g, w)
  BY <1>1, <1>t DEF Enter
<1>2. CASE ~Resolved(g, w) /\ InChain(w)
  <2>1. PICK k \in DOMAIN chain :
            /\ err' = [err EXCEPT ![g] = "circular"]
            /\ report' = [report EXCEPT ![g] = Append(SubSeq(chain, k, Len(chain)), w)]
            /\ stack' = [stack EXCEPT ![g] = s] /\ UNCHANGED chain
    BY <1>2 DEF Enter
  <2>2. k \in Int /\ Len(chain) \in Int /\ \A i \in k .. Len(chain) : chain[i] \in Wrappers
    BY <1>t
  <2>3. SubSeq(chain, k, Len(chain)) \in Seq(Wrappers)
    BY <2>2, SubSeqProperties
  <2>4. Append(SubSeq(chain, k, Len(chain)), w) \in Seq(Wrappers)
    BY <2>3, PushTop
  <2> QED BY <2>1, <2>4, <1>t DEF Errors
<1>3. CASE ~Resolved(g, w) /\ ~InChain(w)
  <2> DEFINE f == [w |-> w, args |-> <<>>, pending |-> FALSE]
  <2>1. f \in Frame /\ f.w = w /\ f.args = <<>> /\ ~f.pending
    BY DEF Frame
  <2>2. chain' = Append(chain, w) /\ stack' = [stack EXCEPT ![g] = Append(s, f)] /\ UNCHANGED <<err, report>>
    BY <1>3 DEF Enter
  <2> HIDE DEF f
  <2>3. Append(s, f) \in Seq(Frame) /\ Append(chain, w) \in Seq(Wrappers)
    BY <2>1, <1>t, PushTop
  <2> QED BY <2>1, <2>2, <2>3, <1>t
<1> QED BY <1>1, <1>2, <1>3

LEMMA TypeInit == InjectorAssumption /\ Init => TypeInv
<1> SUFFICES ASSUME InjectorAssumption, Init
             PROVE  TypeInv
  OBVIOUS
<1>1. program.scope \in [Wrappers -> Scopes] /\ program.deps \in [Wrappers -> Seq(Dependency)]
  BY DEF Init, InjectorAssumption
<1>2. inst \in [Wrappers \X Contexts -> Nat] /\ \A k \in Wrappers \X Contexts : inst[k] = 0
  BY DEF Init
<1>3. TypeOK
  BY <1>1, <1>2 DEF Init, TypeOK, Errors
<1>4. Numbered /\ Rooted /\ Wired
  BY <1>2 DEF Init, Numbered, Rooted, Wired, LinkedStack
<1> QED BY <1>3, <1>4 DEF TypeInv

\* The top frame replaced by one of the same provider.
LEMMA TopKept ==
    ASSUME NEW s \in Seq(Frame), s # <<>>, LinkedStack(s),
           NEW f \in Frame, f.w = s[Len(s)].w
    PROVE  /\ Append(Below(s), f) \in Seq(Frame) /\ Append(Below(s), f) # <<>>
           /\ Len(Append(Below(s), f)) \in Nat \ {0} /\ Len(Append(Below(s), f)) = Len(s)
           /\ Append(Below(s), f)[1].w = s[1].w
           /\ Append(Below(s), f)[Len(s)] = f /\ LinkedStack(Append(Below(s), f))
<1> DEFINE t == Append(Below(s), f)
<1>2. /\ t \in Seq(Frame) /\ Len(t) = Len(s) /\ t[Len(s)] = f /\ t # <<>>
      /\ \A k \in 1 .. Len(s) - 1 : t[k] = s[k]
  BY SwapTop
<1> HIDE DEF t
<1>3. Len(s) \in Nat \ {0}
  BY PopTop
<1>4. t[1].w = s[1].w
  <2>1. CASE Len(s) = 1
    BY <2>1, <1>2
  <2>2. CASE Len(s) # 1
    <3>1. \A n \in Nat \ {0} : n # 1 => 1 \in 1 .. n - 1
      OBVIOUS
    <3> QED BY <3>1, <2>2, <1>2, <1>3
  <2> QED BY <2>1, <2>2
<1>6. LinkedStack(t)
  <2> SUFFICES ASSUME NEW k \in 1 .. Len(t) - 1 PROVE Linked(t[k], t[k + 1].w)
    BY DEF LinkedStack
  <2>1. Linked(s[k], s[k + 1].w) /\ t[k] = s[k]
    BY <1>2 DEF LinkedStack
  <2>2. t[k + 1].w = s[k + 1].w
    <3>1. CASE k + 1 = Len(s)
      BY <3>1, <1>2
    <3>2. CASE k + 1 # Len(s)
      <4>1. k + 1 \in 1 .. Len(s) - 1
        BY <3>2, <1>2, <1>3
      <4> QED BY <4>1, <1>2
    <3> QED BY <3>1, <3>2
  <2> QED BY <2>1, <2>2
<1> QED BY <1>2, <1>3, <1>4, <1>6 DEF t

\* A frame pushed onto the frame that waits for it.
LEMMA TopAdded ==
    ASSUME NEW s \in Seq(Frame), LinkedStack(s), NEW e \in Frame,
           s # <<>> => Linked(s[Len(s)], e.w)
    PROVE  LinkedStack(Append(s, e))
<1> DEFINE t == Append(s, e)
<1>1. /\ Len(t) = Len(s) + 1 /\ t[Len(s) + 1] = e /\ Len(s) \in Nat
      /\ \A k \in 1 .. Len(s) : t[k] = s[k]
  BY PushTop
<1> HIDE DEF t
<1>2. ASSUME NEW k \in 1 .. Len(s) PROVE Linked(t[k], t[k + 1].w)
  <2>1. CASE k = Len(s)
    BY <2>1, <1>1, EmptySeq
  <2>2. CASE k # Len(s)
    <3>1. k \in 1 .. Len(s) - 1 /\ k + 1 \in 1 .. Len(s)
      BY <2>2, <1>1
    <3> QED BY <3>1, <1>1 DEF LinkedStack
  <2> QED BY <2>1, <2>2
<1>3. LinkedStack(t)
  BY <1>1, <1>2 DEF LinkedStack
<1> QED BY <1>3 DEF t

\* A popped stack is empty or still rooted.
LEMMA TopGone ==
    ASSUME NEW g \in Gets, stack \in [Gets -> Seq(Frame)], stack[g] # <<>>,
           stack[g][1].w = Root[g], LinkedStack(stack[g]), stack' = [stack EXCEPT ![g] = Below(@)]
    PROVE  /\ stack' \in [Gets -> Seq(Frame)]
           /\ stack'[g] # <<>> => stack'[g][1].w = Root[g]
           /\ stack'[g] = <<>> => Top(g).w = Root[g]
           /\ LinkedStack(stack'[g]) /\ Len(stack'[g]) = Len(stack[g]) - 1
           /\ stack'[g] # <<>> => Linked(Top(g)', Top(g).w)
           /\ \A h \in Gets \ {g} : stack'[h] = stack[h]
<1>1. PICK t : t = Below(stack[g])
  OBVIOUS
<1>2. /\ t \in Seq(Frame) /\ Len(t) = Len(stack[g]) - 1
      /\ \A k \in 1 .. Len(stack[g]) - 1 : t[k] = stack[g][k]
      /\ Len(stack[g]) \in Nat \ {0}
  <2>1. stack[g] \in Seq(Frame)
    OBVIOUS
  <2> QED BY <1>1, <2>1, PopTop
<1>3. stack' = [stack EXCEPT ![g] = t]
  BY <1>1
<1>l. LinkedStack(t)
  <2> SUFFICES ASSUME NEW k \in 1 .. Len(t) - 1 PROVE Linked(t[k], t[k + 1].w)
    BY DEF LinkedStack
  <2>1. k \in 1 .. Len(stack[g]) - 1 /\ k + 1 \in 1 .. Len(stack[g]) - 1
    BY <1>2
  <2> QED BY <2>1, <1>2 DEF LinkedStack
<1>4. CASE Len(stack[g]) = 1
  <2>1. t = <<>>
    BY <1>2, <1>4
  <2> QED BY <2>1, <1>2, <1>3, <1>4, <1>l DEF Top
<1>5. CASE Len(stack[g]) # 1
  <2>1. \A n \in Nat \ {0} : n # 1 => 1 \in 1 .. n - 1 /\ n - 1 # 0
    OBVIOUS
  <2>2. t # <<>> /\ t[1] = stack[g][1]
    BY <2>1, <1>2, <1>5
  <2>3. Linked(t[Len(t)], Top(g).w)
    <3>1. Len(t) \in 1 .. Len(stack[g]) - 1 /\ Len(t) + 1 = Len(stack[g])
      BY <1>2, <1>5
    <3> QED BY <3>1, <1>2 DEF LinkedStack, Top
  <2> QED BY <2>2, <2>3, <1>2, <1>3, <1>l DEF Top
<1> QED BY <1>4, <1>5

\* Only the frames of the call that moved have to be looked at.
LEMMA WiredOthers ==
    ASSUME TypeInv, NEW g \in Gets, program' = program,
           \A h \in Gets \ {g} : stack'[h] = stack[h] /\ err'[h] = err[h],
           LinkedStack(stack'[g]),
           stack'[g] # <<>> /\ err'[g] = "none" /\ Top(g)'.pending => AwaitsProvider(Top(g)')
    PROVE  Wired'
<1> SUFFICES ASSUME NEW h \in Gets
             PROVE  /\ \A k \in 1 .. Len(stack'[h]) - 1 : Linked(stack'[h][k], stack'[h][k + 1].w)
                    /\ stack'[h] # <<>> /\ err'[h] = "none" /\ stack'[h][Len(stack'[h])].pending
                            => AwaitsProvider(stack'[h][Len(stack'[h])])
  BY DEF Wired, LinkedStack, Top, Linked, AwaitsProvider, NextDep, deps
<1>3. CASE h = g
  BY <1>3 DEF LinkedStack, Top
<1>4. CASE h # g
  BY <1>4 DEF TypeInv, Wired, LinkedStack, Top
<1> QED BY <1>3, <1>4

\* Start and Resolve: loadInstance() is entered.
LEMMA TypeEnter ==
    ASSUME InjectorAssumption, TypeInv, NEW g \in Gets, Start(g) \/ Resolve(g)
    PROVE  TypeInv'
<1>t. /\ chain \in Seq(Wrappers) /\ stack \in [Gets -> Seq(Frame)]
      /\ err \in [Gets -> Errors \cup {"none"}] /\ report \in [Gets -> Seq(Wrappers)]
      /\ result \in [Gets -> Errors \cup {"idle", "running", "ok"}]
      /\ program.deps \in [Wrappers -> Seq(Dependency)] /\ Root[g] \in Wrappers
  BY DEF TypeInv, TypeOK, InjectorAssumption
<1>1. CASE Start(g)
  <2>1. Enter(g, Root[g], <<>>) /\ result' = [result EXCEPT ![g] = "running"]
        /\ UNCHANGED <<program, inst, built, got>>
    BY <1>1 DEF Start
  <2>2. PICK s \in Seq(Frame) : s = <<>>
    BY EmptySeq
  <2>3. /\ chain' \in Seq(Wrappers) /\ stack' \in [Gets -> Seq(Frame)]
        /\ err' \in [Gets -> Errors \cup {"none"}] /\ report' \in [Gets -> Seq(Wrappers)]
        /\ \/ stack'[g] = s /\ Resolved(g, Root[g])
           \/ stack'[g] = s /\ err'[g] # "none"
           \/ \E f \in Frame : stack'[g] = Append(s, f) /\ f.w = Root[g] /\ f.args = <<>> /\ ~f.pending
        /\ \A h \in Gets \ {g} : stack'[h] = stack[h] /\ err'[h] = err[h]
    <3>1. Enter(g, Root[g], s) /\ TypeOK
      BY <2>1, <2>2 DEF TypeInv
    <3> QED BY <3>1, <1>t, EnterType
  <2>4. TypeOK'
    BY <2>1, <2>3, <1>t DEF TypeInv, TypeOK
  <2>5. Numbered'
    BY <2>1 DEF TypeInv, Numbered
  <2>6. Rooted'
    <3>1. stack'[g] # <<>> => stack'[g][1].w = Root[g]
      BY <2>2, <2>3
    <3>2. stack'[g] = <<>> /\ err'[g] = "none" => inst'[Key(Root[g], ContextOf(g))'] # 0
      BY <2>1, <2>2, <2>3 DEF Resolved, Key, ContextOf
    <3>3. ASSUME NEW h \in Gets \ {g}
          PROVE  /\ stack'[h] = stack[h] /\ err'[h] = err[h] /\ result'[h] = result[h]
                 /\ inst'[Key(Root[h], ContextOf(h))'] = inst[Key(Root[h], ContextOf(h))]
      BY <2>1, <2>3, <1>t DEF Key, ContextOf
    <3>4. Rooted
      BY DEF TypeInv
    <3> QED BY <3>1, <3>2, <3>3, <3>4 DEF Rooted
  <2>7. Wired'
    <3>1. LinkedStack(s) /\ \A f \in Frame : LinkedStack(Append(s, f))
      BY <2>2, TopAdded DEF LinkedStack
    <3>2. LinkedStack(stack'[g]) /\ (stack'[g] # <<>> => ~Top(g)'.pending)
      <4>1. CASE stack'[g] = s
        BY <4>1, <2>2, <3>1
      <4>2. CASE stack'[g] # s
        <5>1. PICK f \in Frame : stack'[g] = Append(s, f) /\ ~f.pending
          BY <4>2, <2>3
        <5>2. Append(s, f)[Len(Append(s, f))] = f
          BY PushTop
        <5> QED BY <5>1, <5>2, <3>1 DEF Top
      <4> QED BY <4>1, <4>2
    <3> QED BY <2>1, <2>3, <3>2, WiredOthers
  <2> QED BY <2>4, <2>5, <2>6, <2>7 DEF TypeInv
<1>2. CASE Resolve(g)
  <2> DEFINE f == [Top(g) EXCEPT !.pending = TRUE]
             s == Append(Below(stack[g]), f)
  <2>1. stack[g] # <<>> /\ Len(Top(g).args) < Len(deps(Top(g).w))
        /\ UNCHANGED <<program, inst, built, result, got>>
    BY <1>2 DEF Resolve, Descending, Active
  <2>2. Top(g) \in Frame /\ stack[g][1].w = Root[g] /\ LinkedStack(stack[g])
    BY <2>1, <1>t, PopTop DEF Top, TypeInv, Rooted, Wired
  <2>3. f \in Frame /\ f.w = Top(g).w /\ f.args = Top(g).args /\ f.pending
    BY <2>2 DEF Frame
  <2>4. s = Append(Below(stack[g]), f)
    OBVIOUS
  <2>5. /\ NextDep(f).token = Missing => /\ err' = [err EXCEPT ![g] = "missing"]
                                         /\ stack' = [stack EXCEPT ![g] = s] /\ UNCHANGED <<chain, report>>
        /\ NextDep(f).token # Missing => Enter(g, NextDep(f).token, s)
    <3>1. OnTop(g, f) = [stack EXCEPT ![g] = s] /\ OnTop(g, f)[g] = s
      BY <1>t DEF OnTop
    <3> QED BY <3>1, <1>2 DEF Resolve
  <2> HIDE DEF s, f
  <2>6. /\ s \in Seq(Frame) /\ s # <<>> /\ Len(s) \in Nat \ {0} /\ s[1].w = Root[g]
        /\ LinkedStack(s) /\ s[Len(s)] = f
    <3>1. stack[g] \in Seq(Frame) /\ f.w = stack[g][Len(stack[g])].w
      BY <2>3, <1>t DEF Top
    <3> QED BY <3>1, <2>1, <2>2, <2>3, <2>4, TopKept
  <2>7. CASE NextDep(f).token = Missing
    <3>1. err' = [err EXCEPT ![g] = "missing"] /\ stack' = [stack EXCEPT ![g] = s] /\ UNCHANGED <<chain, report>>
      BY <2>5, <2>7
    <3>2. TypeOK'
      BY <3>1, <2>1, <2>6, <1>t DEF TypeInv, TypeOK, Errors
    <3>3. Numbered' /\ Rooted'
      BY <3>1, <2>1, <2>6, <1>t DEF TypeInv, Numbered, Rooted, Key, ContextOf
    <3>4. Wired'
      BY <3>1, <2>1, <2>6, <1>t, WiredOthers
    <3> QED BY <3>2, <3>3, <3>4 DEF TypeInv
  <2>8. CASE NextDep(f).token # Missing
    <3>1. NextDep(f).token \in Wrappers
      <4>1. Top(g).w \in Wrappers /\ Top(g).args \in Seq(Nat)
        BY <2>2 DEF Frame
      <4>2. deps(Top(g).w) \in Seq(Dependency)
        BY <4>1, <1>t DEF deps
      <4>3. Len(Top(g).args) + 1 \in 1 .. Len(deps(Top(g).w))
        BY <4>1, <4>2, <2>1
      <4>4. NextDep(f) \in Dependency
        BY <4>2, <4>3, <2>3 DEF NextDep
      <4> QED BY <4>4, <2>8 DEF Dependency
    <3>2. Linked(f, NextDep(f).token) /\ AwaitsProvider(f)
      BY <3>1, <2>1, <2>3 DEF Linked, AwaitsProvider
    <3>3. /\ chain' \in Seq(Wrappers) /\ stack' \in [Gets -> Seq(Frame)]
          /\ err' \in [Gets -> Errors \cup {"none"}] /\ report' \in [Gets -> Seq(Wrappers)]
          /\ \/ stack'[g] = s
             \/ \E e \in Frame : stack'[g] = Append(s, e) /\ e.w = NextDep(f).token /\ ~e.pending
          /\ \A h \in Gets \ {g} : stack'[h] = stack[h] /\ err'[h] = err[h]
      <4>1. Enter(g, NextDep(f).token, s) /\ s \in Seq(Frame) /\ TypeOK
        BY <2>5, <2>6, <2>8 DEF TypeInv
      <4> QED BY <3>1, <4>1, EnterType, SMTT(30)
    <3>4. stack'[g] # <<>> /\ stack'[g][1].w = Root[g]
      <4>1. 1 \in 1 .. Len(s)
        BY <2>6
      <4>2. \A e \in Frame : Append(s, e) # <<>> /\ Append(s, e)[1] = s[1]
        BY <4>1, <2>6, PushTop
      <4> QED BY <4>2, <3>3, <2>6
    <3>5. TypeOK'
      BY <3>3, <2>1 DEF TypeInv, TypeOK
    <3>6. Numbered' /\ Rooted'
      BY <3>3, <3>4, <2>1 DEF TypeInv, Numbered, Rooted, Key, ContextOf
    <3>7. Wired'
      <4>1. CASE stack'[g] = s
        BY <4>1, <3>2, <3>3, <2>1, <2>6, WiredOthers DEF Top
      <4>2. CASE stack'[g] # s
        <5>1. PICK e \in Frame : stack'[g] = Append(s, e) /\ e.w = NextDep(f).token /\ ~e.pending
          BY <4>2, <3>3
        <5>2. LinkedStack(stack'[g])
          BY <5>1, <3>2, <2>6, TopAdded
        <5>3. Top(g)' = e
          BY <5>1, <2>6, PushTop DEF Top
        <5> QED BY <5>1, <5>2, <5>3, <3>3, <2>1, WiredOthers
      <4> QED BY <4>1, <4>2
    <3> QED BY <3>5, <3>6, <3>7 DEF TypeInv
  <2> QED BY <2>7, <2>8
<1> QED BY <1>1, <1>2

LEMMA TypeStep ==
    ASSUME InjectorAssumption, TypeInv, NEW g \in Gets,
           Inject(g) \/ Catch(g) \/ Construct(g) \/ ConstructorThrows(g) \/ Settle(g)
    PROVE  TypeInv'
<1>t. /\ chain \in Seq(Wrappers) /\ stack \in [Gets -> Seq(Frame)] /\ Below(chain) \in Seq(Wrappers)
      /\ err \in [Gets -> Errors \cup {"none"}] /\ inst \in [Wrappers \X Contexts -> Nat]
      /\ built \in Seq([w : Wrappers, ctx : Contexts, args : Seq(Nat)])
      /\ Root[g] \in Wrappers /\ ContextOf(g) \in Contexts
  BY PopEither DEF TypeInv, TypeOK, InjectorAssumption, ContextOf, Contexts
<1>k. \A w \in Wrappers : Key(w, ContextOf(g)) \in Wrappers \X Contexts
  BY KeyType
<1>f. ASSUME stack[g] # <<>>
      PROVE  Top(g) \in Frame /\ Top(g).w \in Wrappers /\ Top(g).args \in Seq(Nat)
             /\ stack[g][1].w = Root[g] /\ LinkedStack(stack[g])
  <2>1. Top(g) \in Frame
    BY <1>f, <1>t, PopTop DEF Top
  <2> QED BY <2>1, <1>f DEF Frame, TypeInv, Rooted, Wired
<1>1. CASE Inject(g)
  <2> DEFINE v == inst[Key(NextDep(Top(g)).token, ContextOf(g))]
             f == [Top(g) EXCEPT !.pending = FALSE, !.args = Append(@, v)]
  <2>1. stack[g] # <<>> /\ UNCHANGED <<program, chain, inst, built, err, report, result, got>>
    BY <1>1 DEF Inject, Active
  <2>2. f \in Frame /\ f.w = Top(g).w
    <3>1. v \in Nat
      <4>1. NextDep(Top(g)).token \in Wrappers
        BY <1>1, <2>1 DEF Inject, TypeInv, Wired, AwaitsProvider
      <4> QED BY <4>1, <1>k, <1>t
    <3> HIDE DEF v
    <3> QED BY <3>1, <2>1, <1>f, PushTop DEF Frame
  <2>3. stack' = [stack EXCEPT ![g] = Append(Below(@), f)] /\ ~f.pending
    BY <1>1, <1>t, <1>f, <2>1 DEF Inject, OnTop, Frame
  <2> HIDE DEF f
  <2>4. /\ stack' \in [Gets -> Seq(Frame)] /\ stack'[g] # <<>> /\ stack'[g][1].w = Root[g]
        /\ LinkedStack(stack'[g]) /\ Top(g)' = f
        /\ \A h \in Gets \ {g} : stack'[h] = stack[h]
    <3>1. PICK t : t = Append(Below(stack[g]), f)
      OBVIOUS
    <3>2. stack' = [stack EXCEPT ![g] = t]
      BY <2>3, <3>1
    <3>3. /\ t \in Seq(Frame) /\ t # <<>> /\ t[1].w = Root[g] /\ LinkedStack(t) /\ t[Len(t)] = f
      <4>1. stack[g] \in Seq(Frame) /\ f.w = stack[g][Len(stack[g])].w
        BY <2>2, <1>t DEF Top
      <4> QED BY <4>1, <2>1, <2>2, <3>1, <1>f, TopKept
    <3>4. stack'[g] = t /\ \A h \in Gets \ {g} : stack'[h] = stack[h]
      BY <3>2, <1>t
    <3>5. stack' \in [Gets -> Seq(Frame)]
      BY <3>2, <3>3, <1>t
    <3> QED BY <3>3, <3>4, <3>5 DEF Top
  <2>5. TypeOK'
    BY <2>1, <2>4 DEF TypeInv, TypeOK
  <2>6. Numbered' /\ Rooted'
    BY <2>1, <2>4 DEF TypeInv, Numbered, Rooted, Key, ContextOf
  <2>7. Wired'
    BY <2>1, <2>3, <2>4, WiredOthers
  <2> QED BY <2>5, <2>6, <2>7 DEF TypeInv
<1>2. CASE Catch(g)
  <2>1. stack[g] # <<>> /\ err[g] # "none" /\ UNCHANGED <<program, inst, built, report, result, got>>
    BY <1>2 DEF Catch, Active
  <2>2. CASE Forgives(NextDep(Top(g)))
    <3> DEFINE f == [Top(g) EXCEPT !.pending = FALSE, !.args = Append(@, 0)]
    <3>1. f \in Frame /\ f.w = Top(g).w
      BY <2>1, <1>f, PushTop DEF Frame
    <3>2. stack' = [stack EXCEPT ![g] = Append(Below(@), f)] /\ ~f.pending
          /\ err' = [err EXCEPT ![g] = "none"] /\ UNCHANGED chain
      BY <1>2, <2>1, <2>2, <1>t, <1>f DEF Catch, OnTop, Frame
    <3> HIDE DEF f
    <3>3. /\ stack' \in [Gets -> Seq(Frame)] /\ stack'[g] # <<>> /\ stack'[g][1].w = Root[g]
          /\ LinkedStack(stack'[g]) /\ Top(g)' = f
          /\ \A h \in Gets \ {g} : stack'[h] = stack[h] /\ err'[h] = err[h]
      <4>1. PICK t : t = Append(Below(stack[g]), f)
        OBVIOUS
      <4>2. stack' = [stack EXCEPT ![g] = t]
        BY <3>2, <4>1
      <4>3. /\ t \in Seq(Frame) /\ t # <<>> /\ t[1].w = Root[g] /\ LinkedStack(t) /\ t[Len(t)] = f
        <5>1. stack[g] \in Seq(Frame) /\ f.w = stack[g][Len(stack[g])].w
          BY <3>1, <1>t DEF Top
        <5>2. f \in Frame /\ LinkedStack(stack[g]) /\ stack[g] # <<>> /\ stack[g][1].w = Root[g]
          BY <2>1, <3>1, <1>f
        <5> QED BY <5>1, <5>2, <4>1, TopKept
      <4>4. stack'[g] = t /\ \A h \in Gets \ {g} : stack'[h] = stack[h]
        BY <4>2, <1>t
      <4>5. stack' \in [Gets -> Seq(Frame)]
        BY <4>2, <4>3, <1>t
      <4>6. \A h \in Gets \ {g} : err'[h] = err[h]
        BY <3>2, <1>t
      <4> QED BY <4>3, <4>4, <4>5, <4>6 DEF Top
    <3>4. TypeOK'
      BY <2>1, <3>2, <3>3 DEF TypeInv, TypeOK
    <3>5. Numbered' /\ Rooted'
      BY <2>1, <3>2, <3>3, <1>t DEF TypeInv, Numbered, Rooted, Key, ContextOf
    <3>6. Wired'
      BY <2>1, <3>2, <3>3, WiredOthers
    <3> QED BY <3>4, <3>5, <3>6 DEF TypeInv
  <2>3. CASE ~Forgives(NextDep(Top(g)))
    <3>1. stack' = [stack EXCEPT ![g] = Below(@)] /\ chain' = Below(chain) /\ UNCHANGED err
      BY <1>2, <2>3 DEF Catch, Popped
    <3>2. /\ stack' \in [Gets -> Seq(Frame)] /\ (stack'[g] # <<>> => stack'[g][1].w = Root[g])
          /\ LinkedStack(stack'[g])
          /\ \A h \in Gets \ {g} : stack'[h] = stack[h]
      BY <2>1, <3>1, <1>t, <1>f, TopGone
    <3>3. TypeOK'
      BY <2>1, <3>1, <3>2, <1>t DEF TypeInv, TypeOK
    <3>4. Numbered' /\ Rooted'
      BY <2>1, <3>1, <3>2, <1>t DEF TypeInv, Numbered, Rooted, Key, ContextOf
    <3>5. Wired'
      BY <2>1, <3>1, <3>2, WiredOthers
    <3> QED BY <3>3, <3>4, <3>5 DEF TypeInv
  <2> QED BY <2>2, <2>3
<1>3. CASE Construct(g)
  <2> DEFINE b == [w |-> Top(g).w, ctx |-> ContextOf(g), args |-> Top(g).args]
             k == Key(Top(g).w, ContextOf(g))
  <2>1. stack[g] # <<>> /\ UNCHANGED <<program, err, report, result, got>>
        /\ stack' = [stack EXCEPT ![g] = Below(@)] /\ chain' = Below(chain)
        /\ built' = Append(built, b) /\ inst' = [inst EXCEPT ![k] = Len(built')]
    BY <1>3 DEF Construct, Ready, Active, Popped, StoredAt
  <2>2. /\ stack' \in [Gets -> Seq(Frame)] /\ (stack'[g] # <<>> => stack'[g][1].w = Root[g])
        /\ (stack'[g] = <<>> => Top(g).w = Root[g])
        /\ LinkedStack(stack'[g]) /\ (stack'[g] # <<>> => Linked(Top(g)', Top(g).w))
        /\ \A h \in Gets \ {g} : stack'[h] = stack[h]
    BY <2>1, <1>t, <1>f, TopGone
  <2>3. /\ built' \in Seq([w : Wrappers, ctx : Contexts, args : Seq(Nat)])
        /\ Len(built) \in Nat /\ Len(built') = Len(built) + 1
    <3>1. b \in [w : Wrappers, ctx : Contexts, args : Seq(Nat)]
      BY <2>1, <1>t, <1>f
    <3> HIDE DEF b
    <3> QED BY <3>1, <2>1, <1>t, PushTop
  <2>4. k \in Wrappers \X Contexts
    BY <2>1, <1>f, <1>k
  <2> HIDE DEF b
  <2>5. stack'[g] = <<>> => k = Key(Root[g], ContextOf(g))
    BY <2>2
  <2> HIDE DEF k
  <2>6. inst' \in [Wrappers \X Contexts -> Nat] /\ inst'[k] = Len(built) + 1
        /\ \A j \in Wrappers \X Contexts : j # k => inst'[j] = inst[j]
    BY <2>1, <2>3, <2>4, <1>t
  <2>7. TypeOK'
    <3>1. DOMAIN built \subseteq DOMAIN built'
      BY <2>3, <1>t
    <3> QED BY <2>1, <2>2, <2>3, <2>6, <3>1, <1>t DEF TypeInv, TypeOK
  <2>8. Numbered'
    <3>1. \A j \in Wrappers \X Contexts : inst[j] \in Nat /\ inst[j] <= Len(built)
      BY <1>t DEF TypeInv, Numbered
    <3>2. ASSUME NEW j \in Wrappers \X Contexts PROVE inst'[j] <= Len(built')
      <4>1. CASE j = k
        BY <4>1, <2>3, <2>6
      <4>2. CASE j # k
        <5>1. inst'[j] = inst[j]
          BY <4>2, <2>6
        <5>2. inst[j] \in Nat /\ inst[j] <= Len(built)
          BY <3>1
        <5> QED BY <5>1, <5>2, <2>3
      <4> QED BY <4>1, <4>2
    <3> QED BY <3>2 DEF Numbered
  <2>9. Rooted'
    <3> SUFFICES ASSUME NEW h \in Gets
                 PROVE  /\ stack'[h] # <<>> => stack'[h][1].w = Root[h]
                        /\ result[h] = "running" /\ stack'[h] = <<>> /\ err[h] = "none" =>
                                inst'[Key(Root[h], ContextOf(h))] # 0
      BY <2>1 DEF Rooted, Key, ContextOf
    <3>1. CASE h = g
      BY <3>1, <2>2, <2>3, <2>5, <2>6
    <3>2. CASE h # g
      <4>1. Key(Root[h], ContextOf(h)) \in Wrappers \X Contexts
        BY KeyType DEF InjectorAssumption
      <4>2. /\ stack[h] # <<>> => stack[h][1].w = Root[h]
            /\ result[h] = "running" /\ stack[h] = <<>> /\ err[h] = "none" =>
                    inst[Key(Root[h], ContextOf(h))] # 0
        BY DEF TypeInv, Rooted
      <4> QED BY <3>2, <4>1, <4>2, <2>2, <2>3, <2>6
    <3> QED BY <3>1, <3>2
  <2>10. Wired'
    BY <2>1, <2>2, <1>f, WiredOthers DEF Linked, AwaitsProvider
  <2> QED BY <2>7, <2>8, <2>9, <2>10 DEF TypeInv
<1>4. CASE ConstructorThrows(g)
  <2>1. stack[g] # <<>> /\ err' = [err EXCEPT ![g] = "threw"] /\ chain' = Below(chain)
        /\ stack' = [stack EXCEPT ![g] = Below(@)] /\ UNCHANGED <<program, inst, built, report, result, got>>
    BY <1>4 DEF ConstructorThrows, Ready, Active, Popped
  <2>2. /\ stack' \in [Gets -> Seq(Frame)] /\ (stack'[g] # <<>> => stack'[g][1].w = Root[g])
        /\ LinkedStack(stack'[g])
        /\ \A h \in Gets \ {g} : stack'[h] = stack[h]
    BY <2>1, <1>t, <1>f, TopGone
  <2>3. TypeOK'
    BY <2>1, <2>2, <1>t DEF TypeInv, TypeOK, Errors
  <2>4. Numbered' /\ Rooted'
    BY <2>1, <2>2, <1>t DEF TypeInv, Numbered, Rooted, Key, ContextOf
  <2>5. Wired'
    BY <2>1, <2>2, <1>t, WiredOthers
  <2> QED BY <2>3, <2>4, <2>5 DEF TypeInv
<1>5. CASE Settle(g)
  <2>1. result[g] = "running" /\ stack[g] = <<>>
        /\ UNCHANGED <<program, chain, inst, built, stack, err, report>>
    BY <1>5 DEF Settle
  <2>w. Wired'
    BY <2>1 DEF TypeInv, Wired, LinkedStack, Linked, AwaitsProvider, NextDep, deps, Top
  <2>2. CASE err[g] # "none"
    <3>1. result' = [result EXCEPT ![g] = err[g]] /\ UNCHANGED got
      BY <1>5, <2>2 DEF Settle
    <3>2. TypeOK'
      BY <2>1, <2>2, <3>1, <1>t DEF TypeInv, TypeOK, Errors
    <3>3. Numbered' /\ Rooted'
      BY <2>1, <2>2, <3>1, <1>t DEF TypeInv, TypeOK, Numbered, Rooted, Key, ContextOf, Errors
    <3> QED BY <3>2, <3>3, <2>w DEF TypeInv
  <2>3. CASE err[g] = "none"
    <3> DEFINE v == inst[Key(Root[g], ContextOf(g))]
    <3>1. result' = [result EXCEPT ![g] = "ok"] /\ got' = [got EXCEPT ![g] = v]
      BY <1>5, <2>3 DEF Settle
    <3>2. v \in Nat /\ v # 0 /\ v <= Len(built) /\ v \in DOMAIN built
      BY <2>1, <2>3, <1>t, <1>k DEF TypeInv, Numbered, Rooted
    <3> HIDE DEF v
    <3>3. TypeOK'
      BY <2>1, <3>1, <3>2 DEF TypeInv, TypeOK
    <3>4. Numbered' /\ Rooted'
      BY <2>1, <3>1 DEF TypeInv, TypeOK, Numbered, Rooted, Key, ContextOf
    <3> QED BY <3>3, <3>4, <2>w DEF TypeInv
  <2> QED BY <2>2, <2>3
<1> QED BY <1>1, <1>2, <1>3, <1>4, <1>5

-----------------------------------------------------------------------------
\* Every reachable state of the injector has its type: in particular a get()
\* that succeeded returned an instance that was made, however calls overlap.
THEOREM TypeCorrect == Spec => []TypeOK
<1>1. InjectorAssumption
  BY InjectorAssumption
<1>2. Init => TypeInv
  BY <1>1, TypeInit
<1>3. TypeInv /\ [Next]_vars => TypeInv'
  <2> SUFFICES ASSUME TypeInv, [Next]_vars PROVE TypeInv'
    OBVIOUS
  <2>1. CASE UNCHANGED vars
    BY <2>1 DEF vars, TypeInv, TypeOK, Numbered, Rooted, Key, ContextOf,
                Wired, LinkedStack, Linked, AwaitsProvider, NextDep, deps, Top
  <2>2. ASSUME NEW g \in Gets, Start(g) \/ Resolve(g) PROVE TypeInv'
    BY <2>2, <1>1, TypeEnter
  <2>3. ASSUME NEW g \in Gets, Inject(g) \/ Catch(g) \/ Construct(g) \/ ConstructorThrows(g) \/ Settle(g)
        PROVE  TypeInv'
    BY <2>3, <1>1, TypeStep
  <2> QED BY <2>1, <2>2, <2>3 DEF Next, Step
<1>4. TypeInv => TypeOK
  BY DEF TypeInv
<1> QED BY <1>2, <1>3, <1>4, PTL DEF Spec

-----------------------------------------------------------------------------
\* Calls one at a time: the chain is the stack of the call under way.
Matches(ch, s) == Len(ch) = Len(s) /\ \A k \in 1 .. Len(s) : ch[k] = s[k].w
RealCycle(c) == c # <<>> => /\ Len(c) > 1 /\ c[1] = c[Len(c)]
                            /\ \A k \in 1 .. Len(c) - 1 : Edge(c[k], c[k + 1])

OneAtATime ==
    /\ \A g, h \in Gets : result[g] = "running" /\ result[h] = "running" => g = h
    /\ \A g \in Gets : result[g] # "running" => stack[g] = <<>>
    /\ \A g \in Gets : result[g] = "running" => Matches(chain, stack[g])
    /\ (\A g \in Gets : result[g] # "running") => chain = <<>>
    /\ \A g \in Gets : RealCycle(report[g])

\* A frame that waits for a provider depends on it.
LEMMA LinkedIsEdge ==
    ASSUME TypeOK, NEW f \in Frame, NEW w, Linked(f, w)
    PROVE  Edge(f.w, w)
<1>1. f.w \in Wrappers /\ f.args \in Seq(Nat)
  BY DEF Frame
<1>2. deps(f.w) \in Seq(Dependency)
  BY <1>1 DEF TypeOK, deps
<1>3. Len(f.args) + 1 \in DOMAIN deps(f.w)
  BY <1>1, <1>2 DEF Linked
<1> QED BY <1>3 DEF Linked, NextDep, Edge

\* The cycle that loadInstance() reports is read off the chain.
LEMMA ChainCycle ==
    ASSUME TypeOK, NEW s \in Seq(Frame), Matches(chain, s), LinkedStack(s), NEW w \in Wrappers,
           s # <<>> => Linked(s[Len(s)], w), NEW k \in DOMAIN chain, chain[k] = w
    PROVE  RealCycle(Append(SubSeq(chain, k, Len(chain)), w))
<1> DEFINE c == SubSeq(chain, k, Len(chain))
           n == Len(chain)
<1>1. n \in Nat /\ k \in 1 .. n /\ n = Len(s) /\ \A i \in 1 .. n : chain[i] \in Wrappers /\ s[i] \in Frame
  BY DEF TypeOK, Matches
<1>2. /\ c \in Seq(Wrappers) /\ Len(c) = n - k + 1
      /\ \A i \in 1 .. n - k + 1 : c[i] = chain[k + i - 1]
  <2>1. \A i \in k .. n : chain[i] \in Wrappers
    BY <1>1
  <2>2. /\ c \in Seq(Wrappers) /\ Len(c) = IF k <= n THEN n - k + 1 ELSE 0
        /\ \A i \in 1 .. n - k + 1 : c[i] = chain[k + i - 1]
    <3> HIDE DEF n
    <3> QED BY <1>1, <2>1, SubSeqProperties DEF n
  <2> QED BY <2>2, <1>1
<1> DEFINE d == Append(c, w)
           m == n - k + 1
<1>3. m \in Nat \ {0} /\ Len(d) = m + 1 /\ d[m + 1] = w /\ \A i \in 1 .. m : d[i] = chain[k + i - 1]
  <2> HIDE DEF c
  <2> QED BY <1>1, <1>2, PushTop
<1> HIDE DEF c, d, n, m
<1>4. d[1] = w
  <2>1. 1 \in 1 .. m /\ k + 1 - 1 = k
    BY <1>1, <1>3
  <2> QED BY <1>3, <2>1
<1>5. ASSUME NEW i \in 1 .. m PROVE Edge(d[i], d[i + 1])
  <2> DEFINE j == k + i - 1
  <2>1. j \in 1 .. n /\ d[i] = s[j].w /\ s[j] \in Frame
    <3>1. j \in 1 .. n
      BY <1>1 DEF m
    <3>2. d[i] = chain[j]
      BY <1>3
    <3>3. chain[j] = s[j].w
      BY <3>1, <1>1 DEF Matches
    <3> QED BY <3>1, <3>2, <3>3, <1>1
  <2>2. CASE i = m
    <3>1. j = n /\ s # <<>> /\ d[i + 1] = w
      BY <2>2, <1>1, <1>3 DEF m
    <3> QED BY <3>1, <2>1, <1>1, LinkedIsEdge
  <2>3. CASE i # m
    <3>1. i + 1 \in 1 .. m /\ j \in 1 .. n - 1 /\ j + 1 = k + (i + 1) - 1 /\ j + 1 \in 1 .. n
      BY <2>3, <1>1, <1>3 DEF m
    <3>2. d[i + 1] = s[j + 1].w
      BY <3>1, <1>1, <1>3 DEF Matches
    <3>3. Linked(s[j], s[j + 1].w)
      BY <3>1, <1>1 DEF LinkedStack
    <3> QED BY <3>2, <3>3, <2>1, LinkedIsEdge
  <2> QED BY <2>2, <2>3
<1>6. RealCycle(d)
  BY <1>3, <1>4, <1>5 DEF RealCycle
<1> QED BY <1>6 DEF d, c, n

\* loadInstance() keeps the chain and the stack alike.
LEMMA EnterMatches ==
    ASSUME TypeOK, NEW g \in Gets, NEW w \in Wrappers, NEW s \in Seq(Frame), Enter(g, w, s),
           Matches(chain, s), LinkedStack(s), s # <<>> => Linked(s[Len(s)], w),
           \A h \in Gets : RealCycle(report[h])
    PROVE  /\ Matches(chain', stack'[g]) /\ \A h \in Gets \ {g} : stack'[h] = stack[h]
           /\ \A h \in Gets : RealCycle(report'[h])
<1>t. /\ chain \in Seq(Wrappers) /\ stack \in [Gets -> Seq(Frame)] /\ report \in [Gets -> Seq(Wrappers)]
  BY DEF TypeOK
<1>1. CASE Resolved(g, w)
  BY <1>1, <1>t DEF Enter
<1>2. CASE ~Resolved(g, w) /\ InChain(w)
  <2>1. PICK k \in DOMAIN chain :
            /\ chain[k] = w
            /\ report' = [report EXCEPT ![g] = Append(SubSeq(chain, k, Len(chain)), w)]
            /\ stack' = [stack EXCEPT ![g] = s] /\ UNCHANGED chain
    BY <1>2 DEF Enter
  <2>2. RealCycle(Append(SubSeq(chain, k, Len(chain)), w))
    BY <2>1, ChainCycle
  <2> QED BY <2>1, <2>2, <1>t
<1>3. CASE ~Resolved(g, w) /\ ~InChain(w)
  <2> DEFINE f == [w |-> w, args |-> <<>>, pending |-> FALSE]
  <2>1. f \in Frame /\ f.w = w
    BY DEF Frame
  <2>2. chain' = Append(chain, w) /\ stack' = [stack EXCEPT ![g] = Append(s, f)] /\ UNCHANGED report
    BY <1>3 DEF Enter
  <2> HIDE DEF f
  <2>3. Matches(Append(chain, w), Append(s, f))
    <3>1. /\ Len(Append(chain, w)) = Len(chain) + 1 /\ Append(chain, w)[Len(chain) + 1] = w
          /\ \A k \in 1 .. Len(chain) : Append(chain, w)[k] = chain[k]
      BY <1>t, PushTop
    <3>2. /\ Len(Append(s, f)) = Len(s) + 1 /\ Append(s, f)[Len(s) + 1] = f
          /\ \A k \in 1 .. Len(s) : Append(s, f)[k] = s[k]
      BY <2>1, PushTop
    <3>3. Len(s) \in Nat /\ Len(chain) = Len(s) /\ \A k \in 1 .. Len(s) : chain[k] = s[k].w
      BY DEF Matches
    <3>4. \A k \in 1 .. Len(s) + 1 : k \in 1 .. Len(s) \/ k = Len(s) + 1
      BY <3>3
    <3> QED BY <2>1, <3>1, <3>2, <3>3, <3>4 DEF Matches
  <2> QED BY <2>2, <2>3, <1>t
<1> QED BY <1>1, <1>2, <1>3

\* Both lose their last entry.
LEMMA PopMatches ==
    ASSUME TypeOK, NEW s \in Seq(Frame), s # <<>>, Matches(chain, s)
    PROVE  Matches(Below(chain), Below(s))
<1>1. chain \in Seq(Wrappers) /\ Len(chain) = Len(s) /\ Len(s) \in Nat \ {0} /\ chain # <<>>
  BY PopTop DEF TypeOK, Matches
<1>2. /\ Len(Below(s)) = Len(s) - 1 /\ \A k \in 1 .. Len(s) - 1 : Below(s)[k] = s[k]
      /\ Len(Below(chain)) = Len(s) - 1 /\ \A k \in 1 .. Len(s) - 1 : Below(chain)[k] = chain[k]
  BY <1>1, PopTop
<1>3. \A k \in 1 .. Len(s) - 1 : chain[k] = s[k].w
  BY <1>1 DEF Matches
<1> QED BY <1>1, <1>2, <1>3 DEF Matches

\* A frame replaced by one of the same provider leaves them alike.
LEMMA SwapMatches ==
    ASSUME TypeOK, NEW s \in Seq(Frame), s # <<>>, Matches(chain, s),
           NEW f \in Frame, f.w = s[Len(s)].w
    PROVE  Matches(chain, Append(Below(s), f))
<1>1. /\ Len(Append(Below(s), f)) = Len(s) /\ Append(Below(s), f)[Len(s)] = f
      /\ \A k \in 1 .. Len(s) - 1 : Append(Below(s), f)[k] = s[k] /\ Len(s) \in Nat \ {0}
  BY SwapTop
<1>2. \A k \in 1 .. Len(s) : k \in 1 .. Len(s) - 1 \/ k = Len(s)
  BY PopTop
<1> QED BY <1>1, <1>2 DEF Matches

\* The parameter a frame comes to next names a provider, or one nobody registered.
LEMMA NextDepType ==
    ASSUME TypeOK, NEW f \in Frame, Len(f.args) < Len(deps(f.w)), NextDep(f).token # Missing
    PROVE  NextDep(f).token \in Wrappers
<1>1. f.w \in Wrappers /\ f.args \in Seq(Nat)
  BY DEF Frame
<1>2. deps(f.w) \in Seq(Dependency)
  BY <1>1 DEF TypeOK, deps
<1>3. NextDep(f) \in Dependency
  <2>1. Len(f.args) + 1 \in 1 .. Len(deps(f.w))
    BY <1>1, <1>2
  <2> QED BY <1>2, <2>1 DEF NextDep
<1> QED BY <1>3 DEF Dependency

\* What is left to show of a step of call g while no other call is under way.
LEMMA AloneStep ==
    ASSUME OneAtATime, NEW g \in Gets, program' = program,
           \A h \in Gets \ {g} : result[h] # "running" /\ result'[h] = result[h] /\ stack'[h] = stack[h],
           result'[g] = "running" => Matches(chain', stack'[g]),
           result'[g] # "running" => stack'[g] = <<>> /\ chain' = <<>>,
           \A h \in Gets : RealCycle(report'[h])
    PROVE  OneAtATime'
BY DEF OneAtATime, Matches, RealCycle, Edge, deps

LEMMA OneAtATimeStep ==
    ASSUME InjectorAssumption, program.sequential, TypeInv, OneAtATime, NEW g \in Gets, Start(g) \/ Step(g)
    PROVE  OneAtATime'
<1>t. /\ TypeOK /\ chain \in Seq(Wrappers) /\ stack \in [Gets -> Seq(Frame)]
      /\ result \in [Gets -> Errors \cup {"idle", "running", "ok"}]
      /\ Root[g] \in Wrappers /\ stack[g] \in Seq(Frame) /\ LinkedStack(stack[g])
      /\ program.deps \in [Wrappers -> Seq(Dependency)]
      /\ \A h \in Gets : RealCycle(report[h])
  BY DEF TypeInv, TypeOK, InjectorAssumption, OneAtATime, Wired
<1>o. ASSUME result[g] = "running"
      PROVE  (\A h \in Gets \ {g} : result[h] # "running") /\ Matches(chain, stack[g])
  BY <1>o DEF OneAtATime
<1>f. ASSUME stack[g] # <<>> PROVE Top(g) \in Frame /\ Top(g) = stack[g][Len(stack[g])]
  BY <1>f, <1>t, PopTop DEF Top
<1>1. CASE Start(g)
  <2>1. Enter(g, Root[g], <<>>) /\ result' = [result EXCEPT ![g] = "running"] /\ UNCHANGED program
        /\ \A h \in Gets : result[h] # "running"
    BY <1>1 DEF Start
  <2>2. PICK s \in Seq(Frame) : s = <<>>
    BY EmptySeq
  <2>3. Matches(chain, s) /\ LinkedStack(s)
    BY <2>1, <2>2 DEF OneAtATime, Matches, LinkedStack
  <2>4. /\ Matches(chain', stack'[g]) /\ \A h \in Gets \ {g} : stack'[h] = stack[h]
        /\ \A h \in Gets : RealCycle(report'[h])
    <3>1. Enter(g, Root[g], s)
      BY <2>1, <2>2
    <3> QED BY <3>1, <2>2, <2>3, <1>t, EnterMatches
  <2> QED BY <2>1, <2>4, <1>t, AloneStep
<1>2. CASE Resolve(g)
  <2> DEFINE f == [Top(g) EXCEPT !.pending = TRUE]
             s == Append(Below(stack[g]), f)
  <2>1. stack[g] # <<>> /\ result[g] = "running" /\ Len(Top(g).args) < Len(deps(Top(g).w))
        /\ UNCHANGED <<program, result>>
    BY <1>2 DEF Resolve, Descending, Active
  <2>2. Top(g) \in Frame
    BY <2>1, <1>f
  <2>3. f \in Frame /\ f.w = Top(g).w /\ f.args = Top(g).args /\ f.pending
    BY <2>2 DEF Frame
  <2>4. /\ NextDep(f).token = Missing => stack' = [stack EXCEPT ![g] = s] /\ UNCHANGED <<chain, report>>
        /\ NextDep(f).token # Missing => Enter(g, NextDep(f).token, s)
    <3>1. OnTop(g, f) = [stack EXCEPT ![g] = s] /\ OnTop(g, f)[g] = s
      BY <1>t DEF OnTop
    <3> QED BY <3>1, <1>2 DEF Resolve
  <2>5. s = Append(Below(stack[g]), f)
    OBVIOUS
  <2> HIDE DEF s, f
  <2>6. f.w = stack[g][Len(stack[g])].w
    BY <2>1, <2>3, <1>f
  <2>7. /\ s \in Seq(Frame) /\ LinkedStack(s) /\ s[Len(s)] = f
        /\ Matches(chain, s)
    BY <2>1, <2>3, <2>5, <2>6, <1>t, <1>o, TopKept, SwapMatches
  <2>8. CASE NextDep(f).token = Missing
    BY <2>1, <2>4, <2>7, <2>8, <1>t, <1>o, AloneStep
  <2>9. CASE NextDep(f).token # Missing
    <3>1. NextDep(f).token \in Wrappers
      BY <2>1, <2>2, <2>3, <2>9, <1>t, NextDepType
    <3>2. Linked(s[Len(s)], NextDep(f).token)
      BY <2>1, <2>3, <2>7 DEF Linked
    <3>3. /\ Matches(chain', stack'[g]) /\ \A h \in Gets \ {g} : stack'[h] = stack[h]
          /\ \A h \in Gets : RealCycle(report'[h])
      BY <3>1, <3>2, <2>4, <2>7, <2>9, <1>t, EnterMatches
    <3> QED BY <3>3, <2>1, <1>o, AloneStep
  <2> QED BY <2>8, <2>9
<1>3. CASE Inject(g) \/ (Catch(g) /\ Forgives(NextDep(Top(g))))
  <2>1. stack[g] # <<>> /\ result[g] = "running" /\ UNCHANGED <<program, chain, report, result>>
    BY <1>3 DEF Inject, Catch, Active
  <2>2. PICK v : stack' = OnTop(g, [Top(g) EXCEPT !.pending = FALSE, !.args = Append(@, v)])
                 /\ v \in Nat
    <3>1. CASE Inject(g)
      <4>1. NextDep(Top(g)).token \in Wrappers
        BY <3>1, <2>1 DEF Inject, TypeInv, Wired, AwaitsProvider
      <4>2. inst[Key(NextDep(Top(g)).token, ContextOf(g))] \in Nat
        BY <4>1, KeyType DEF TypeInv, TypeOK
      <4> QED BY <3>1, <4>2 DEF Inject
    <3>2. CASE Catch(g) /\ Forgives(NextDep(Top(g)))
      BY <3>2 DEF Catch
    <3> QED BY <3>1, <3>2, <1>3
  <2> DEFINE f == [Top(g) EXCEPT !.pending = FALSE, !.args = Append(@, v)]
  <2>3. f \in Frame /\ f.w = Top(g).w
    BY <2>1, <2>2, <1>f, PushTop DEF Frame
  <2>4. stack' = [stack EXCEPT ![g] = Append(Below(@), f)]
    BY <2>2 DEF OnTop
  <2> HIDE DEF f
  <2>5. f.w = stack[g][Len(stack[g])].w
    BY <2>1, <2>3, <1>f
  <2>6. Matches(chain, Append(Below(stack[g]), f))
    BY <2>1, <2>3, <2>5, <1>t, <1>o, SwapMatches
  <2> QED BY <2>1, <2>4, <2>6, <1>t, <1>o, AloneStep
<1>4. CASE Construct(g) \/ ConstructorThrows(g) \/ (Catch(g) /\ ~Forgives(NextDep(Top(g))))
  <2>1. /\ stack[g] # <<>> /\ result[g] = "running" /\ UNCHANGED <<program, report, result>>
        /\ stack' = [stack EXCEPT ![g] = Below(@)] /\ chain' = Below(chain)
    BY <1>4 DEF Construct, ConstructorThrows, Catch, Ready, Active, Popped
  <2>2. Matches(Below(chain), Below(stack[g]))
    BY <2>1, <1>t, <1>o, PopMatches
  <2> QED BY <2>1, <2>2, <1>t, <1>o, AloneStep
<1>5. CASE Settle(g)
  <2>1. result[g] = "running" /\ stack[g] = <<>> /\ UNCHANGED <<program, chain, stack, report>>
    BY <1>5 DEF Settle
  <2>2. chain = <<>>
    BY <2>1, <1>o, <1>t, EmptySeq DEF Matches
  <2>3. Matches(chain, stack[g])
    BY <2>1, <1>o
  <2>4. \A h \in Gets \ {g} : result'[h] = result[h]
    BY <1>5, <1>t DEF Settle
  <2> QED BY <2>1, <2>2, <2>3, <2>4, <1>t, <1>o, AloneStep
<1> QED BY <1>1, <1>2, <1>3, <1>4, <1>5 DEF Step

\* While calls do not overlap, the cycle a circular-dependency error names is a
\* cycle of the dependency graph.
THEOREM CyclesAreReal == Spec => []ReportsRealCycle
<1> DEFINE Inv == TypeInv /\ (program.sequential => OneAtATime)
<1>1. InjectorAssumption
  BY InjectorAssumption
<1>2. Init => Inv
  <2>1. Init => TypeInv
    BY <1>1, TypeInit
  <2>2. Init => OneAtATime
    BY DEF Init, OneAtATime, RealCycle
  <2> QED BY <2>1, <2>2
<1>3. Inv /\ [Next]_vars => Inv'
  <2> SUFFICES ASSUME Inv, [Next]_vars PROVE Inv'
    OBVIOUS
  <2>1. TypeInv'
    <3>1. CASE UNCHANGED vars
      BY <3>1 DEF vars, TypeInv, TypeOK, Numbered, Rooted, Key, ContextOf,
                  Wired, LinkedStack, Linked, AwaitsProvider, NextDep, deps, Top
    <3>2. CASE Next
      BY <3>2, <1>1, TypeEnter, TypeStep DEF Next, Step
    <3> QED BY <3>1, <3>2
  <2>2. program.sequential' = program.sequential
    BY DEF vars, Next, Start, Step, Resolve, Inject, Catch, Construct, ConstructorThrows, Settle
  <2>3. ASSUME program.sequential PROVE OneAtATime'
    <3>1. CASE UNCHANGED vars
      BY <3>1, <2>3 DEF vars, OneAtATime, Matches, RealCycle, Edge, deps
    <3>2. CASE Next
      BY <3>2, <1>1, <2>3, OneAtATimeStep DEF Next
    <3> QED BY <3>1, <3>2
  <2> QED BY <2>1, <2>2, <2>3
<1>4. Inv => ReportsRealCycle
  BY DEF OneAtATime, RealCycle, ReportsRealCycle
<1> HIDE DEF Inv
<1> QED BY <1>2, <1>3, <1>4, PTL DEF Spec

-----------------------------------------------------------------------------
\* Calls that overlap: nobody's entries are told apart in the chain, but there are
\* as many as there are frames under way.
FramesUnder(st) == {p \in Gets \X Nat : p[2] \in 1 .. Len(st[p[1]])}

Counted ==
    /\ IsFiniteSet(FramesUnder(stack)) /\ Cardinality(FramesUnder(stack)) = Len(chain)
    /\ \A g \in Gets : result[g] # "running" => stack[g] = <<>>

\* Stacks that are as long as before.
LEMMA CountSame ==
    ASSUME Counted, chain' = chain, \A h \in Gets : Len(stack'[h]) = Len(stack[h]),
           \A h \in Gets : result'[h] # "running" => stack'[h] = <<>>
    PROVE  Counted'
<1>1. FramesUnder(stack') = FramesUnder(stack)
  BY DEF FramesUnder
<1> QED BY <1>1 DEF Counted

\* One more frame of call g, and one more entry.
LEMMA CountPush ==
    ASSUME Counted, TypeOK, NEW g \in Gets, NEW w \in Wrappers, chain' = Append(chain, w),
           Len(stack'[g]) = Len(stack[g]) + 1, \A h \in Gets \ {g} : Len(stack'[h]) = Len(stack[h]),
           \A h \in Gets : result'[h] # "running" => stack'[h] = <<>>
    PROVE  Counted'
<1> DEFINE x == <<g, Len(stack[g]) + 1>>
<1>1. chain \in Seq(Wrappers) /\ \A h \in Gets : stack[h] \in Seq(Frame) /\ Len(stack[h]) \in Nat
  BY DEF TypeOK
<1>2. FramesUnder(stack') = FramesUnder(stack) \cup {x} /\ x \notin FramesUnder(stack)
  <2>1. ASSUME NEW p \in Gets \X Nat
        PROVE  p[2] \in 1 .. Len(stack'[p[1]]) <=> p[2] \in 1 .. Len(stack[p[1]]) \/ p = x
    <3>1. CASE p[1] = g
      BY <3>1, <1>1
    <3>2. CASE p[1] # g
      BY <3>2, <1>1
    <3> QED BY <3>1, <3>2
  <2>2. x \in Gets \X Nat /\ x[2] \notin 1 .. Len(stack[x[1]])
    BY <1>1
  <2> QED BY <2>1, <2>2 DEF FramesUnder
<1>3. Len(chain') = Len(chain) + 1
  BY <1>1, PushTop
<1> HIDE DEF x
<1>4. IsFiniteSet(FramesUnder(stack) \cup {x})
      /\ Cardinality(FramesUnder(stack) \cup {x}) = Cardinality(FramesUnder(stack)) + 1
  BY <1>2, FS_AddElement DEF Counted
<1> QED BY <1>2, <1>3, <1>4 DEF Counted

\* One frame of call g less, and one entry less.
LEMMA CountPop ==
    ASSUME Counted, TypeOK, NEW g \in Gets, stack[g] # <<>>, chain' = Below(chain),
           Len(stack'[g]) = Len(stack[g]) - 1, \A h \in Gets \ {g} : Len(stack'[h]) = Len(stack[h]),
           \A h \in Gets : result'[h] # "running" => stack'[h] = <<>>
    PROVE  Counted'
<1> DEFINE x == <<g, Len(stack[g])>>
<1>1. chain \in Seq(Wrappers) /\ \A h \in Gets : stack[h] \in Seq(Frame) /\ Len(stack[h]) \in Nat
  BY DEF TypeOK
<1>2. Len(stack[g]) \in Nat \ {0}
  BY <1>1, PopTop
<1>3. FramesUnder(stack') = FramesUnder(stack) \ {x} /\ x \in FramesUnder(stack)
  <2>1. ASSUME NEW p \in Gets \X Nat
        PROVE  p[2] \in 1 .. Len(stack'[p[1]]) <=> p[2] \in 1 .. Len(stack[p[1]]) /\ p # x
    <3>1. CASE p[1] = g
      BY <3>1, <1>1, <1>2
    <3>2. CASE p[1] # g
      BY <3>2, <1>1
    <3> QED BY <3>1, <3>2
  <2>2. x \in Gets \X Nat /\ x[2] \in 1 .. Len(stack[x[1]])
    BY <1>2
  <2> QED BY <2>1, <2>2 DEF FramesUnder
<1> HIDE DEF x
<1>4. IsFiniteSet(FramesUnder(stack) \ {x})
      /\ Cardinality(FramesUnder(stack) \ {x}) = Cardinality(FramesUnder(stack)) - 1
  BY <1>3, FS_RemoveElement DEF Counted
<1>5. chain # <<>>
  <2>1. FramesUnder(stack) # {}
    BY <1>3
  <2>2. Cardinality(FramesUnder(stack)) # 0
    BY <2>1, FS_EmptySet DEF Counted
  <2> QED BY <2>2, EmptySeq DEF Counted
<1>6. Len(chain') = Len(chain) - 1
  BY <1>1, <1>5, PopTop
<1> QED BY <1>3, <1>4, <1>6 DEF Counted

\* Whatever replaces the top, the stack is as long as before.
LEMMA SwapLength ==
    ASSUME NEW S, NEW s \in Seq(S), s # <<>>, NEW e
    PROVE  Len(Append(Below(s), e)) = Len(s)
<1>1. Below(s) \in Seq(S) /\ Len(Below(s)) = Len(s) - 1 /\ Len(s) \in Nat \ {0}
  BY PopTop
<1>2. Below(s) \in Seq(S \cup {e}) /\ e \in S \cup {e}
  BY <1>1
<1>3. Len(Append(Below(s), e)) = Len(Below(s)) + 1
  BY <1>2, PushTop
<1> QED BY <1>1, <1>3

\* loadInstance() adds a frame and an entry, or neither.
LEMMA CountEnter ==
    ASSUME Counted, TypeOK, NEW g \in Gets, NEW w \in Wrappers, NEW s \in Seq(Frame),
           Enter(g, w, s), Len(s) = Len(stack[g]),
           \A h \in Gets \ {g} : result'[h] = result[h], result'[g] = "running"
    PROVE  Counted'
<1>t. /\ chain \in Seq(Wrappers) /\ stack \in [Gets -> Seq(Frame)]
      /\ \A h \in Gets : result[h] # "running" => stack[h] = <<>>
  BY DEF TypeOK, Counted
<1>1. CASE stack' = [stack EXCEPT ![g] = s] /\ UNCHANGED chain
  BY <1>1, <1>t, CountSame
<1>2. CASE ~Resolved(g, w) /\ ~InChain(w)
  <2> DEFINE f == [w |-> w, args |-> <<>>, pending |-> FALSE]
  <2>1. f \in Frame
    BY DEF Frame
  <2>2. chain' = Append(chain, w) /\ stack' = [stack EXCEPT ![g] = Append(s, f)]
    BY <1>2 DEF Enter
  <2> HIDE DEF f
  <2>3. Len(stack'[g]) = Len(stack[g]) + 1
    BY <2>1, <2>2, <1>t, PushTop
  <2> QED BY <2>2, <2>3, <1>t, CountPush
<1> QED BY <1>1, <1>2 DEF Enter

\* Every step of every call keeps the count.
LEMMA CountStep ==
    ASSUME InjectorAssumption, TypeInv, Counted, NEW g \in Gets, Start(g) \/ Step(g)
    PROVE  Counted'
<1>t. /\ TypeOK /\ chain \in Seq(Wrappers) /\ stack \in [Gets -> Seq(Frame)]
      /\ result \in [Gets -> Errors \cup {"idle", "running", "ok"}]
      /\ Root[g] \in Wrappers /\ program.deps \in [Wrappers -> Seq(Dependency)]
      /\ \A h \in Gets : result[h] # "running" => stack[h] = <<>>
  BY DEF TypeInv, TypeOK, InjectorAssumption, Counted
<1>1. CASE Start(g)
  <2>1. Enter(g, Root[g], <<>>) /\ result' = [result EXCEPT ![g] = "running"] /\ stack[g] = <<>>
    BY <1>1, <1>t DEF Start
  <2>2. PICK s \in Seq(Frame) : s = <<>>
    BY EmptySeq
  <2>3. Enter(g, Root[g], s) /\ Len(s) = Len(stack[g])
    BY <2>1, <2>2
  <2> QED BY <2>1, <2>3, <1>t, CountEnter
<1>2. CASE Resolve(g)
  <2> DEFINE f == [Top(g) EXCEPT !.pending = TRUE]
             s == Append(Below(stack[g]), f)
  <2>1. stack[g] # <<>> /\ result[g] = "running" /\ Len(Top(g).args) < Len(deps(Top(g).w))
        /\ UNCHANGED result
    BY <1>2 DEF Resolve, Descending, Active
  <2>2. Top(g) \in Frame
    BY <2>1, <1>t, PopTop DEF Top
  <2>3. f \in Frame /\ f.w = Top(g).w /\ f.args = Top(g).args
    BY <2>2 DEF Frame
  <2>4. /\ NextDep(f).token = Missing => stack' = [stack EXCEPT ![g] = s] /\ UNCHANGED chain
        /\ NextDep(f).token # Missing => Enter(g, NextDep(f).token, s)
    <3>1. OnTop(g, f) = [stack EXCEPT ![g] = s] /\ OnTop(g, f)[g] = s
      BY <1>t DEF OnTop
    <3> QED BY <3>1, <1>2 DEF Resolve
  <2>5. s \in Seq(Frame) /\ Len(s) = Len(stack[g])
    <3> HIDE DEF f
    <3> QED BY <2>1, <2>3, <1>t, SwapTop
  <2> HIDE DEF s, f
  <2>6. CASE NextDep(f).token = Missing
    BY <2>1, <2>4, <2>5, <2>6, <1>t, CountSame
  <2>7. CASE NextDep(f).token # Missing
    <3>1. NextDep(f).token \in Wrappers
      BY <2>1, <2>2, <2>3, <2>7, <1>t, NextDepType
    <3> QED BY <3>1, <2>1, <2>4, <2>5, <2>7, <1>t, CountEnter
  <2> QED BY <2>6, <2>7
<1>3. CASE Inject(g) \/ (Catch(g) /\ Forgives(NextDep(Top(g))))
  <2>1. stack[g] # <<>> /\ UNCHANGED <<chain, result>>
    BY <1>3 DEF Inject, Catch, Active
  <2>2. PICK f : stack' = OnTop(g, f)
    BY <1>3 DEF Inject, Catch
  <2>3. stack' = [stack EXCEPT ![g] = Append(Below(@), f)]
    BY <2>2 DEF OnTop
  <2>4. Len(Append(Below(stack[g]), f)) = Len(stack[g])
    BY <2>1, <1>t, SwapLength
  <2> QED BY <2>1, <2>3, <2>4, <1>3, <1>t, CountSame DEF Inject, Catch, Active
<1>4. CASE Construct(g) \/ ConstructorThrows(g) \/ (Catch(g) /\ ~Forgives(NextDep(Top(g))))
  <2>1. /\ stack[g] # <<>> /\ result[g] = "running" /\ UNCHANGED result
        /\ stack' = [stack EXCEPT ![g] = Below(@)] /\ chain' = Below(chain)
    BY <1>4 DEF Construct, ConstructorThrows, Catch, Ready, Active, Popped
  <2>2. Len(Below(stack[g])) = Len(stack[g]) - 1
    BY <2>1, <1>t, PopTop
  <2> QED BY <2>1, <2>2, <1>t, CountPop
<1>5. CASE Settle(g)
  <2>1. UNCHANGED <<chain, stack>> /\ stack[g] = <<>> /\ \A h \in Gets \ {g} : result'[h] = result[h]
    BY <1>5, <1>t DEF Settle
  <2> QED BY <2>1, <1>t, CountSame
<1> QED BY <1>1, <1>2, <1>3, <1>4, <1>5 DEF Step

\* Also when calls overlap and pop each other's entries, and whatever fails, the
\* resolution chain is empty once no get() is under way.
THEOREM ChainNeverStuck == Spec => []ChainDrains
<1> DEFINE Inv == TypeInv /\ Counted
<1>1. InjectorAssumption
  BY InjectorAssumption
<1>2. Init => Inv
  <2> SUFFICES ASSUME Init PROVE Counted
    BY <1>1, TypeInit
  <2>1. FramesUnder(stack) = {} /\ Len(chain) = 0
    BY DEF Init, FramesUnder
  <2> QED BY <2>1, FS_EmptySet DEF Counted, Init
<1>3. Inv /\ [Next]_vars => Inv'
  <2> SUFFICES ASSUME Inv, [Next]_vars PROVE Inv'
    OBVIOUS
  <2>1. CASE UNCHANGED vars
    <3>1. TypeInv'
      BY <2>1 DEF vars, TypeInv, TypeOK, Numbered, Rooted, Key, ContextOf,
                  Wired, LinkedStack, Linked, AwaitsProvider, NextDep, deps, Top
    <3>2. Counted'
      BY <2>1 DEF vars, Counted, FramesUnder
    <3> QED BY <3>1, <3>2
  <2>2. ASSUME NEW g \in Gets, Start(g) \/ Step(g) PROVE Inv'
    <3>1. TypeInv'
      BY <2>2, <1>1, TypeEnter, TypeStep DEF Step
    <3>2. Counted'
      BY <2>2, <1>1, CountStep
    <3> QED BY <3>1, <3>2
  <2> QED BY <2>1, <2>2 DEF Next
<1>4. Inv => ChainDrains
  <2> SUFFICES ASSUME Inv, \A g \in Gets : stack[g] = <<>> PROVE chain = <<>>
    BY DEF ChainDrains
  <2>1. FramesUnder(stack) = {}
    BY DEF FramesUnder
  <2>2. Len(chain) = 0 /\ chain \in Seq(Wrappers)
    BY <2>1, FS_EmptySet DEF Counted, TypeInv, TypeOK
  <2> QED BY <2>2, EmptySeq
<1> HIDE DEF Inv
<1> QED BY <1>2, <1>3, <1>4, PTL DEF Spec

-----------------------------------------------------------------------------
\* While calls do not overlap: nothing is on its way twice, a singleton on its way
\* has no instance yet, and one that was made is the one kept.
Singleton(w) == program.scope[w] = "singleton"

Once ==
    /\ \A i, j \in DOMAIN chain : chain[i] = chain[j] => i = j
    /\ \A k \in DOMAIN chain : Singleton(chain[k]) => inst[<<chain[k], Static>>] = 0
    /\ \A a \in DOMAIN built : Singleton(built[a].w) => inst[<<built[a].w, Static>>] = a

\* loadInstance() only adds what is neither resolved nor on its way.
LEMMA OnceEnter ==
    ASSUME TypeOK, Once, NEW g \in Gets, NEW w \in Wrappers, NEW s, Enter(g, w, s),
           UNCHANGED <<program, inst, built>>
    PROVE  Once'
<1>1. CASE UNCHANGED chain
  BY <1>1 DEF Once, Singleton
<1>2. CASE ~Resolved(g, w) /\ ~InChain(w) /\ chain' = Append(chain, w)
  <2>1. chain \in Seq(Wrappers)
    BY DEF TypeOK
  <2>2. /\ Len(chain') = Len(chain) + 1 /\ chain'[Len(chain) + 1] = w
        /\ \A k \in 1 .. Len(chain) : chain'[k] = chain[k]
        /\ DOMAIN chain = 1 .. Len(chain) /\ DOMAIN chain' = 1 .. Len(chain) + 1 /\ Len(chain) \in Nat
    BY <1>2, <2>1, PushTop
  <2>3. Singleton(w) => inst[<<w, Static>>] = 0
    BY <1>2 DEF Resolved, Key, Singleton
  <2>4. \A k \in 1 .. Len(chain) : chain[k] # w
    BY <1>2, <2>2 DEF InChain
  <2>5. \A k \in DOMAIN chain' : k \in 1 .. Len(chain) \/ k = Len(chain) + 1
    BY <2>2
  <2>6. \A i, j \in DOMAIN chain' : chain'[i] = chain'[j] => i = j
    BY <2>2, <2>4, <2>5 DEF Once
  <2>7. \A k \in DOMAIN chain' : Singleton(chain'[k]) => inst[<<chain'[k], Static>>] = 0
    BY <2>2, <2>3, <2>5 DEF Once
  <2> QED BY <2>6, <2>7 DEF Once, Singleton
<1> QED BY <1>1, <1>2 DEF Enter

\* The instance made last is the only one of its provider, if that is a singleton.
LEMMA OnceConstruct ==
    ASSUME InjectorAssumption, TypeInv, OneAtATime, Once, NEW g \in Gets, Construct(g)
    PROVE  Once'
<1> DEFINE w == Top(g).w
           n == Len(chain)
<1>1. /\ stack[g] # <<>> /\ result[g] = "running" /\ UNCHANGED program
      /\ built' = Append(built, [w |-> w, ctx |-> ContextOf(g), args |-> Top(g).args])
      /\ inst' = [inst EXCEPT ![StoredAt(g)] = Len(built')] /\ chain' = Below(chain)
  BY DEF Construct, Ready, Active, Popped
<1>2. /\ chain \in Seq(Wrappers) /\ stack[g] \in Seq(Frame) /\ inst \in [Wrappers \X Contexts -> Nat]
      /\ built \in Seq([w : Wrappers, ctx : Contexts, args : Seq(Nat)]) /\ Len(built) \in Nat
      /\ Static \in Contexts /\ DOMAIN chain = 1 .. n /\ DOMAIN built = 1 .. Len(built)
  BY DEF TypeInv, TypeOK, Contexts
<1>3. Top(g) \in Frame /\ w \in Wrappers /\ Top(g).args \in Seq(Nat)
  <2>1. Top(g) \in Frame
    BY <1>1, <1>2, PopTop DEF Top
  <2> QED BY <2>1 DEF Frame
<1>4. n \in Nat \ {0} /\ chain[n] = w
  <2>1. Matches(chain, stack[g])
    BY <1>1 DEF OneAtATime
  <2>2. Len(stack[g]) \in Nat \ {0}
    BY <1>1, <1>2, PopTop
  <2> QED BY <2>1, <2>2 DEF Matches, Top
<1>5. /\ Len(chain') = n - 1 /\ \A k \in 1 .. n - 1 : chain'[k] = chain[k]
      /\ DOMAIN chain' = 1 .. n - 1
  <2>1. chain # <<>>
    BY <1>2, <1>4
  <2>2. /\ Below(chain) \in Seq(Wrappers) /\ Len(Below(chain)) = Len(chain) - 1
        /\ \A k \in 1 .. Len(chain) - 1 : Below(chain)[k] = chain[k]
    BY <1>2, <2>1, PopTop
  <2>3. chain' = Below(chain) /\ n = Len(chain)
    BY <1>1
  <2> HIDE DEF n
  <2>4. DOMAIN Below(chain) = 1 .. Len(Below(chain))
    BY <2>2
  <2> QED BY <2>2, <2>3, <2>4
<1>6. /\ DOMAIN built' = 1 .. Len(built) + 1 /\ Len(built') = Len(built) + 1
      /\ \A a \in 1 .. Len(built) : built'[a] = built[a]
      /\ built'[Len(built) + 1].w = w
  <2> DEFINE b == [w |-> w, ctx |-> ContextOf(g), args |-> Top(g).args]
  <2>1. b \in [w : Wrappers, ctx : Contexts, args : Seq(Nat)] /\ b.w = w
    BY <1>3 DEF InjectorAssumption, ContextOf, Contexts
  <2>2. built' = Append(built, b)
    BY <1>1
  <2> HIDE DEF b
  <2> QED BY <1>2, <2>1, <2>2, PushTop
<1>7. StoredAt(g) = Key(w, ContextOf(g)) /\ StoredAt(g) \in Wrappers \X Contexts
  BY <1>3, KeyType DEF StoredAt
<1> HIDE DEF w, n
<1>8. \A v \in Wrappers : v # w => inst'[<<v, Static>>] = inst[<<v, Static>>]
  BY <1>1, <1>2, <1>7 DEF Key
<1>9. Singleton(w) => inst'[<<w, Static>>] = Len(built) + 1 /\ inst[<<w, Static>>] = 0
  <2>1. Singleton(w) => inst[<<w, Static>>] = 0
    <3>1. n \in DOMAIN chain
      BY <1>2, <1>4
    <3> QED BY <3>1, <1>4 DEF Once
  <2> QED BY <2>1, <1>1, <1>2, <1>3, <1>6, <1>7 DEF Key, Singleton
<1>10. \A i, j \in DOMAIN chain' : chain'[i] = chain'[j] => i = j
  <2>1. \A k \in DOMAIN chain' : k \in DOMAIN chain /\ chain'[k] = chain[k]
    BY <1>2, <1>4, <1>5
  <2> QED BY <2>1 DEF Once
<1>11. ASSUME NEW k \in DOMAIN chain', Singleton(chain'[k])
       PROVE  inst'[<<chain'[k], Static>>] = 0
  <2>1. k \in 1 .. n /\ k # n /\ chain'[k] = chain[k] /\ n \in 1 .. n
    BY <1>4, <1>5
  <2>2. chain[k] # w /\ chain[k] \in Wrappers
    <3>1. k \in DOMAIN chain /\ n \in DOMAIN chain /\ chain[n] = w
      BY <2>1, <1>2, <1>4
    <3>2. chain[k] # chain[n]
      BY <2>1, <3>1, <1>2 DEF Once
    <3> QED BY <3>1, <3>2, <1>2
  <2> QED BY <1>11, <2>1, <2>2, <1>2, <1>8 DEF Once
<1>12. ASSUME NEW a \in DOMAIN built', Singleton(built'[a].w)
       PROVE  inst'[<<built'[a].w, Static>>] = a
  <2>1. CASE a = Len(built) + 1
    BY <2>1, <1>6, <1>9, <1>12
  <2>2. CASE a # Len(built) + 1
    <3>1. a \in 1 .. Len(built) /\ built'[a] = built[a] /\ built[a].w \in Wrappers
      <4>1. a \in 1 .. Len(built)
        BY <2>2, <1>2, <1>6
      <4>2. built[a] \in [w : Wrappers, ctx : Contexts, args : Seq(Nat)]
        BY <4>1, <1>2, ElementType
      <4> QED BY <4>1, <4>2, <1>6
    <3>2. inst[<<built[a].w, Static>>] = a /\ a # 0
      BY <3>1, <1>2, <1>12 DEF Once
    <3>3. built[a].w # w
      BY <3>1, <3>2, <1>9, <1>12
    <3> QED BY <3>1, <3>2, <3>3, <1>8
  <2> QED BY <2>1, <2>2
<1> QED BY <1>1, <1>10, <1>11, <1>12 DEF Once, Singleton

\* What a failure takes off the chain was never made.
LEMMA OncePop ==
    ASSUME TypeOK, Once, UNCHANGED <<program, inst, built>>, chain' = Below(chain)
    PROVE  Once'
<1>1. chain \in Seq(Wrappers)
  BY DEF TypeOK
<1>2. CASE chain = <<>>
  <2>1. chain' = <<>>
    BY <1>2 DEF Below
  <2> QED BY <1>2, <2>1 DEF Once, Singleton
<1>3. CASE chain # <<>>
  <2>1. /\ DOMAIN chain' = 1 .. Len(chain) - 1 /\ DOMAIN chain = 1 .. Len(chain)
        /\ \A k \in 1 .. Len(chain) - 1 : chain'[k] = chain[k] /\ k \in 1 .. Len(chain)
    BY <1>1, <1>3, PopTop
  <2>2. \A k \in DOMAIN chain' : k \in DOMAIN chain /\ chain'[k] = chain[k]
    BY <2>1
  <2> QED BY <2>2 DEF Once, Singleton
<1> QED BY <1>2, <1>3

\* Every step of the call under way.
LEMMA OnceStep ==
    ASSUME InjectorAssumption, TypeInv, OneAtATime, Once, NEW g \in Gets, Start(g) \/ Step(g)
    PROVE  Once'
<1>t. TypeOK /\ Root[g] \in Wrappers /\ stack \in [Gets -> Seq(Frame)]
  BY DEF TypeInv, TypeOK, InjectorAssumption
<1>1. CASE Start(g)
  BY <1>1, <1>t, OnceEnter DEF Start
<1>2. CASE Resolve(g)
  <2>1. UNCHANGED <<program, inst, built>>
    BY <1>2 DEF Resolve
  <2>2. PICK f : /\ f = [Top(g) EXCEPT !.pending = TRUE]
                 /\ NextDep(f).token = Missing => UNCHANGED chain
                 /\ NextDep(f).token # Missing => Enter(g, NextDep(f).token, OnTop(g, f)[g])
    BY <1>2 DEF Resolve
  <2>3. CASE NextDep(f).token = Missing
    BY <2>1, <2>2, <2>3 DEF Once, Singleton
  <2>4. CASE NextDep(f).token # Missing
    <3>1. Top(g) \in Frame /\ Len(Top(g).args) < Len(deps(Top(g).w))
      BY <1>2, <1>t, PopTop DEF Resolve, Descending, Active, Top
    <3>2. f \in Frame /\ f.w = Top(g).w /\ f.args = Top(g).args
      BY <2>2, <3>1 DEF Frame
    <3>3. NextDep(f).token \in Wrappers
      BY <2>4, <3>1, <3>2, <1>t, NextDepType
    <3> QED BY <2>1, <2>2, <2>4, <3>3, <1>t, OnceEnter
  <2> QED BY <2>3, <2>4
<1>3. CASE Inject(g) \/ Settle(g) \/ (Catch(g) /\ Forgives(NextDep(Top(g))))
  <2>1. UNCHANGED <<program, chain, inst, built>>
    BY <1>3 DEF Inject, Settle, Catch
  <2> QED BY <2>1 DEF Once, Singleton
<1>4. CASE ConstructorThrows(g) \/ (Catch(g) /\ ~Forgives(NextDep(Top(g))))
  <2>1. UNCHANGED <<program, inst, built>> /\ chain' = Below(chain)
    BY <1>4 DEF ConstructorThrows, Catch, Popped
  <2> QED BY <2>1, <1>t, OncePop
<1>5. CASE Construct(g)
  BY <1>5, OnceConstruct
<1> QED BY <1>1, <1>2, <1>3, <1>4, <1>5 DEF Step

\* A singleton is built once, for any graph of providers and any calls that do
\* not overlap, whichever of them fail.
THEOREM SingletonsAreSingle == Spec => []SingletonOnce
<1> DEFINE Inv == TypeInv /\ (program.sequential => OneAtATime /\ Once)
<1>1. InjectorAssumption
  BY InjectorAssumption
<1>2. Init => Inv
  <2> SUFFICES ASSUME Init PROVE OneAtATime /\ Once
    BY <1>1, TypeInit
  <2> QED BY DEF Init, OneAtATime, RealCycle, Once
<1>3. Inv /\ [Next]_vars => Inv'
  <2> SUFFICES ASSUME Inv, [Next]_vars PROVE Inv'
    OBVIOUS
  <2>1. CASE UNCHANGED vars
    <3>1. TypeInv'
      BY <2>1 DEF vars, TypeInv, TypeOK, Numbered, Rooted, Key, ContextOf,
                  Wired, LinkedStack, Linked, AwaitsProvider, NextDep, deps, Top
    <3>2. program.sequential => OneAtATime' /\ Once'
      BY <2>1 DEF vars, OneAtATime, Matches, RealCycle, Edge, deps, Once, Singleton
    <3> QED BY <2>1, <3>1, <3>2 DEF vars
  <2>2. ASSUME NEW g \in Gets, Start(g) \/ Step(g) PROVE Inv'
    <3>1. TypeInv'
      BY <2>2, <1>1, TypeEnter, TypeStep DEF Step
    <3>2. program' = program
      BY <2>2 DEF Start, Step, Resolve, Inject, Catch, Construct, ConstructorThrows, Settle
    <3>3. ASSUME program.sequential PROVE OneAtATime'
      BY <2>2, <3>3, <1>1, OneAtATimeStep
    <3>4. ASSUME program.sequential PROVE Once'
      BY <2>2, <3>4, <1>1, OnceStep
    <3> QED BY <3>1, <3>2, <3>3, <3>4
  <2> QED BY <2>1, <2>2 DEF Next
<1>4. Inv => SingletonOnce
  BY DEF Once, Singleton, SingletonOnce
<1> HIDE DEF Inv
<1> QED BY <1>2, <1>3, <1>4, PTL DEF Spec

=============================================================================
