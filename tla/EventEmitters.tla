--------------------------- MODULE EventEmitters ----------------------------
(***************************************************************************)
(* The two event emitters of the repository, for the registrations that    *)
(* concern one event: the EventEmitter of the core, and EventEmitterService *)
(* of the event-emitter package, which also has wildcard patterns.         *)
(* Handlers run on the stack of the emit() that calls them and may         *)
(* register, remove and emit in turn.                                      *)
(***************************************************************************)
EXTENDS Naturals, SequencesExt

CONSTANTS
    Emitters,       \* "core", "package"
    Handlers,
    Event,          \* the event that is emitted, a sequence of segments
    Patterns,       \* what handlers are registered for: the event or wildcard patterns
    MaxRegs,        \* bound: registrations ever made
    Emissions       \* bound: emissions ever made

-----------------------------------------------------------------------------
(***************************************************************************)
(* Names of events and patterns are sequences of segments.  A pattern with *)
(* a wildcard segment is compiled to a regular expression over the whole   *)
(* name, delimiters included.                                              *)
(***************************************************************************)
\* isWildcardPattern(): any other pattern is the name of an event.
IsWildcardPattern(pattern) == \E i \in DOMAIN pattern : pattern[i] \in {"*", "**"}

\* compilePattern(): "*" is text without a delimiter, so one segment; "**" is any
\* text between the delimiters around it, so some segments; others stand for themselves.
CompilePattern(pattern, name) ==
    LET n == Len(name)
        \* where the text may be when the segments from the j-th on are left
        fits[j \in 1 .. Len(pattern) + 1] ==
            IF j > Len(pattern) THEN {n + 1}
            ELSE {i \in 1 .. n : IF pattern[j] = "**" THEN \E k \in i .. n : k + 1 \in fits[j + 1]
                                 ELSE pattern[j] \in {"*", name[i]} /\ i + 1 \in fits[j + 1]}
    IN  1 \in fits[1]

\* What the documentation shows: the name can be cut into pieces, one per segment of
\* the pattern, each of one segment unless the pattern says "**".
Covers(pattern, name) ==
    \E cut \in [0 .. Len(pattern) -> 0 .. Len(name)] :
        /\ cut[0] = 0 /\ cut[Len(pattern)] = Len(name)
        /\ \A j \in DOMAIN pattern :
              /\ cut[j - 1] < cut[j]
              /\ pattern[j] # "**" => cut[j] = cut[j - 1] + 1 /\ pattern[j] \in {"*", name[cut[j]]}

-----------------------------------------------------------------------------
PatternsAssumption ==
    /\ Patterns \subseteq Seq(STRING)
    /\ Event \in Patterns /\ \A p \in Patterns : IsWildcardPattern(p) <=> p # Event

VARIABLES
    emitter,        \* the class
    exact,          \* the array the map has for the event, empty if it has none
    wilds,          \* wildcards: the registrations of wildcard patterns
    seq,            \* registrations made
    emission,       \* each emission: what it calls and waits for
    stack,          \* those whose handlers are being called, the innermost last
    inForce,        \* history: the registrations neither removed nor used up
    overlapped      \* history: the core's array was replaced under an emission

emitterVars == <<emitter, exact, wilds, seq, emission, stack, inForce, overlapped>>

Idle == [phase |-> "idle", regs |-> <<>>, next |-> 1, async |-> FALSE, pending |-> {},
         once |-> {}, array |-> <<>>, shares |-> FALSE]

Init ==
    /\ emitter \in Emitters
    /\ exact = <<>> /\ wilds = <<>> /\ seq = 0
    /\ emission = [e \in Emissions |-> Idle] /\ stack = <<>>
    /\ inForce = <<>> /\ overlapped = FALSE

Outstanding(e) == emission[e].phase \in {"calling", "waiting"}

\* Code runs outside every emission, or in a handler the innermost one has called.
Running == IF stack = <<>> THEN TRUE ELSE emission[Last(stack)].next > 1

IdsOf(regs) == {regs[i].id : i \in DOMAIN regs}

\* filter(): the registrations of an array that are in S, in the order they are there.
Filtered(regs, S) ==
    LET kept[i \in 0 .. Len(regs)] ==
            IF i = 0 THEN <<>>
            ELSE IF regs[i] \in S THEN Append(kept[i - 1], regs[i]) ELSE kept[i - 1]
    IN  kept[Len(regs)]

Drop(regs, ids) == Filtered(regs, {reg \in Range(regs) : reg.id \notin ids})

\* registerHandler() and addRegistration(): at the end of the array that is there,
\* which an emission of the core may be working on.
On(h, once, pattern) ==
    /\ Running /\ seq < MaxRegs
    /\ emitter = "core" => pattern = Event
    /\ LET reg == [id |-> seq + 1, handler |-> h, once |-> once, pattern |-> pattern]
           wild == IsWildcardPattern(pattern) IN
       /\ inForce' = Append(inForce, reg)
       /\ wilds' = IF wild THEN Append(wilds, reg) ELSE wilds
       /\ exact' = IF wild THEN exact ELSE Append(exact, reg)
    /\ seq' = seq + 1
    /\ UNCHANGED <<emitter, emission, stack, overlapped>>

\* The core puts another array into its map, or none: emissions that map over the
\* old one keep it as it is.  ended is what becomes of the emissions themselves.
Replaced(regs, ended) ==
    /\ exact' = regs
    /\ emission' = [e \in Emissions |->
          IF ended[e].shares THEN [ended[e] EXCEPT !.array = exact, !.shares = FALSE]
          ELSE ended[e]]
    /\ overlapped' = (overlapped \/ \E e \in Emissions : ended[e].phase \in {"calling", "waiting"})

OfHandler(regs, h) == Filtered(regs, {reg \in Range(regs) : reg.handler = h})
OfPatterns(regs, P) == Filtered(regs, {reg \in Range(regs) : reg.pattern \in P})

FirstOf(regs, h, pattern) ==
    LET own == OfHandler(OfPatterns(regs, {pattern}), h)
    IN IF own = <<>> THEN {} ELSE {own[1].id}

\* containerFor(): a pattern is removed from where it was put.
Edited(wild, regs) ==
    IF wild THEN wilds' = regs /\ UNCHANGED exact ELSE exact' = regs /\ UNCHANGED wilds

Container(wild) == IF wild THEN wilds ELSE exact

\* off(event, handler): the core removes every registration of the handler, the
\* package the first for that very pattern.
Off(h, pattern) ==
    /\ Running
    /\ \/ /\ emitter = "core" /\ pattern = Event /\ exact # <<>>
          /\ Replaced(Drop(exact, IdsOf(OfHandler(exact, h))), emission)
          /\ inForce' = Drop(inForce, IdsOf(OfHandler(inForce, h)))
          /\ UNCHANGED wilds
       \/ /\ emitter = "package"
          /\ LET regs == Container(IsWildcardPattern(pattern))
             IN  Edited(IsWildcardPattern(pattern), Drop(regs, FirstOf(regs, h, pattern)))
          /\ inForce' = Drop(inForce, FirstOf(inForce, h, pattern))
          /\ UNCHANGED <<emission, overlapped>>
    /\ UNCHANGED <<emitter, seq, stack>>

\* off(event), removeAllListeners(event): all the registrations of a pattern.
OffAll(pattern) ==
    /\ Running
    /\ \/ /\ emitter = "core" /\ pattern = Event /\ exact # <<>>
          /\ Replaced(<<>>, emission)
          /\ UNCHANGED wilds
       \/ /\ emitter = "package"
          /\ LET regs == Container(IsWildcardPattern(pattern))
             IN  Edited(IsWildcardPattern(pattern), Drop(regs, IdsOf(OfPatterns(regs, {pattern}))))
          /\ UNCHANGED <<emission, overlapped>>
    /\ inForce' = OfPatterns(inForce, Patterns \ {pattern})
    /\ UNCHANGED <<emitter, seq, stack>>

-----------------------------------------------------------------------------
Fitting(pattern) == CompilePattern(pattern, Event)

\* mergeBySeq(): each registration once, in the order registered.
Ascending(regs) == \A i, j \in DOMAIN regs : i < j => regs[i].id < regs[j].id
Sorted(regs) == CHOOSE s \in [DOMAIN regs -> Range(regs)] : Range(s) = Range(regs) /\ Ascending(s)

\* getMatching(): the exact and the wildcard registrations, merged by seq.
Matching == Sorted(exact \o Filtered(wilds, {reg \in Range(wilds) : Fitting(reg.pattern)}))

\* emit() and emitAsync() start.  The core maps over the array itself.
Emit(e, async) ==
    /\ Running /\ emission[e].phase = "idle"
    /\ async \/ emitter = "package"
    /\ Matching # <<>>
    /\ emission' = [emission EXCEPT ![e] = [Idle EXCEPT
          !.phase = "calling", !.regs = Matching, !.async = async, !.shares = (emitter = "core")]]
    /\ stack' = Append(stack, e)
    /\ UNCHANGED <<emitter, exact, wilds, seq, inForce, overlapped>>

\* The next handler is called; what it throws is caught.
Call ==
    /\ stack # <<>>
    /\ LET e == Last(stack)
           m == emission[e]
       IN /\ m.next \in DOMAIN m.regs
          /\ emission' = [emission EXCEPT
                ![e].next = @ + 1,
                ![e].pending = IF m.async THEN @ \union {m.next} ELSE @,
                ![e].once = IF ~m.async /\ m.regs[m.next].once
                            THEN @ \union {m.regs[m.next].id} ELSE @]
    /\ UNCHANGED <<emitter, exact, wilds, seq, stack, inForce, overlapped>>

\* Faulty variant: the package writes back the registrations it found at the start.
Ends_Faulty(e, ids) ==
    LET ended == [emission EXCEPT ![e] = [Idle EXCEPT !.phase = "done"]]
        found(wild) == OfPatterns(Drop(emission[e].regs, ids),
                                  {p \in Patterns : IsWildcardPattern(p) = wild})
    IN
    /\ IF emitter = "package" /\ ids # {}
       THEN exact' = found(FALSE) /\ wilds' = found(TRUE)
       ELSE UNCHANGED <<exact, wilds>>
    /\ emission' = ended
    /\ inForce' = Drop(inForce, ids)
    /\ UNCHANGED overlapped

\* The end of an emission takes its one-time registrations out.  The core writes
\* back the array it mapped over, without them; the package edits its tables.
Ends(e, ids) ==
    LET ended == [emission EXCEPT ![e] = [Idle EXCEPT !.phase = "done"]]
        array == IF emission[e].shares THEN exact ELSE emission[e].array
    IN
    /\ \/ /\ ids = {}
          /\ emission' = ended
          /\ UNCHANGED <<exact, wilds, overlapped>>
       \/ /\ ids # {} /\ emitter = "core"
          /\ Replaced(Drop(array, ids), ended)
          /\ UNCHANGED wilds
       \/ /\ ids # {} /\ emitter = "package"
          /\ exact' = Drop(exact, ids) /\ wilds' = Drop(wilds, ids)
          /\ emission' = ended
          /\ UNCHANGED overlapped
    /\ inForce' = Drop(inForce, ids)

\* The loop of emit() is through; emitAsync() and the core's return a promise.
Returns ==
    /\ stack # <<>>
    /\ LET e == Last(stack) IN
       /\ emission[e].next = Len(emission[e].regs) + 1
       /\ \/ /\ emission[e].async
             /\ emission' = [emission EXCEPT ![e].phase = "waiting"]
             /\ UNCHANGED <<exact, wilds, inForce, overlapped>>
          \/ /\ ~emission[e].async
             /\ Ends(e, emission[e].once)
    /\ stack' = Front(stack)
    /\ UNCHANGED <<emitter, seq>>

\* A handler's promise settles; a one-time handler that fails stays.
Settles(e, i, fails) ==
    /\ stack = <<>> /\ emission[e].phase = "waiting" /\ i \in emission[e].pending
    /\ LET reg == emission[e].regs[i]
           once == emission[e].once \union {id \in {reg.id} : reg.once /\ ~fails}
       IN \/ /\ emission[e].pending # {i}
             /\ emission' = [emission EXCEPT ![e].pending = @ \ {i}, ![e].once = once]
             /\ UNCHANGED <<exact, wilds, inForce, overlapped>>
          \/ /\ emission[e].pending = {i}
             /\ Ends(e, once)
    /\ UNCHANGED <<emitter, seq, stack>>

\* What is not up to the callers: emit() goes on, handlers settle.
EmitterProgress ==
    \/ Call \/ Returns
    \/ \E e \in Emissions, fails \in BOOLEAN :
          \E i \in emission[e].pending : Settles(e, i, fails)

Next ==
    \/ \E h \in Handlers, once \in BOOLEAN, p \in Patterns : On(h, once, p)
    \/ \E h \in Handlers, p \in Patterns : Off(h, p)
    \/ \E p \in Patterns : OffAll(p)
    \/ \E e \in Emissions, async \in BOOLEAN : Emit(e, async)
    \/ EmitterProgress

Spec == Init /\ [][Next]_emitterVars

-----------------------------------------------------------------------------
\* Whatever handlers and overlapping emissions do to the tables, the next emission
\* calls exactly the handlers that were registered for it, or for a pattern that
\* covers it, and are neither removed nor used up, in the order they were registered
\* in.  The core promises it only while its array is not replaced under an emission:
\* it writes back the one it read before it awaited the handlers (69, 95-100).
EmitsInForce ==
    emitter = "package" \/ ~overlapped =>
        Matching = Filtered(inForce, {reg \in Range(inForce) : Covers(reg.pattern, Event)})
=============================================================================
