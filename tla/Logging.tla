------------------------------ MODULE Logging -------------------------------
(***************************************************************************)
(* core/src/logger: Logger, through which everything is logged, either by  *)
(* its static methods or by an instance with a context; the logger it      *)
(* hands messages to, which the application may replace; the ConsoleLogger *)
(* it makes otherwise; and the buffer that holds messages back.            *)
(***************************************************************************)
EXTENDS Naturals, Sequences, FiniteSets

CONSTANTS
    Writers,        \* "Logger" itself and instances of it
    Contexts,       \* Contexts[w]: the context w was made with, or ""
    Entries,        \* [level, args]: what is logged, the message first
    Replacements,   \* what overrideLogger() is given
    MaxBuffer,      \* MAX_LOG_BUFFER_SIZE
    MaxLogged,      \* bound: messages logged
    MaxReplaced     \* bound: calls of overrideLogger()

LoggingAssumption ==
    /\ MaxBuffer \in Nat \ {0}
    /\ \A e \in Entries : e.args \in Seq({"text", "error", "data"}) \ {<<>>}

Priority == [verbose |-> 0, debug |-> 1, log |-> 2, warn |-> 3, error |-> 4, fatal |-> 5]

VARIABLES
    entry,          \* what is logged in this behaviour
    attached,       \* isBufferAttached
    logBuffer,      \* number and writer of each message held back
    current,        \* staticInstanceRef
    logLevels,      \* Logger.logLevels, {} if they were never set
    consoles,       \* the ConsoleLogger each writer has made for itself
    sent,           \* history: messages logged
    handed,         \* history: numbers of the messages handed on
    forgotten,      \* history: those that were discarded
    shown,          \* history: what was printed last, for whom, and if by a new console
    replaced,       \* calls of overrideLogger()
    broken          \* history: the application's logger threw during a flush()

logVars == <<entry, attached, logBuffer, current, logLevels, consoles, sent, handed, forgotten,
             shown, replaced, broken>>

-----------------------------------------------------------------------------
\* isLogLevelEnabled(): the lowest level of the list is the threshold.
Enabled(level, levels) ==
    levels = {} \/ \E l \in levels : Priority[l] <= Priority[level]

\* What an instance passes on: its context comes last, for error() after an
\* argument in the place of the stack.
Passed(w, e) ==
    IF Contexts[w] = "" THEN e.args
    ELSE (IF e.level = "error" /\ Len(e.args) = 1 THEN Append(e.args, "undefined") ELSE e.args)
         \o <<"context">>

Front(s) == SubSeq(s, 1, Len(s) - 1)
IsText(a) == a \in {"text", "context"}

\* getContextAndMessagesToPrint(): a text in the last place is the context.
Split(args) ==
    IF Len(args) > 1 /\ IsText(args[Len(args)])
    THEN [lines |-> Front(args), context |-> args[Len(args)]]
    ELSE [lines |-> args, context |-> "own"]

\* getContextAndStackAndMessagesToPrint(): a text or an Error in the last place that
\* is left is the stack; a single Error is its own.
SplitStack(args) ==
    LET s == Split(args)
        last == s.lines[Len(s.lines)]
    IN  IF Len(s.lines) = 1
        THEN [lines |-> s.lines, context |-> s.context, stack |-> last = "error"]
        ELSE IF IsText(last) \/ last = "error"
        THEN [lines |-> Front(s.lines), context |-> s.context, stack |-> TRUE]
        ELSE [lines |-> s.lines, context |-> s.context, stack |-> FALSE]

\* log(), warn(), debug() and verbose() of a ConsoleLogger; error() and fatal().
Printed(w, e) ==
    IF e.level \in {"error", "fatal"} THEN SplitStack(Passed(w, e))
    ELSE [lines |-> Split(Passed(w, e)).lines, context |-> Split(Passed(w, e)).context,
          stack |-> FALSE]

-----------------------------------------------------------------------------
Init ==
    /\ entry \in Entries
    /\ attached = FALSE /\ logBuffer = <<>>
    /\ current = [kind |-> "default", levels |-> {}]
    /\ logLevels = {}
    /\ consoles = [w \in Writers |-> [made |-> FALSE, levels |-> {}]]
    /\ sent = 0 /\ handed = <<>> /\ forgotten = {} /\ shown = {}
    /\ replaced = 0 /\ broken = FALSE

\* localInstance: an instance has a console of its own while the default, or a plain
\* Logger, is in place; it is made on first use, with the levels of that moment.
OwnConsole(w) == \/ w # "Logger" /\ current.kind \in {"default", "plain"}
                 \/ w = "Logger" /\ current.kind = "plain"
Consoles(W) == [w \in Writers |->
    IF w \in W /\ OwnConsole(w) /\ ~consoles[w].made
    THEN [made |-> TRUE, levels |-> logLevels] ELSE consoles[w]]

LevelsOf(w) == IF OwnConsole(w) THEN Consoles({w})[w].levels ELSE current.levels
Prints(w) == /\ current.kind \in {"default", "console"} \/ OwnConsole(w)
             /\ Enabled(entry.level, LevelsOf(w))

\* The messages of `records` reach the logger in place.
HandOn(records) ==
    LET W == {records[i].by : i \in DOMAIN records}
    IN  /\ handed' = handed \o [i \in DOMAIN records |-> records[i].id]
        /\ consoles' = Consoles(W)
        /\ shown' = {[by |-> w, new |-> OwnConsole(w) /\ ~consoles[w].made,
                     levels |-> logLevels, print |-> Printed(w, entry)] :
                       w \in {v \in W : Prints(v)}}

\* runOrBuffer()
Full == Len(logBuffer) >= MaxBuffer
Buffered(r) == Append(IF Full THEN Tail(logBuffer) ELSE logBuffer, r)

Log(w) ==
    /\ sent < MaxLogged
    /\ sent' = sent + 1
    /\ LET r == [id |-> sent', by |-> w] IN
       \/ /\ attached
          /\ logBuffer' = Buffered(r)
          /\ forgotten' = IF Full THEN forgotten \cup {logBuffer[1].id} ELSE forgotten
          /\ UNCHANGED <<consoles, handed, shown>>
       \/ /\ ~attached
          /\ HandOn(<<r>>)
          /\ UNCHANGED <<logBuffer, forgotten>>
    /\ UNCHANGED <<entry, attached, current, logLevels, replaced, broken>>

AttachBuffer ==
    /\ ~attached /\ attached' = TRUE
    /\ UNCHANGED <<entry, logBuffer, current, logLevels, consoles, sent, handed, forgotten, shown,
                   replaced, broken>>

DetachBuffer ==
    /\ attached \/ logBuffer # <<>>
    /\ attached' = FALSE /\ logBuffer' = <<>>
    /\ forgotten' = forgotten \cup {logBuffer[i].id : i \in DOMAIN logBuffer}
    /\ UNCHANGED <<entry, current, logLevels, consoles, sent, handed, shown, replaced, broken>>

Flush ==
    /\ attached \/ logBuffer # <<>>
    /\ attached' = FALSE
    /\ HandOn(logBuffer) /\ logBuffer' = <<>>
    /\ UNCHANGED <<entry, current, logLevels, sent, forgotten, replaced, broken>>

\* The application's logger throws on the k-th message: the buffer stays as it is.
FlushThrows(k) ==
    /\ current.kind = "custom" /\ k \in DOMAIN logBuffer /\ ~broken
    /\ attached' = FALSE /\ broken' = TRUE
    /\ HandOn(SubSeq(logBuffer, 1, k))
    /\ UNCHANGED <<entry, logBuffer, current, logLevels, sent, forgotten, replaced>>

\* overrideLogger(): a list of levels goes to the logger in place if it is a console;
\* a logger takes its place, unless its class extends Logger; a boolean of either
\* value leaves none.
OverrideLogger(r) ==
    /\ replaced < MaxReplaced /\ replaced' = replaced + 1
    /\ \/ /\ r.kind = "levels"
          /\ logLevels' = r.levels
          /\ current' = IF current.kind \in {"default", "console"}
                        THEN [current EXCEPT !.levels = r.levels] ELSE current
       \/ /\ r.kind \in {"console", "custom", "plain", "none"}
          /\ current' = r
          /\ UNCHANGED logLevels
    /\ UNCHANGED <<entry, attached, logBuffer, consoles, sent, handed, forgotten, shown, broken>>

Next ==
    \/ \E w \in Writers : Log(w)
    \/ AttachBuffer \/ DetachBuffer \/ Flush
    \/ \E k \in 1 .. MaxBuffer : FlushThrows(k)
    \/ \E r \in Replacements : OverrideLogger(r)

Spec == Init /\ [][Next]_logVars

-----------------------------------------------------------------------------
\* The buffer holds the last messages, and gives up one only when it is full.
BufferKeeps ==
    ~broken => /\ \A i \in DOMAIN logBuffer : logBuffer[i].id = sent - Len(logBuffer) + i
               /\ Len(logBuffer) <= MaxBuffer

\* Whatever is attached, replaced and flushed, each message is handed on once, in the
\* order logged, or is still held, or was given up; a logger that throws during a
\* flush() gets the same messages again with the next one (150-156).
HandedOnce ==
    ~broken => /\ \A i, j \in DOMAIN handed : i < j => handed[i] < handed[j]
               /\ 1 .. sent = {handed[i] : i \in DOMAIN handed} \cup
                              {logBuffer[i].id : i \in DOMAIN logBuffer} \cup forgotten

\* A console that an instance makes for itself prints under the levels in force when
\* it was made, and under the instance's own context.
Threshold ==
    \A s \in shown :
        /\ s.new => Enabled(entry.level, s.levels)
        /\ Contexts[s.by] # "" => s.print.context = "context"
=============================================================================
