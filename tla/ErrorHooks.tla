----------------------------- MODULE ErrorHooks -----------------------------
(***************************************************************************)
(* The error hooks that an ElysiaNestApplication puts on its HTTP server:  *)
(* once, on the first server it has when there are filters, after which    *)
(* useGlobalFilters() and setHttpServer() may still be called while        *)
(* requests are under way.  The filters of the routes themselves are in    *)
(* HttpPipeline.                                                           *)
(***************************************************************************)
EXTENDS Naturals, Sequences

CONSTANTS
    Reactions,      \* of filters: "skips" the exception, "passes" (returns nothing),
                    \* "answers", "throws"; "unknown": a class without provider
    MaxGlobal,      \* bound: filters ever registered
    Webs,           \* HTTP servers: 1 .. n
    Faults,          \* requests that reach the hooks of a server
    Causes          \* "error", "exception" (an HttpException), "missing" (no such route)

ErrorHooksAssumption == Causes \subseteq {"error", "exception", "missing"}

VARIABLES
    httpServer,     \* 0: none
    hooked,         \* the server with the hooks; 0: errorHooksRegistered is FALSE
    globalFilters,
    call            \* each request: where, why, the filter it is at, its answer, and how
                    \* many filters there were when it came

hookVars == <<httpServer, hooked, globalFilters, call>>

Init ==
    /\ httpServer \in {0, 1} /\ hooked = 0 /\ globalFilters = <<>>
    /\ call = [c \in Faults |-> [web |-> 0, cause |-> "error", at |-> 0, met |-> 0,
                                answer |-> "none"]]

\* applyHttpErrorHooks()
ApplyHttpErrorHooks(web) == IF hooked = 0 THEN web ELSE hooked

UseGlobalFilters(f) ==
    /\ Len(globalFilters) < MaxGlobal
    /\ globalFilters' = Append(globalFilters, f)
    /\ hooked' = ApplyHttpErrorHooks(httpServer)
    /\ UNCHANGED <<httpServer, call>>

SetHttpServer(web) ==
    /\ httpServer' = web
    /\ hooked' = IF globalFilters # <<>> THEN ApplyHttpErrorHooks(web) ELSE hooked
    /\ UNCHANGED <<globalFilters, call>>

InitGlobalFilters ==
    /\ hooked' = ApplyHttpErrorHooks(httpServer)
    /\ UNCHANGED <<httpServer, globalFilters, call>>

-----------------------------------------------------------------------------
\* A handler throws, or Elysia has no route for a request.
Raise(c, cause) ==
    /\ call[c].web = 0 /\ httpServer # 0
    /\ call' = [call EXCEPT ![c] =
          [web |-> httpServer, cause |-> cause, met |-> Len(globalFilters),
           at |-> IF hooked = httpServer THEN 1 ELSE 0,
           answer |-> IF hooked = httpServer THEN "none" ELSE "elysia"]]
    /\ UNCHANGED <<httpServer, hooked, globalFilters>>

Raised(c) == call[c].web # 0 /\ call[c].answer = "none"
Answered(c, answer) == call' = [call EXCEPT ![c].answer = answer]

\* runFiltersForHttp(): iterates the list as it is.  A filter that is a class is asked
\* for, and passed over when nobody provides it.
PassedOver == {"skips", "passes", "unknown"}
RunFilter(c) ==
    /\ Raised(c) /\ call[c].at <= Len(globalFilters)
    /\ LET f == globalFilters[call[c].at] IN
       \/ f \in PassedOver /\ call' = [call EXCEPT ![c].at = @ + 1]
       \/ f = "answers" /\ Answered(c, "filter")
       \/ f = "throws" /\ Answered(c, "elysia")
    /\ UNCHANGED <<httpServer, hooked, globalFilters>>

\* "A safe fallback": the status and message of an HttpException, nothing of another.
Fallback(cause) ==
    CASE cause = "exception" -> "response"
      [] cause = "error" -> "internal"
      [] cause = "missing" -> "notfound"

NoFilter(c) ==
    /\ Raised(c) /\ call[c].at > Len(globalFilters)
    /\ Answered(c, Fallback(call[c].cause))
    /\ UNCHANGED <<httpServer, hooked, globalFilters>>

Next ==
    \/ \E f \in Reactions : UseGlobalFilters(f)
    \/ \E w \in Webs : SetHttpServer(w)
    \/ InitGlobalFilters
    \/ \E c \in Faults : RunFilter(c) \/ NoFilter(c) \/ \E x \in Causes : Raise(c, x)

Spec == Init /\ [][Next]_hookVars

-----------------------------------------------------------------------------
\* The answer is the first one in the order of registration; a fallback is given when
\* all filters there were have been asked.  Elysia's own, which may show the message of
\* the error, is given only when a filter throws, before there are filters, and on a
\* server other than the first.
ErrorsAnswered ==
    \A c \in Faults : call[c].web # 0 =>
        LET k == call[c].at IN
        /\ k = 0 => call[c].met = 0 \/ call[c].web # hooked
        /\ \A j \in 1 .. k - 1 : globalFilters[j] \in PassedOver
        /\ call[c].answer = "filter" => globalFilters[k] = "answers"
        /\ call[c].answer = "elysia" /\ k # 0 => globalFilters[k] = "throws"
        /\ call[c].answer \in {Fallback(x) : x \in Causes} => k > call[c].met
=============================================================================
