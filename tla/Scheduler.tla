----------------------------- MODULE Scheduler ------------------------------
(***************************************************************************)
(* The scheduler of the package: its map of handles, the timers behind     *)
(* them, and their callbacks, which are awaited and may schedule, cancel   *)
(* and shut down in turn.                                                  *)
(***************************************************************************)
EXTENDS Naturals, FiniteSets, SequencesExt

CONSTANTS
    Ids,            \* tasks ever created (a bound)
    MaxTasks,       \* maxTasks of the scheduler
    MaxRuns         \* bound: executions of one task under way at once

SchedulerAssumption == IsFiniteSet(Ids) /\ MaxTasks \in Nat

VARIABLES
    tasks,          \* Scheduler.tasks: the ids in the map
    task,           \* each task: kind, canceled, whether its timer is armed, executions
    starting,       \* tasks in their constructor, whose callback runs there; innermost last
    refused         \* calls that failed with "Task limit exceeded"

schedulerVars == <<tasks, task, starting, refused>>

Repeating == {"cron", "interval"}

Init ==
    /\ tasks = {}
    /\ task = [i \in Ids |-> [kind |-> "none", canceled |-> FALSE, armed |-> FALSE, runs |-> 0]]
    /\ starting = <<>>
    /\ refused = 0

Live(i) == task[i].kind # "none" /\ ~task[i].canceled

\* maybeCleanup(): every hundredth call, and when the map is getting large.
Cleaned(periodic) ==
    IF periodic \/ 5 * Cardinality(tasks) > 4 * MaxTasks
    THEN {i \in tasks : ~task[i].canceled} ELSE tasks

\* Faulty variant: the limit is checked before the map is cleaned.
Refused_Faulty(periodic) ==
    /\ tasks' = IF Cardinality(tasks) >= MaxTasks THEN tasks ELSE Cleaned(periodic)
    /\ \/ Cardinality(tasks) >= MaxTasks /\ refused = 0 /\ refused' = 1
       \/ Cardinality(tasks) < MaxTasks /\ UNCHANGED refused
    /\ UNCHANGED <<task, starting>>

\* checkTaskLimit() throws; so does an argument that is not valid, just after it.
Refused(periodic) ==
    /\ tasks' = Cleaned(periodic)
    /\ \/ Cardinality(tasks') >= MaxTasks /\ refused = 0 /\ refused' = 1
       \/ Cardinality(tasks') < MaxTasks /\ UNCHANGED refused
    /\ UNCHANGED <<task, starting>>

\* The constructor of a task that does not execute on init arms its timer; then
\* the handle is put into the map.
Schedule(i, kind, periodic) ==
    /\ task[i].kind = "none"
    /\ Cardinality(Cleaned(periodic)) < MaxTasks
    /\ tasks' = Cleaned(periodic) \union {i}
    /\ task' = [task EXCEPT ![i].kind = kind, ![i].armed = TRUE]
    /\ UNCHANGED <<starting, refused>>

\* With executeOnInit the callback runs first (a cron job is armed before it).
ScheduleNow(i, kind, periodic) ==
    /\ task[i].kind = "none"
    /\ Cardinality(Cleaned(periodic)) < MaxTasks
    /\ tasks' = Cleaned(periodic)
    /\ task' = [task EXCEPT ![i].kind = kind, ![i].armed = (kind = "cron"), ![i].runs = 1]
    /\ starting' = Append(starting, i)
    /\ UNCHANGED refused

\* The synchronous part of that callback is over.  An interval is armed and
\* registered; a timeout is spent, and its onComplete names a handle that has
\* no value yet: scheduleTimeout() throws, and nothing is registered.
Registered ==
    /\ starting # <<>>
    /\ LET i == Last(starting) IN
       IF task[i].kind \in Repeating
       THEN /\ tasks' = tasks \union {i}
            /\ task' = [task EXCEPT ![i].armed = TRUE]
       ELSE /\ task' = [task EXCEPT ![i].canceled = TRUE, ![i].runs = 0]
            /\ UNCHANGED tasks
    /\ starting' = Front(starting)
    /\ UNCHANGED refused

\* A timer fires: executeCallback(), at once.  A timeout's fires once.
Fires(i) ==
    /\ starting = <<>> /\ task[i].armed
    /\ task[i].kind \in Repeating => task[i].runs < MaxRuns
    /\ task' = [task EXCEPT ![i].runs = @ + 1, ![i].armed = (task[i].kind # "timeout")]
    /\ UNCHANGED <<tasks, starting, refused>>

\* Faulty variant: a timeout whose callback rejects never calls onComplete.
CallbackSettles_Faulty(i) ==
    /\ starting = <<>> /\ task[i].runs > 0
    /\ task' = [task EXCEPT ![i].runs = @ - 1]
    /\ UNCHANGED <<tasks, starting, refused>>

\* The callback's promise settles, either way; a timeout is complete then.
CallbackSettles(i) ==
    /\ starting = <<>> /\ task[i].runs > 0
    /\ task' = [task EXCEPT ![i].runs = @ - 1,
                            ![i].canceled = @ \/ task[i].kind = "timeout"]
    /\ tasks' = IF task[i].kind = "timeout" THEN tasks \ {i} ELSE tasks
    /\ UNCHANGED <<starting, refused>>

\* cancel() of each of the handles: the entries stay in the map.
Canceled(ids) == [i \in Ids |->
    IF i \in ids THEN [task[i] EXCEPT !.canceled = TRUE, !.armed = FALSE] ELSE task[i]]

Cancel(i) ==
    /\ Live(i) /\ ~Contains(starting, i)
    /\ task' = Canceled({i})
    /\ UNCHANGED <<tasks, starting, refused>>

\* Faulty variant: the map is cleared before the loop over it.
CancelAllTasks_Faulty ==
    /\ tasks # {}
    /\ tasks' = {}
    /\ UNCHANGED <<task, starting, refused>>

\* cancelAllTasks(): by a caller, by a callback, by onModuleDestroy().
CancelAllTasks ==
    /\ tasks # {}
    /\ task' = Canceled(tasks)
    /\ tasks' = {}
    /\ UNCHANGED <<starting, refused>>

Next ==
    \/ \E periodic \in BOOLEAN :
          \/ Refused(periodic)
          \/ \E i \in Ids, kind \in Repeating \union {"timeout"} :
                Schedule(i, kind, periodic) \/ ScheduleNow(i, kind, periodic)
    \/ Registered
    \/ \E i \in Ids : Fires(i) \/ CallbackSettles(i) \/ Cancel(i)
    \/ CancelAllTasks

Spec == Init /\ [][Next]_schedulerVars

SchedulerProgress ==
    \/ Registered
    \/ \E i \in Ids : task[i].kind = "timeout" /\ (Fires(i) \/ CallbackSettles(i))

-----------------------------------------------------------------------------
\* Every timer that can still fire belongs to a handle in the map (or to a task
\* in its constructor), so that cancelAllTasks() at shutdown reaches it, whatever was
\* cancelled, cleaned up, completed or nested before; and no timer is behind a
\* cancelled handle.
TimersReachable == \A i \in Ids : task[i].armed =>
    /\ ~task[i].canceled
    /\ i \in tasks \/ Contains(starting, i)

\* A task is refused only for tasks that are alive: cancelled handles do not
\* count against maxTasks, since the map is cleaned when it is nearly full.
Refusal == refused' # refused
RefusedForLive == \A i \in tasks' : ~task[i].canceled

TimeoutPending(i) == task[i].kind = "timeout" /\ i \in tasks /\ ~task[i].canceled
=============================================================================
