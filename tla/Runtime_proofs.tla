--------------------------- MODULE Runtime_proofs ---------------------------
(***************************************************************************)
(* Proofs about what runs while an application is up: the HTTP pipeline,   *)
(* the scheduler, the queues, the cache, passport, the log and the event   *)
(* emitters, for any requests, routes, tasks, queues, keys, strategies,    *)
(* messages, handlers and patterns.                                        *)
(***************************************************************************)
EXTENDS Runtime, SequenceTheorems, FiniteSetTheorems, WellFoundedInduction, TLAPS

(***************************************************************************)
(* Timers of the scheduler                                                 *)
(***************************************************************************)
Kinds == {"none", "cron", "interval", "timeout"}
Tasks == [kind : Kinds, canceled : BOOLEAN, armed : BOOLEAN, runs : Nat]

TimersTyped ==
    /\ tasks \subseteq Ids /\ task \in [Ids -> Tasks]
    /\ starting \in Seq(Ids) /\ refused \in Nat

\* A task that does not exist yet is nowhere.
Unmade == \A i \in Ids : task[i].kind = "none" =>
    /\ ~task[i].canceled /\ ~task[i].armed /\ task[i].runs = 0
    /\ i \notin tasks /\ \A k \in DOMAIN starting : starting[k] # i

\* The tasks in their constructors are alive, not in the map yet, and each of them
\* is there once; a timeout among them has no timer.
Starting ==
    /\ \A k \in DOMAIN starting : /\ starting[k] \notin tasks
                                  /\ ~task[starting[k]].canceled
                                  /\ task[starting[k]].kind = "timeout" => ~task[starting[k]].armed
    /\ \A j, k \in DOMAIN starting : starting[j] = starting[k] => j = k

\* A timer belongs to a handle that is alive and that the map or a constructor has.
Armed == \A i \in Ids : task[i].armed =>
    /\ ~task[i].canceled
    /\ i \in tasks \/ \E k \in DOMAIN starting : starting[k] = i
    /\ task[i].kind = "timeout" => task[i].runs = 0

TimersInv == TimersTyped /\ Unmade /\ Starting /\ Armed

(***************************************************************************)
(* Queues                                                                  *)
(***************************************************************************)
Closings == [at : {"idle", "worker", "queue", "quit", "rejected", "done"},
             waits : SUBSET Jobs!Made, client : Nat]

JobsTyped ==
    /\ owned \in BOOLEAN /\ raced \in BOOLEAN
    /\ shared \in Nat /\ clients \in Nat /\ connected \subseteq Nat \ {0}
    /\ shutdown \in [Shutdowns -> Closings]
    /\ \A c \in Shutdowns : shutdown[c].at = "quit" => owned
    /\ entries \subseteq Jobs!Made /\ open \subseteq Jobs!Made

\* The client the application brought is the first, and never torn down.
Brought == ~owned => clients \in {0, 1} /\ connected = 1 .. clients

\* As long as nothing was made under a close(): what is open is in the maps, and what a
\* close() has not closed yet, it waits for.
Reached == ~raced =>
    /\ open \subseteq entries
    /\ owned => connected \subseteq {shared}
    /\ \A c \in Shutdowns :
          /\ shutdown[c].at = "worker" =>
                \A x \in open : x.kind = "worker" => x \in shutdown[c].waits
          /\ shutdown[c].at = "queue" => \A x \in open : x.kind = "queue" /\ x \in shutdown[c].waits
          /\ shutdown[c].at = "quit" => open = {} /\ connected \subseteq {shutdown[c].client}

JobsInv == JobsTyped /\ Brought /\ Reached

(***************************************************************************)
(* Log buffer                                                              *)
(***************************************************************************)
Records == [id : Nat, by : Writers]
LogsInv ==
    /\ sent \in Nat /\ logBuffer \in Seq(Records) /\ attached \in BOOLEAN /\ broken \in BOOLEAN
    /\ ~broken /\ ~attached => logBuffer = <<>>
    /\ ~broken => /\ \A i \in 1 .. Len(logBuffer) : logBuffer[i].id = sent - Len(logBuffer) + i
                  /\ Len(logBuffer) <= MaxBuffer /\ Len(logBuffer) <= sent

(***************************************************************************)
(* Strategies and guards of passport                                       *)
(***************************************************************************)
Attempted == {"idle", "gone", "building", "circular", "answered", "unfound", "typeless", "unknown",
              "validating", "allowed", "denied", "threw"}

Tries == [at : Attempted, guard : Guards \cup {<<>>}, by : Nat, owed : Nat,
          user : {"none", "found", "threw"}]

AuthTyped ==
    /\ setup \in Setups
    /\ latest \in 0 .. Len(setup) /\ nth \in Nat \ {0}
    /\ boot \in {"none", "registering", "building", "loading", "ready", "failed"}
    /\ boot = "none" <=> latest = 0
    /\ calm \in BOOLEAN
    /\ made \subseteq Strategies
    /\ classes \subseteq Strategies \ Unnamed
    /\ registered \in [Strategies -> Nat] /\ inPassport \in [Strategies -> Nat]
    /\ attempt \in [Attempts -> Tries]

\* Validation is begun only for the first strategy named, and with an instance.
Grounded(t) ==
    /\ t.at \in {"building", "answered", "validating", "allowed", "denied", "threw"} =>
          t.guard # <<>>
    /\ t.at \in {"building", "validating", "allowed", "denied", "threw"} => t.by # 0
    /\ t.at = "allowed" => t.user = "found"

Decided == \A a \in Attempts : Grounded(attempt[a])

\* While nothing of an older application is left under construction, what the
\* container has built is what the registries hold.  A strategy without a name is in
\* passport's only.
Calm ==
    /\ \A s \in Strategies : s \in Unnamed => registered[s] = 0
    /\ calm => /\ \A a \in Attempts : attempt[a].at = "building" => attempt[a].by = latest
               /\ \A s \in made : /\ inPassport[s] = latest
                                  /\ s \notin Unnamed => registered[s] = latest

\* The strategies the boot is past are built.
Booted ==
    /\ boot = "registering" => nth = 1
    /\ boot = "loading" => nth <= Len(Auth!Provided)
    /\ boot \in {"building", "loading"} =>
          \A i \in 1 .. Len(Auth!Provided) : i < nth => Auth!Provided[i] \in made
    /\ boot = "ready" => \A i \in 1 .. Len(Auth!Provided) : Auth!Provided[i] \in made

\* An attempt that counts on the latest application is decided by it.
Due(t) == t.owed # 0 =>
    /\ calm /\ boot = "ready" /\ t.owed = latest
    /\ t.guard # <<>> /\ t.guard[1] \in Auth!Held
    /\ \/ t.at = "unfound"
       \/ t.by = latest /\ t.at \in {"validating", "allowed", "denied", "threw"}

Owed == \A a \in Attempts : Due(attempt[a])

AuthInv == AuthTyped /\ Decided /\ Calm /\ Booted /\ Owed

(***************************************************************************)
(* The cache                                                               *)
(***************************************************************************)
StoreKeys == Cache!Keys \ {Cache!Uncached}
Once(s) == \A i, j \in DOMAIN s : s[i] = s[j] => i = j
EndsWith(s, t) == /\ Len(s) <= Len(t)
                  /\ \A i \in 1 .. Len(s) : s[i] = t[Len(t) - Len(s) + i]

CacheTyped ==
    /\ lruSize \in Nat
    /\ store \in Seq(StoreKeys) /\ used \in Seq(StoreKeys)
    /\ source \in [Cache!Keys -> Visits \cup {Cache!Nobody}]
    /\ reading \in [Readers -> Visits \cup {Cache!Nobody}]
    /\ \A r \in Readers : reading[r] # Cache!Nobody => Cache!TrackBy(reading[r]) # Cache!Uncached

Recent == /\ Once(store) /\ Once(used) /\ EndsWith(store, used)
          /\ lruSize = 0 => store = used
          /\ lruSize > 0 => Len(store) <= lruSize

CacheInv == CacheTyped /\ Recent /\ Cache!OwnEntries

(***************************************************************************)
(* Guards, interceptors and parameters of the pipeline                     *)
(***************************************************************************)
Owners == Requests \cup {"app", "none"}
Calls == [what : {"allow", "deny", "intercept", "param", "handle"}, at : Nat, by : Owners]
Given == {Http!Taken(b) : b \in Bodies} \cup {<<>>}
Pcs == {"idle", "use", "after", "controller", "binding", "instance", "guards", "resolving",
        "registering", "building", "activate", "intercept", "params", "injecting", "files",
        "handle", "handling", "error", "filters", "dispatch", "done"}
Outcomes == {"none", "middleware", "empty", "unavailable", "forbidden", "result", "default",
             "filter", "thrown"}
Reqs == [pc : Pcs, at : Nat, by : Owners, log : Seq(Calls), files : Given, answer : Outcomes]

HttpTyped ==
    /\ route \in Routes
    /\ req \in [Requests -> Reqs]
    /\ cached \in [DOMAIN route.guards -> Owners]
    /\ held \in BOOLEAN

\* The calls of a request: its guards in order, of which only the last may refuse, and
\* what is no guard's only after all of them.
Shaped(log) == \A k \in DOMAIN log :
    IF k \in DOMAIN route.guards
    THEN /\ log[k].at = k
         /\ log[k].what = "allow" \/ (log[k].what = "deny" /\ k = Len(log))
    ELSE log[k].what \in {"intercept", "param", "handle"}

\* Every guard called has allowed the request.
Allowed(log) == \A k \in DOMAIN log : k \in DOMAIN route.guards => log[k].what = "allow"

AtGuards == {"guards", "resolving", "registering", "building", "activate"}
PastGuards == {"instance", "intercept", "params", "injecting", "files", "handle", "handling"}

Ordered(q) ==
    /\ Shaped(q.log)
    /\ q.pc \in {"idle", "use", "controller", "binding"} => q.log = <<>>
    /\ q.pc = "binding" => route.guards = <<>>
    /\ q.pc \in AtGuards => /\ q.at \in 1 .. Len(route.guards) + 1 /\ Len(q.log) = q.at - 1
                            /\ q.pc # "guards" => q.at \in DOMAIN route.guards
                            /\ Allowed(q.log)
    /\ q.pc \in PastGuards => Len(q.log) >= Len(route.guards) /\ Allowed(q.log)
    /\ route.files.limited => \A k \in DOMAIN q.files : q.files[k]

\* Whose instance a guard is when it is asked.
OwnGuard(r, i, by) ==
    /\ route.guards[i] = "request" /\ route.kind = "http" => by = r
    /\ route.guards[i] = "single" /\ held => by = "app"

Owned(r, q) ==
    /\ q.pc = "activate" => OwnGuard(r, q.at, q.by)
    /\ q.pc = "resolving" => /\ route.guards[q.at] # "request"
                             /\ route.guards[q.at] = "single" /\ held => q.by = "app"
    /\ q.pc \in {"registering", "building"} => ~(route.guards[q.at] = "single" /\ held)
    /\ \A k \in DOMAIN q.log :
          /\ k \in DOMAIN route.guards => OwnGuard(r, k, q.log[k].by)
          /\ q.log[k].what = "intercept" =>
                q.log[k].by = IF route.interceptors[q.log[k].at] = "single" THEN "app" ELSE r
          /\ q.log[k].what = "param" => q.log[k].by = r

CachedOwn == \A i \in DOMAIN route.guards :
    route.guards[i] = "single" /\ held /\ cached[i] # "none" => cached[i] = "app"

HttpInv == HttpTyped /\ CachedOwn /\ \A r \in Requests : Ordered(req[r]) /\ Owned(r, req[r])

-----------------------------------------------------------------------------
(* Scheduler *)

LEMMA TimersInit == Timers!Init => TimersInv
<1> SUFFICES ASSUME Timers!Init
             PROVE  TimersInv
  OBVIOUS
<1>1. /\ tasks = {} /\ starting = <<>> /\ refused = 0
      /\ task = [i \in Ids |-> [kind |-> "none", canceled |-> FALSE, armed |-> FALSE, runs |-> 0]]
  BY DEF Timers!Init
<1>2. TimersTyped
  BY <1>1 DEF TimersTyped, Tasks, Kinds
<1>3. Unmade /\ Starting /\ Armed
  BY <1>1 DEF Unmade, Starting, Armed
<1> QED BY <1>2, <1>3 DEF TimersInv

\* The map after maybeCleanup(): every handle that is alive stays.
LEMMA CleanedKeeps ==
    ASSUME TimersInv, NEW periodic \in BOOLEAN
    PROVE  /\ Timers!Cleaned(periodic) \subseteq tasks
           /\ \A i \in tasks : ~task[i].canceled => i \in Timers!Cleaned(periodic)
  BY DEF Timers!Cleaned

\* How the constructors stand: what the proofs need of Append and Front.
LEMMA StartingPlaces ==
    ASSUME NEW S, NEW s \in Seq(S), NEW x \in S
    PROVE  /\ Append(s, x) \in Seq(S) /\ DOMAIN Append(s, x) = 1 .. Len(s) + 1
           /\ \A k \in 1 .. Len(s) : Append(s, x)[k] = s[k]
           /\ Append(s, x)[Len(s) + 1] = x
           /\ DOMAIN s = 1 .. Len(s) /\ Len(s) \in Nat
  BY AppendProperties, LenProperties

LEMMA FrontPlaces ==
    ASSUME NEW S, NEW s \in Seq(S), s # <<>>
    PROVE  /\ SubSeq(s, 1, Len(s) - 1) \in Seq(S)
           /\ DOMAIN SubSeq(s, 1, Len(s) - 1) = 1 .. Len(s) - 1
           /\ \A k \in 1 .. Len(s) - 1 : SubSeq(s, 1, Len(s) - 1)[k] = s[k]
           /\ DOMAIN s = 1 .. Len(s) /\ Len(s) \in Nat \ {0} /\ s[Len(s)] \in S
<1>1. DOMAIN s = 1 .. Len(s) /\ Len(s) \in Nat
  BY LenProperties
<1>2. Len(s) # 0
  BY EmptySeq
<1>3. \A k \in 1 .. Len(s) : s[k] \in S
  BY ElementOfSeq
<1>4. SubSeq(s, 1, Len(s) - 1) = [k \in 1 .. Len(s) - 1 |-> s[k]]
  <2>1. \A k \in 1 .. Len(s) - 1 : s[1 + k - 1] = s[k]
    BY <1>1
  <2> QED BY <1>1, <1>2
<1>5. [k \in 1 .. Len(s) - 1 |-> s[k]] \in [1 .. Len(s) - 1 -> S] /\ Len(s) - 1 \in Nat
  BY <1>1, <1>2, <1>3
<1>6. [k \in 1 .. Len(s) - 1 |-> s[k]] \in Seq(S)
  BY <1>5, SeqDef
<1> QED BY <1>1, <1>2, <1>3, <1>4, <1>6

\* A step that leaves the constructors alone and changes one task, which is not in one.
LEMMA OneTask ==
    ASSUME TimersInv, starting' = starting, refused' \in Nat, NEW i \in Ids,
           \A k \in DOMAIN starting : starting[k] # i,
           NEW t \in Tasks, task' = [task EXCEPT ![i] = t],
           tasks' \subseteq tasks \cup {i},
           t.kind # "none",
           i \notin tasks' => ~t.armed,
           t.armed => ~t.canceled /\ (t.kind = "timeout" => t.runs = 0),
           \A j \in tasks \ {i} : task[j].armed => j \in tasks'
    PROVE  TimersInv'
<1>1. TimersTyped /\ Unmade /\ Starting /\ Armed
  BY DEF TimersInv
<1>2. \A j \in Ids : task'[j] = IF j = i THEN t ELSE task[j]
  BY <1>1 DEF TimersTyped
<1>3. \A k \in DOMAIN starting : starting[k] \in Ids \ {i}
  BY <1>1, ElementOfSeq DEF TimersTyped
<1>4. TimersTyped'
  BY <1>1 DEF TimersTyped
<1>5. Unmade'
  <2>1. ASSUME NEW j \in Ids, task'[j].kind = "none"
        PROVE  /\ ~task'[j].canceled /\ ~task'[j].armed /\ task'[j].runs = 0
               /\ j \notin tasks' /\ \A k \in DOMAIN starting' : starting'[k] # j
    <3>1. j # i
      BY <1>2, <2>1
    <3>2. task'[j] = task[j]
      BY <1>2, <3>1
    <3> QED BY <1>1, <2>1, <3>1, <3>2 DEF Unmade
  <2> QED BY <2>1 DEF Unmade
<1>6. Starting'
  <2>1. ASSUME NEW k \in DOMAIN starting
        PROVE  /\ starting[k] \notin tasks'
               /\ ~task'[starting[k]].canceled
               /\ task'[starting[k]].kind = "timeout" => ~task'[starting[k]].armed
    BY <1>1, <1>2, <1>3 DEF Starting
  <2> QED BY <1>1, <2>1 DEF Starting
<1>7. Armed'
  <2>1. ASSUME NEW j \in Ids, task'[j].armed
        PROVE  /\ ~task'[j].canceled
               /\ j \in tasks' \/ \E k \in DOMAIN starting' : starting'[k] = j
               /\ task'[j].kind = "timeout" => task'[j].runs = 0
    <3>1. CASE j = i
      BY <1>2, <2>1, <3>1
    <3>2. CASE j # i
      BY <1>1, <1>2, <2>1, <3>2 DEF Armed
    <3> QED BY <3>1, <3>2
  <2> QED BY <2>1 DEF Armed
<1> QED BY <1>4, <1>5, <1>6, <1>7 DEF TimersInv

LEMMA OnRefused ==
    ASSUME TimersInv, NEW periodic \in BOOLEAN, Timers!Refused(periodic)
    PROVE  TimersInv'
<1>1. TimersTyped /\ Unmade /\ Starting /\ Armed
  BY DEF TimersInv
<1>2. /\ tasks' \subseteq tasks /\ \A i \in tasks : ~task[i].canceled => i \in tasks'
      /\ task' = task /\ starting' = starting
  BY CleanedKeeps DEF Timers!Refused
<1>3. refused' \in Nat
  BY <1>1 DEF Timers!Refused, TimersTyped
<1>4. TimersTyped'
  BY <1>1, <1>2, <1>3 DEF TimersTyped
<1>5. Unmade' /\ Starting'
  BY <1>1, <1>2 DEF Unmade, Starting
<1>6. Armed'
  BY <1>1, <1>2 DEF Armed
<1> QED BY <1>4, <1>5, <1>6 DEF TimersInv

LEMMA OnSchedule ==
    ASSUME TimersInv, NEW periodic \in BOOLEAN, NEW i \in Ids,
           NEW kind \in Kinds \ {"none"}, Timers!Schedule(i, kind, periodic)
    PROVE  TimersInv'
<1>1. TimersTyped /\ Unmade /\ Armed
  BY DEF TimersInv
<1>2. /\ ~task[i].canceled /\ task[i].runs = 0 /\ i \notin tasks
      /\ \A k \in DOMAIN starting : starting[k] # i
  BY <1>1 DEF Unmade, Timers!Schedule
<1>3. /\ tasks' = Timers!Cleaned(periodic) \union {i}
      /\ task' = [task EXCEPT ![i].kind = kind, ![i].armed = TRUE]
      /\ starting' = starting /\ refused' = refused
  BY DEF Timers!Schedule
<1>4. PICK yes \in BOOLEAN : yes = TRUE
  OBVIOUS
<1>5. PICK t : t = [task[i] EXCEPT !.kind = kind, !.armed = yes]
  OBVIOUS
<1>6. task[i] \in Tasks
  BY <1>1 DEF TimersTyped
<1>7. /\ t \in Tasks /\ t.kind = kind /\ t.armed /\ ~t.canceled /\ t.runs = 0
      /\ task' = [task EXCEPT ![i] = t]
  BY <1>1, <1>2, <1>3, <1>4, <1>5, <1>6 DEF Tasks, TimersTyped
<1>8. /\ tasks' \subseteq tasks \cup {i} /\ i \in tasks'
      /\ \A j \in tasks \ {i} : task[j].armed => j \in tasks'
  BY <1>1, <1>3, CleanedKeeps DEF Armed, TimersTyped
<1>9. refused' \in Nat
  BY <1>1, <1>3 DEF TimersTyped
<1> QED BY <1>2, <1>3, <1>7, <1>8, <1>9, OneTask

LEMMA OnScheduleNow ==
    ASSUME TimersInv, NEW periodic \in BOOLEAN, NEW i \in Ids,
           NEW kind \in Kinds \ {"none"}, Timers!ScheduleNow(i, kind, periodic)
    PROVE  TimersInv'
<1>1. TimersTyped /\ Unmade /\ Starting /\ Armed
  BY DEF TimersInv
<1>2. /\ task[i].kind = "none" /\ ~task[i].canceled /\ i \notin tasks
      /\ \A k \in DOMAIN starting : starting[k] # i
  BY <1>1 DEF Unmade, Timers!ScheduleNow
<1>3. /\ tasks' = Timers!Cleaned(periodic)
      /\ task' = [task EXCEPT ![i].kind = kind, ![i].armed = (kind = "cron"), ![i].runs = 1]
      /\ starting' = Append(starting, i) /\ refused' = refused
  BY DEF Timers!ScheduleNow
<1>4. PICK arms \in BOOLEAN : arms = (kind = "cron")
  OBVIOUS
<1>5. PICK t : t = [task[i] EXCEPT !.kind = kind, !.armed = arms, !.runs = 1]
  OBVIOUS
<1>6. task[i] \in Tasks
  BY <1>1 DEF TimersTyped
<1>7. /\ t \in Tasks /\ t.kind = kind /\ ~t.canceled /\ t.armed = arms
      /\ task' = [task EXCEPT ![i] = t]
  BY <1>1, <1>2, <1>3, <1>4, <1>5, <1>6 DEF Tasks, TimersTyped
<1>8. kind = "timeout" => ~arms
  BY <1>4
<1>9. \A j \in Ids : task'[j] = IF j = i THEN t ELSE task[j]
  BY <1>1, <1>7 DEF TimersTyped
<1>10. PICK n \in Nat : n = Len(starting)
  BY <1>1, LenProperties DEF TimersTyped
<1>11. /\ starting' \in Seq(Ids) /\ DOMAIN starting' = 1 .. n + 1 /\ DOMAIN starting = 1 .. n
       /\ \A k \in 1 .. n : starting'[k] = starting[k]
       /\ starting'[n + 1] = i
  BY <1>1, <1>3, <1>10, StartingPlaces DEF TimersTyped
<1>12. /\ tasks' \subseteq tasks /\ \A j \in tasks : ~task[j].canceled => j \in tasks'
  BY <1>3, CleanedKeeps
<1>13. TimersTyped'
  <2>1. task' \in [Ids -> Tasks]
    BY <1>1, <1>7 DEF TimersTyped
  <2>2. tasks' \subseteq Ids /\ refused' \in Nat
    BY <1>1, <1>3, <1>12 DEF TimersTyped
  <2> QED BY <1>11, <2>1, <2>2 DEF TimersTyped
<1>14. ASSUME NEW k \in 1 .. n + 1
       PROVE  k = n + 1 \/ k \in 1 .. n
  OBVIOUS
<1>15. Unmade'
  <2>1. ASSUME NEW j \in Ids, task'[j].kind = "none"
        PROVE  /\ ~task'[j].canceled /\ ~task'[j].armed /\ task'[j].runs = 0
               /\ j \notin tasks' /\ \A k \in DOMAIN starting' : starting'[k] # j
    <3>1. j # i /\ task'[j] = task[j]
      BY <1>7, <1>9, <2>1
    <3> QED BY <1>1, <1>11, <1>12, <1>14, <2>1, <3>1 DEF Unmade
  <2> QED BY <2>1 DEF Unmade
<1>16. \A k \in 1 .. n : starting[k] \in Ids /\ starting[k] # i
  BY <1>1, <1>2, <1>10, <1>11, ElementOfSeq DEF TimersTyped
<1>17. Starting'
  <2>1. ASSUME NEW k \in 1 .. n + 1
        PROVE  /\ starting'[k] \notin tasks'
               /\ ~task'[starting'[k]].canceled
               /\ task'[starting'[k]].kind = "timeout" => ~task'[starting'[k]].armed
    <3>1. CASE k = n + 1
      BY <1>2, <1>7, <1>8, <1>9, <1>11, <1>12, <3>1
    <3>2. CASE k \in 1 .. n
      BY <1>1, <1>9, <1>11, <1>12, <1>16, <3>2 DEF Starting
    <3> QED BY <1>14, <3>1, <3>2
  <2>2. \A j, k \in 1 .. n + 1 : starting'[j] = starting'[k] => j = k
    BY <1>1, <1>11, <1>14, <1>16 DEF Starting
  <2> QED BY <1>11, <2>1, <2>2 DEF Starting
<1>18. Armed'
  <2>1. ASSUME NEW j \in Ids, task'[j].armed
        PROVE  /\ ~task'[j].canceled
               /\ j \in tasks' \/ \E k \in DOMAIN starting' : starting'[k] = j
               /\ task'[j].kind = "timeout" => task'[j].runs = 0
    <3>1. CASE j = i
      BY <1>7, <1>8, <1>9, <1>11, <2>1, <3>1
    <3>2. CASE j # i
      <4>1. task'[j] = task[j]
        BY <1>9, <3>2
      <4>2. ~task[j].canceled /\ (j \in tasks \/ \E k \in DOMAIN starting : starting[k] = j)
        BY <1>1, <2>1, <4>1 DEF Armed
      <4>3. j \in tasks' \/ \E k \in DOMAIN starting' : starting'[k] = j
        BY <1>11, <1>12, <4>2
      <4> QED BY <1>1, <2>1, <4>1, <4>3 DEF Armed
    <3> QED BY <3>1, <3>2
  <2> QED BY <2>1 DEF Armed
<1> QED BY <1>13, <1>15, <1>17, <1>18 DEF TimersInv

LEMMA OnRegistered ==
    ASSUME TimersInv, Timers!Registered
    PROVE  TimersInv'
<1>1. TimersTyped /\ Unmade /\ Starting /\ Armed
  BY DEF TimersInv
<1>2. PICK n \in Nat \ {0} : n = Len(starting)
  BY <1>1, FrontPlaces DEF TimersTyped, Timers!Registered
<1>3. starting # <<>>
  BY DEF Timers!Registered
<1>4. PICK i \in Ids : i = starting[n]
  BY <1>1, <1>2, <1>3, FrontPlaces DEF TimersTyped
<1>5. starting' = SubSeq(starting, 1, n - 1)
  BY <1>2 DEF Timers!Registered, Timers!Front
<1>6. /\ starting' \in Seq(Ids) /\ DOMAIN starting' = 1 .. n - 1 /\ DOMAIN starting = 1 .. n
      /\ \A k \in 1 .. n - 1 : starting'[k] = starting[k]
  BY <1>1, <1>2, <1>3, <1>5, FrontPlaces DEF TimersTyped
<1>7. /\ refused' = refused
      /\ \/ /\ task[i].kind \in {"cron", "interval"}
            /\ tasks' = tasks \union {i}
            /\ task' = [task EXCEPT ![i].armed = TRUE]
         \/ /\ task[i].kind \notin {"cron", "interval"}
            /\ task' = [task EXCEPT ![i].canceled = TRUE, ![i].runs = 0]
            /\ tasks' = tasks
  BY <1>2, <1>4 DEF Timers!Registered, Timers!Last, Timers!Repeating
<1>8. /\ i \notin tasks /\ ~task[i].canceled
      /\ task[i].kind = "timeout" => ~task[i].armed
      /\ \A k \in 1 .. n - 1 : starting[k] # i
  BY <1>1, <1>4, <1>6 DEF Starting
<1>9. task[i].kind # "none" /\ task[i] \in Tasks
  BY <1>1, <1>4, <1>6 DEF Unmade, TimersTyped
<1>10. \E t \in Tasks : /\ task' = [task EXCEPT ![i] = t] /\ t.kind = task[i].kind
                        /\ \/ t.kind # "timeout" /\ ~t.canceled /\ tasks' = tasks \cup {i}
                           \/ t.kind = "timeout" /\ ~t.armed /\ tasks' = tasks
  <2>1. PICK yes \in BOOLEAN : yes = TRUE
    OBVIOUS
  <2>2. CASE task[i].kind \in {"cron", "interval"}
    <3>1. PICK t : t = [task[i] EXCEPT !.armed = yes]
      OBVIOUS
    <3>2. /\ t \in Tasks /\ t.kind = task[i].kind /\ t.canceled = task[i].canceled
          /\ task' = [task EXCEPT ![i] = t]
      BY <1>1, <1>7, <1>9, <2>1, <2>2, <3>1 DEF Tasks, TimersTyped
    <3> QED BY <1>7, <1>8, <2>2, <3>2
  <2>3. CASE task[i].kind = "timeout"
    <3>1. PICK t : t = [task[i] EXCEPT !.canceled = yes, !.runs = 0]
      OBVIOUS
    <3>2. /\ t \in Tasks /\ t.kind = task[i].kind /\ t.armed = task[i].armed
          /\ task' = [task EXCEPT ![i] = t]
      BY <1>1, <1>7, <1>9, <2>1, <2>3, <3>1 DEF Tasks, TimersTyped
    <3> QED BY <1>7, <1>8, <2>3, <3>2
  <2> QED BY <1>9, <2>2, <2>3 DEF Tasks, Kinds
<1>11. PICK t \in Tasks : /\ task' = [task EXCEPT ![i] = t] /\ t.kind = task[i].kind
                          /\ \/ t.kind # "timeout" /\ ~t.canceled /\ tasks' = tasks \cup {i}
                             \/ t.kind = "timeout" /\ ~t.armed /\ tasks' = tasks
  BY <1>10
<1>12. \A j \in Ids : task'[j] = IF j = i THEN t ELSE task[j]
  BY <1>1, <1>11 DEF TimersTyped
<1>13. TimersTyped'
  <2>1. task' \in [Ids -> Tasks]
    BY <1>1, <1>11 DEF TimersTyped
  <2>2. tasks' \subseteq Ids /\ refused' \in Nat
    BY <1>1, <1>7, <1>11 DEF TimersTyped
  <2> QED BY <1>6, <2>1, <2>2 DEF TimersTyped
<1>14. Unmade'
  <2>1. ASSUME NEW j \in Ids, task'[j].kind = "none"
        PROVE  /\ ~task'[j].canceled /\ ~task'[j].armed /\ task'[j].runs = 0
               /\ j \notin tasks' /\ \A k \in DOMAIN starting' : starting'[k] # j
    <3>1. j # i /\ task'[j] = task[j]
      BY <1>9, <1>11, <1>12, <2>1
    <3>2. \A k \in 1 .. n : starting[k] # j
      BY <1>1, <1>6, <2>1, <3>1 DEF Unmade
    <3>3. \A k \in 1 .. n - 1 : starting'[k] # j
      BY <1>6, <3>2
    <3> QED BY <1>1, <1>6, <1>11, <2>1, <3>1, <3>3 DEF Unmade
  <2> QED BY <2>1 DEF Unmade
<1>15. Starting'
  <2>1. ASSUME NEW k \in 1 .. n - 1
        PROVE  /\ starting'[k] \notin tasks'
               /\ ~task'[starting'[k]].canceled
               /\ task'[starting'[k]].kind = "timeout" => ~task'[starting'[k]].armed
    <3>1. k \in 1 .. n
      OBVIOUS
    <3>2. starting[k] \in Ids
      BY <1>1, <1>6, <3>1, ElementOfSeq DEF TimersTyped
    <3>3. starting[k] # i /\ starting'[k] = starting[k] /\ task'[starting[k]] = task[starting[k]]
      BY <1>6, <1>8, <1>12, <3>2
    <3>4. /\ starting[k] \notin tasks /\ ~task[starting[k]].canceled
          /\ task[starting[k]].kind = "timeout" => ~task[starting[k]].armed
      BY <1>1, <1>6, <3>1 DEF Starting
    <3> QED BY <1>11, <3>3, <3>4
  <2>2. \A j, k \in 1 .. n - 1 : starting'[j] = starting'[k] => j = k
    <3>1. \A j, k \in 1 .. n : starting[j] = starting[k] => j = k
      BY <1>1, <1>6 DEF Starting
    <3> QED BY <1>6, <3>1
  <2> QED BY <1>6, <2>1, <2>2 DEF Starting
<1>16. Armed'
  <2>1. ASSUME NEW j \in Ids, task'[j].armed
        PROVE  /\ ~task'[j].canceled
               /\ j \in tasks' \/ \E k \in DOMAIN starting' : starting'[k] = j
               /\ task'[j].kind = "timeout" => task'[j].runs = 0
    <3>1. CASE j = i
      BY <1>11, <1>12, <2>1, <3>1
    <3>2. CASE j # i
      <4>1. task'[j] = task[j]
        BY <1>12, <3>2
      <4>2. ~task[j].canceled /\ (j \in tasks \/ \E k \in 1 .. n : starting[k] = j)
        BY <1>1, <1>6, <2>1, <4>1 DEF Armed
      <4>3. ASSUME NEW k \in 1 .. n, starting[k] = j
            PROVE  \E l \in 1 .. n - 1 : starting'[l] = j
        <5>1. k \in 1 .. n - 1
          BY <1>4, <3>2, <4>3
        <5> QED BY <1>6, <4>3, <5>1
      <4>4. j \in tasks' \/ \E k \in DOMAIN starting' : starting'[k] = j
        BY <1>6, <1>11, <4>2, <4>3
      <4> QED BY <1>1, <2>1, <4>1, <4>4 DEF Armed
    <3> QED BY <3>1, <3>2
  <2> QED BY <2>1 DEF Armed
<1> QED BY <1>13, <1>14, <1>15, <1>16 DEF TimersInv

LEMMA OnFires == ASSUME TimersInv, NEW i \in Ids, Timers!Fires(i) PROVE TimersInv'
<1>1. TimersTyped /\ Unmade /\ Armed
  BY DEF TimersInv
<1>2. /\ starting = <<>> /\ task[i].armed /\ tasks' = tasks
      /\ starting' = starting /\ refused' = refused
      /\ task' = [task EXCEPT ![i].runs = @ + 1,
                              ![i].armed = (task[i].kind # "timeout")]
  BY DEF Timers!Fires
<1>3. task[i] \in Tasks
  BY <1>1 DEF TimersTyped
<1>4. task[i].kind # "none" /\ ~task[i].canceled /\ i \in tasks
  BY <1>1, <1>2 DEF Unmade, Armed
<1>5. PICK again \in BOOLEAN : again = (task[i].kind # "timeout")
  OBVIOUS
<1>m. PICK m \in Nat : m = task[i].runs + 1
  BY <1>3 DEF Tasks
<1>6. PICK t : t = [task[i] EXCEPT !.runs = m, !.armed = again]
  OBVIOUS
<1>n. task' = [task EXCEPT ![i].runs = m, ![i].armed = again]
  BY <1>2, <1>5, <1>m
<1>7. /\ t \in Tasks /\ t.kind = task[i].kind /\ t.canceled = task[i].canceled /\ t.armed = again
      /\ task' = [task EXCEPT ![i] = t]
  BY <1>1, <1>n, <1>3, <1>6 DEF Tasks, TimersTyped
<1>8. t.kind = "timeout" => ~t.armed
  BY <1>5, <1>7
<1>9. refused' \in Nat /\ \A k \in DOMAIN starting : starting[k] # i
  BY <1>1, <1>2 DEF TimersTyped
<1>10. /\ tasks' \subseteq tasks \cup {i} /\ i \in tasks'
       /\ \A j \in tasks \ {i} : task[j].armed => j \in tasks'
  BY <1>2, <1>4
<1> QED BY <1>2, <1>4, <1>7, <1>8, <1>9, <1>10, OneTask

LEMMA OnCallbackSettles ==
    ASSUME TimersInv, NEW i \in Ids, Timers!CallbackSettles(i)
    PROVE  TimersInv'
<1>1. TimersTyped /\ Unmade /\ Armed
  BY DEF TimersInv
<1>2. /\ starting = <<>> /\ task[i].runs > 0 /\ starting' = starting /\ refused' = refused
      /\ tasks' = IF task[i].kind = "timeout" THEN tasks \ {i} ELSE tasks
      /\ task' = [task EXCEPT ![i].runs = @ - 1,
                              ![i].canceled = @ \/ task[i].kind = "timeout"]
  BY DEF Timers!CallbackSettles
<1>3. task[i] \in Tasks
  BY <1>1 DEF TimersTyped
<1>4. /\ task[i].kind # "none" /\ task[i].runs - 1 \in Nat
      /\ task[i].kind = "timeout" => ~task[i].armed
      /\ task[i].armed => ~task[i].canceled /\ i \in tasks
  BY <1>1, <1>2, <1>3 DEF Unmade, Armed, Tasks
<1>5. PICK over \in BOOLEAN : over = (task[i].canceled \/ task[i].kind = "timeout")
  OBVIOUS
<1>6. PICK t : t = [task[i] EXCEPT !.runs = task[i].runs - 1, !.canceled = over]
  OBVIOUS
<1>7. /\ t \in Tasks /\ t.kind = task[i].kind /\ t.canceled = over /\ t.armed = task[i].armed
      /\ task' = [task EXCEPT ![i] = t]
  BY <1>1, <1>2, <1>3, <1>4, <1>5, <1>6 DEF Tasks, TimersTyped
<1>8. t.armed => ~t.canceled /\ t.kind # "timeout" /\ i \in tasks'
  BY <1>2, <1>4, <1>5, <1>7
<1>9. refused' \in Nat /\ \A k \in DOMAIN starting : starting[k] # i
  BY <1>1, <1>2 DEF TimersTyped
<1>10. tasks' \subseteq tasks \cup {i} /\ \A j \in tasks \ {i} : task[j].armed => j \in tasks'
  BY <1>2
<1> QED BY <1>2, <1>4, <1>7, <1>8, <1>9, <1>10, OneTask

\* cancel() of handles that are not in a constructor: of one, or of all in the map.
LEMMA Cancels ==
    ASSUME TimersInv, NEW ids \in SUBSET Ids, task' = Timers!Canceled(ids),
           tasks' \subseteq tasks, tasks \ ids \subseteq tasks',
           starting' = starting, refused' = refused,
           \A i \in ids : task[i].kind # "none" /\ \A k \in DOMAIN starting : starting[k] # i
    PROVE  TimersInv'
<1>1. TimersTyped /\ Unmade /\ Starting /\ Armed
  BY DEF TimersInv
<1>2. PICK yes \in BOOLEAN : yes = TRUE
  OBVIOUS
<1>3. PICK no \in BOOLEAN : no = FALSE
  OBVIOUS
<1>4. ASSUME NEW j \in Ids
      PROVE  /\ task'[j] \in Tasks /\ task'[j].kind = task[j].kind
             /\ j \notin ids => task'[j] = task[j]
             /\ j \in ids => ~task'[j].armed
  <2>1. task'[j] = IF j \in ids THEN [task[j] EXCEPT !.canceled = yes, !.armed = no] ELSE task[j]
    BY <1>2, <1>3 DEF Timers!Canceled
  <2>2. task[j] \in Tasks
    BY <1>1 DEF TimersTyped
  <2> QED BY <1>3, <2>1, <2>2 DEF Tasks
<1>5. task' = [j \in Ids |-> task'[j]]
  BY DEF Timers!Canceled
<1>6. task' \in [Ids -> Tasks]
  BY <1>4, <1>5
<1>7. TimersTyped'
  BY <1>1, <1>6 DEF TimersTyped
<1>8. \A k \in DOMAIN starting : starting[k] \in Ids \ ids
  BY <1>1, ElementOfSeq DEF TimersTyped
<1>9. Unmade'
  <2>1. ASSUME NEW j \in Ids, task'[j].kind = "none"
        PROVE  /\ ~task'[j].canceled /\ ~task'[j].armed /\ task'[j].runs = 0
               /\ j \notin tasks' /\ \A k \in DOMAIN starting' : starting'[k] # j
    <3>1. j \notin ids /\ task'[j] = task[j]
      BY <1>4, <2>1
    <3> QED BY <1>1, <2>1, <3>1 DEF Unmade
  <2> QED BY <2>1 DEF Unmade
<1>10. Starting'
  <2>1. ASSUME NEW k \in DOMAIN starting
        PROVE  /\ starting[k] \notin tasks'
               /\ ~task'[starting[k]].canceled
               /\ task'[starting[k]].kind = "timeout" => ~task'[starting[k]].armed
    <3>1. task'[starting[k]] = task[starting[k]]
      BY <1>4, <1>8
    <3> QED BY <1>1, <3>1 DEF Starting
  <2> QED BY <1>1, <2>1 DEF Starting
<1>11. Armed'
  <2>1. ASSUME NEW j \in Ids, task'[j].armed
        PROVE  /\ ~task'[j].canceled
               /\ j \in tasks' \/ \E k \in DOMAIN starting' : starting'[k] = j
               /\ task'[j].kind = "timeout" => task'[j].runs = 0
    <3>1. j \notin ids /\ task'[j] = task[j]
      BY <1>4, <2>1
    <3> QED BY <1>1, <2>1, <3>1 DEF Armed
  <2> QED BY <2>1 DEF Armed
<1> QED BY <1>7, <1>9, <1>10, <1>11 DEF TimersInv

LEMMA OnCancels ==
    ASSUME TimersInv, NEW i \in Ids, Timers!Cancel(i) \/ Timers!CancelAllTasks
    PROVE  TimersInv'
<1>1. TimersTyped /\ Unmade /\ Starting
  BY DEF TimersInv
<1>2. CASE Timers!Cancel(i)
  <2>1. /\ task' = Timers!Canceled({i}) /\ tasks' = tasks
        /\ starting' = starting /\ refused' = refused
        /\ task[i].kind # "none" /\ \A k \in 1 .. Len(starting) : starting[k] # i
    BY <1>2 DEF Timers!Cancel, Timers!Live, Timers!Contains
  <2>2. DOMAIN starting = 1 .. Len(starting)
    BY <1>1, LenProperties DEF TimersTyped
  <2>3. {i} \in SUBSET Ids /\ tasks \ {i} \subseteq tasks' /\ tasks' \subseteq tasks
    BY <2>1
  <2>4. \A j \in {i} : task[j].kind # "none" /\ \A k \in DOMAIN starting : starting[k] # j
    BY <2>1, <2>2
  <2> QED BY <2>1, <2>3, <2>4, Cancels
<1>3. CASE Timers!CancelAllTasks
  <2>1. /\ task' = Timers!Canceled(tasks) /\ tasks' = {}
        /\ starting' = starting /\ refused' = refused
    BY <1>3 DEF Timers!CancelAllTasks
  <2>2. tasks \in SUBSET Ids
    BY <1>1 DEF TimersTyped
  <2>3. \A j \in tasks : task[j].kind # "none" /\ \A k \in DOMAIN starting : starting[k] # j
    BY <1>1, <2>2 DEF Unmade, Starting
  <2> QED BY <2>1, <2>2, <2>3, Cancels
<1> QED BY <1>2, <1>3

LEMMA TimersStep == TimersInv /\ Timers!Next => TimersInv'
<1> SUFFICES ASSUME TimersInv, Timers!Next
             PROVE  TimersInv'
  OBVIOUS
<1>1. Timers!Repeating \union {"timeout"} = Kinds \ {"none"}
  BY DEF Timers!Repeating, Kinds
<1>2. CASE \E periodic \in BOOLEAN :
             \/ Timers!Refused(periodic)
             \/ \E i \in Ids, kind \in Kinds \ {"none"} :
                   Timers!Schedule(i, kind, periodic) \/ Timers!ScheduleNow(i, kind, periodic)
  BY <1>2, OnRefused, OnSchedule, OnScheduleNow
<1>3. CASE Timers!Registered
  BY <1>3, OnRegistered
<1>4. CASE \E i \in Ids : Timers!Fires(i) \/ Timers!CallbackSettles(i) \/ Timers!Cancel(i)
  BY <1>4, OnFires, OnCallbackSettles, OnCancels
<1>5. CASE Timers!CancelAllTasks
  <2>1. PICK i \in Ids : i \in tasks
    BY <1>5 DEF Timers!CancelAllTasks, TimersInv, TimersTyped
  <2> QED BY <1>5, OnCancels
<1> QED BY <1>1, <1>2, <1>3, <1>4, <1>5 DEF Timers!Next

LEMMA TimersReach == TimersInv => Timers!TimersReachable
<1> SUFFICES ASSUME TimersInv
             PROVE  Timers!TimersReachable
  OBVIOUS
<1>1. DOMAIN starting = 1 .. Len(starting)
  BY LenProperties DEF TimersInv, TimersTyped
<1> QED BY <1>1 DEF TimersInv, Armed, Timers!TimersReachable, Timers!Contains

\* maybeCleanup() has left no cancelled handle in a map that refuses a task: it
\* holds more than four fifths of what it may.
LEMMA RefusalsAreForLive ==
    TimersInv /\ Timers!SchedulerAssumption /\ Timers!Next /\ refused' # refused
      => Timers!RefusedForLive
<1> SUFFICES ASSUME TimersInv, Timers!SchedulerAssumption, Timers!Next, refused' # refused
             PROVE  Timers!RefusedForLive
  OBVIOUS
<1>1. PICK periodic \in BOOLEAN : Timers!Refused(periodic)
  BY DEF Timers!Next, Timers!Schedule, Timers!ScheduleNow, Timers!Registered, Timers!Fires,
         Timers!CallbackSettles, Timers!Cancel, Timers!CancelAllTasks
<1>2. /\ tasks' = Timers!Cleaned(periodic) /\ Timers!Cardinality(tasks') >= MaxTasks
      /\ task' = task
  BY <1>1 DEF Timers!Refused
<1>3. MaxTasks \in Nat /\ IsFiniteSet(Ids)
  BY DEF Timers!SchedulerAssumption, Timers!IsFiniteSet, IsFiniteSet
<1>4. PICK n \in Nat : n = Timers!Cardinality(tasks) /\ (n = 0 => tasks = {})
  <2>1. IsFiniteSet(tasks)
    BY <1>3, FS_Subset DEF TimersInv, TimersTyped
  <2>2. Cardinality(tasks) \in Nat /\ (Cardinality(tasks) = 0 => tasks = {})
    BY <2>1, FS_CardinalityType, FS_EmptySet
  <2>3. Cardinality(tasks) = Timers!Cardinality(tasks)
    BY DEF Cardinality, Timers!Cardinality
  <2> QED BY <2>2, <2>3
<1>5. CASE periodic \/ 5 * n > 4 * MaxTasks
  <2>1. tasks' = {i \in tasks : ~task[i].canceled}
    BY <1>2, <1>4, <1>5 DEF Timers!Cleaned
  <2> QED BY <1>2, <2>1 DEF Timers!RefusedForLive
<1>6. CASE ~periodic /\ ~(5 * n > 4 * MaxTasks)
  <2>1. tasks' = tasks
    BY <1>2, <1>4, <1>6 DEF Timers!Cleaned
  <2>2. n >= MaxTasks
    BY <1>2, <1>4, <2>1
  <2>3. n = 0
    BY <1>3, <1>6, <2>2
  <2> QED BY <1>4, <2>1, <2>3 DEF Timers!RefusedForLive
<1> QED BY <1>5, <1>6

-----------------------------------------------------------------------------
(* Queues *)

LEMMA JobsInit == Jobs!Init => JobsInv
<1> SUFFICES ASSUME Jobs!Init
             PROVE  JobsInv
  OBVIOUS
<1>1. /\ owned \in BOOLEAN /\ shared = 0 /\ clients = 0 /\ connected = {}
      /\ entries = {} /\ open = {} /\ raced = FALSE
      /\ shutdown = [c \in Shutdowns |-> [at |-> "idle", waits |-> {}, client |-> 0]]
  BY DEF Jobs!Init
<1>2. JobsTyped
  BY <1>1 DEF JobsTyped, Closings
<1>3. Brought
  BY <1>1 DEF Brought
<1>4. Reached
  BY <1>1 DEF Reached
<1> QED BY <1>2, <1>3, <1>4 DEF JobsInv

\* The fields of a close() call after a change.
LEMMA ShutdownChanged ==
    ASSUME JobsTyped, NEW c \in Shutdowns, NEW call \in Closings,
           shutdown' = [shutdown EXCEPT ![c] = call]
    PROVE  /\ shutdown'[c] = call
           /\ \A d \in Shutdowns : d # c => shutdown'[d] = shutdown[d]
           /\ shutdown' \in [Shutdowns -> Closings]
  BY DEF JobsTyped

\* Connection(): the shared client is there, and is the only one connected if it was.
LEMMA Connects ==
    ASSUME JobsTyped, Brought, Jobs!Connection
    PROVE  /\ shared' \in Nat \ {0} /\ clients' \in Nat /\ connected' \subseteq Nat \ {0}
           /\ ~owned => clients' \in {0, 1} /\ connected' = 1 .. clients'
           /\ owned /\ connected \subseteq {shared} => connected' \subseteq {shared'}
<1>1. CASE shared # 0
  BY <1>1 DEF Jobs!Connection, JobsTyped, Brought
<1>2. CASE shared = 0 /\ owned
  <2>1. /\ clients' = clients + 1 /\ shared' = clients + 1
        /\ connected' = connected \union {clients + 1}
    BY <1>2 DEF Jobs!Connection
  <2>2. clients \in Nat /\ connected \subseteq Nat \ {0}
    BY DEF JobsTyped
  <2>3. connected \subseteq {shared} => connected = {}
    BY <1>2, <2>2
  <2> QED BY <1>2, <2>1, <2>2, <2>3
<1>3. CASE shared = 0 /\ ~owned
  <2>1. clients' = 1 /\ shared' = 1 /\ connected' = connected \union {1}
    BY <1>3 DEF Jobs!Connection
  <2>2. clients \in {0, 1} /\ connected = 1 .. clients
    BY <1>3 DEF Brought
  <2>3. connected' = 1 .. 1
    BY <2>1, <2>2
  <2> QED BY <1>3, <2>1, <2>3
<1> QED BY <1>1, <1>2, <1>3 DEF JobsTyped

LEMMA OnMake == ASSUME JobsInv, NEW x \in Jobs!Made, Jobs!Make(x) PROVE JobsInv'
<1>1. JobsTyped /\ Brought /\ Reached
  BY DEF JobsInv
<1>2. /\ Jobs!Connection /\ entries' = entries \union {x} /\ open' = open \union {x}
      /\ raced' = (raced \/ \E c \in Shutdowns : Jobs!Closing(c))
      /\ owned' = owned /\ shutdown' = shutdown
  BY DEF Jobs!Make
<1>3. /\ shared' \in Nat /\ clients' \in Nat /\ connected' \subseteq Nat \ {0}
      /\ ~owned => clients' \in {0, 1} /\ connected' = 1 .. clients'
      /\ owned /\ connected \subseteq {shared} => connected' \subseteq {shared'}
  BY <1>1, <1>2, Connects
<1>4. raced' \in BOOLEAN
  BY <1>2
<1>5. JobsTyped'
  BY <1>1, <1>2, <1>3, <1>4 DEF JobsTyped
<1>6. Brought'
  BY <1>2, <1>3 DEF Brought
<1>7. ASSUME ~raced'
      PROVE  /\ open' \subseteq entries'
             /\ owned' => connected' \subseteq {shared'}
             /\ \A c \in Shutdowns : shutdown'[c].at \notin {"worker", "queue", "quit"}
  <2>1. ~raced /\ \A c \in Shutdowns : ~Jobs!Closing(c)
    BY <1>2, <1>7
  <2> QED BY <1>1, <1>2, <1>3, <2>1 DEF Reached, Jobs!Closing
<1>8. Reached'
  BY <1>7 DEF Reached
<1> QED BY <1>5, <1>6, <1>8 DEF JobsInv

LEMMA OnClose == ASSUME JobsInv, NEW c \in Shutdowns, Jobs!Close(c) PROVE JobsInv'
<1>1. JobsTyped /\ Brought /\ Reached
  BY DEF JobsInv
<1>2. /\ shutdown' = [shutdown EXCEPT ![c] = [at |-> "worker", waits |-> Jobs!OfMap("worker"),
                                              client |-> 0]]
      /\ UNCHANGED <<owned, shared, clients, connected, entries, open, raced>>
  BY DEF Jobs!Close
<1>c. PICK call : call = [at |-> "worker", waits |-> Jobs!OfMap("worker"), client |-> 0]
  OBVIOUS
<1>d. call \in Closings
  BY <1>1, <1>c DEF Closings, Jobs!OfMap, JobsTyped
<1>3. /\ shutdown'[c].at = "worker" /\ shutdown'[c].waits = Jobs!OfMap("worker")
      /\ \A d \in Shutdowns : d # c => shutdown'[d] = shutdown[d]
      /\ shutdown' \in [Shutdowns -> Closings]
  BY <1>1, <1>2, <1>c, <1>d, ShutdownChanged
<1>4. JobsTyped'
  BY <1>1, <1>2, <1>3 DEF JobsTyped
<1>5. Brought'
  BY <1>1, <1>2 DEF Brought
<1>6. Reached'
  <2>1. ASSUME ~raced, NEW d \in Shutdowns
        PROVE  /\ shutdown'[d].at = "worker" =>
                     \A x \in open : x.kind = "worker" => x \in shutdown'[d].waits
               /\ shutdown'[d].at = "queue" =>
                     \A x \in open : x.kind = "queue" /\ x \in shutdown'[d].waits
               /\ shutdown'[d].at = "quit" =>
                     open = {} /\ connected \subseteq {shutdown'[d].client}
    <3>1. CASE d = c
      BY <1>1, <1>3, <2>1, <3>1 DEF Reached, Jobs!OfMap
    <3>2. CASE d # c
      <4>1. shutdown'[d] = shutdown[d]
        BY <1>3, <3>2
      <4> QED BY <1>1, <2>1, <4>1 DEF Reached
    <3> QED BY <3>1, <3>2
  <2>2. ~raced => open \subseteq entries /\ (owned => connected \subseteq {shared})
    BY <1>1 DEF Reached
  <2> QED BY <1>2, <2>1, <2>2 DEF Reached
<1> QED BY <1>4, <1>5, <1>6 DEF JobsInv

LEMMA OnClosed == ASSUME JobsInv, NEW x \in Jobs!Made, Jobs!Closed(x) PROVE JobsInv'
<1>1. JobsTyped /\ Brought /\ Reached
  BY DEF JobsInv
<1>2. /\ open' = open \ {x}
      /\ shutdown' = [c \in Shutdowns |-> [shutdown[c] EXCEPT !.waits = @ \ {x}]]
      /\ UNCHANGED <<owned, shared, clients, connected, entries, raced>>
  BY DEF Jobs!Closed
<1>3. ASSUME NEW c \in Shutdowns
      PROVE  /\ shutdown'[c] \in Closings
             /\ shutdown'[c].at = shutdown[c].at
             /\ shutdown'[c].waits = shutdown[c].waits \ {x}
             /\ shutdown'[c].client = shutdown[c].client
  <2>1. shutdown[c] \in Closings
    BY <1>1 DEF JobsTyped
  <2>2. PICK w \in SUBSET Jobs!Made : w = shutdown[c].waits \ {x}
    BY <2>1 DEF Closings
  <2>3. shutdown'[c] = [shutdown[c] EXCEPT !.waits = w]
    BY <1>2, <2>2
  <2> QED BY <2>1, <2>2, <2>3 DEF Closings
<1>5. \A c \in Shutdowns : /\ shutdown'[c].at = shutdown[c].at
                           /\ shutdown'[c].waits = shutdown[c].waits \ {x}
                           /\ shutdown'[c].client = shutdown[c].client
  BY <1>3
<1>6. shutdown' \in [Shutdowns -> Closings]
  <2>1. shutdown' = [d \in Shutdowns |-> shutdown'[d]]
    BY <1>2
  <2> QED BY <1>3, <2>1
<1>7. JobsTyped'
  BY <1>1, <1>2, <1>5, <1>6 DEF JobsTyped
<1>8. Brought'
  BY <1>1, <1>2 DEF Brought
<1>9. Reached'
  BY <1>1, <1>2, <1>5 DEF Reached
<1> QED BY <1>7, <1>8, <1>9 DEF JobsInv

LEMMA OnCloseFails == ASSUME JobsInv, NEW x \in Jobs!Made, Jobs!CloseFails(x) PROVE JobsInv'
<1>1. JobsTyped /\ Brought /\ Reached
  BY DEF JobsInv
<1>2. /\ shutdown' = [c \in Shutdowns |->
            IF x \in shutdown[c].waits
            THEN [shutdown[c] EXCEPT !.at = "rejected", !.waits = @ \ {x}] ELSE shutdown[c]]
      /\ UNCHANGED <<owned, shared, clients, connected, entries, open, raced>>
  BY DEF Jobs!CloseFails
<1>3. ASSUME NEW c \in Shutdowns
      PROVE  /\ shutdown'[c] \in Closings
             /\ shutdown'[c] = shutdown[c] \/ shutdown'[c].at = "rejected"
  <2>1. shutdown[c] \in Closings
    BY <1>1 DEF JobsTyped
  <2>2. PICK w \in SUBSET Jobs!Made : w = shutdown[c].waits \ {x}
    BY <2>1 DEF Closings
  <2>3. \/ shutdown'[c] = shutdown[c]
        \/ shutdown'[c] = [shutdown[c] EXCEPT !.at = "rejected", !.waits = w]
    BY <1>2, <2>2
  <2> QED BY <2>1, <2>2, <2>3 DEF Closings
<1>5. shutdown' \in [Shutdowns -> Closings]
  <2>1. shutdown' = [d \in Shutdowns |-> shutdown'[d]]
    BY <1>2
  <2> QED BY <1>3, <2>1
<1>6. \A c \in Shutdowns : shutdown'[c] = shutdown[c] \/ shutdown'[c].at = "rejected"
  BY <1>3
<1>7. JobsTyped'
  BY <1>1, <1>2, <1>5, <1>6 DEF JobsTyped
<1>8. Brought'
  BY <1>1, <1>2 DEF Brought
<1>9. Reached'
  BY <1>1, <1>2, <1>6 DEF Reached
<1> QED BY <1>7, <1>8, <1>9 DEF JobsInv

LEMMA OnWorkersClosed ==
    ASSUME JobsInv, NEW c \in Shutdowns, Jobs!WorkersClosed(c)
    PROVE  JobsInv'
<1>1. JobsTyped /\ Brought /\ Reached
  BY DEF JobsInv
<1>2. /\ shutdown[c].at = "worker" /\ shutdown[c].waits = {}
      /\ shutdown' = [shutdown EXCEPT ![c].at = "queue", ![c].waits = Jobs!OfMap("queue")]
      /\ UNCHANGED <<owned, shared, clients, connected, entries, open, raced>>
  BY DEF Jobs!WorkersClosed
<1>3. shutdown[c] \in Closings
  BY <1>1 DEF JobsTyped
<1>q. PICK w \in SUBSET Jobs!Made : w = Jobs!OfMap("queue")
  BY <1>1 DEF JobsTyped, Jobs!OfMap
<1>c. PICK call : call = [shutdown[c] EXCEPT !.at = "queue", !.waits = w]
  OBVIOUS
<1>d. call \in Closings /\ call.at = "queue" /\ call.waits = w
  BY <1>3, <1>c DEF Closings
<1>4. shutdown' = [shutdown EXCEPT ![c] = call]
  BY <1>1, <1>2, <1>3, <1>c, <1>q DEF JobsTyped, Closings
<1>5. /\ shutdown'[c].at = "queue" /\ shutdown'[c].waits = Jobs!OfMap("queue")
      /\ \A d \in Shutdowns : d # c => shutdown'[d] = shutdown[d]
      /\ shutdown' \in [Shutdowns -> Closings]
  BY <1>1, <1>4, <1>d, <1>q, ShutdownChanged
<1>6. JobsTyped'
  BY <1>1, <1>2, <1>5 DEF JobsTyped
<1>7. Brought'
  BY <1>1, <1>2 DEF Brought
<1>8. Reached'
  <2>1. ASSUME ~raced, NEW d \in Shutdowns
        PROVE  /\ shutdown'[d].at = "worker" =>
                     \A x \in open : x.kind = "worker" => x \in shutdown'[d].waits
               /\ shutdown'[d].at = "queue" =>
                     \A x \in open : x.kind = "queue" /\ x \in shutdown'[d].waits
               /\ shutdown'[d].at = "quit" =>
                     open = {} /\ connected \subseteq {shutdown'[d].client}
    <3>1. CASE d = c
      <4>1. \A x \in open : x.kind # "worker"
        BY <1>1, <1>2, <2>1 DEF Reached
      <4>2. \A x \in open : x \in entries /\ x.kind \in {"queue", "worker"}
        BY <1>1, <2>1 DEF Reached, JobsTyped, Jobs!Made
      <4> QED BY <1>5, <3>1, <4>1, <4>2 DEF Jobs!OfMap
    <3>2. CASE d # c
      <4>1. shutdown'[d] = shutdown[d]
        BY <1>5, <3>2
      <4> QED BY <1>1, <2>1, <4>1 DEF Reached
    <3> QED BY <3>1, <3>2
  <2>2. ~raced => open \subseteq entries /\ (owned => connected \subseteq {shared})
    BY <1>1 DEF Reached
  <2> QED BY <1>2, <2>1, <2>2 DEF Reached
<1> QED BY <1>6, <1>7, <1>8 DEF JobsInv

LEMMA OnQueuesClosed ==
    ASSUME JobsInv, NEW c \in Shutdowns, Jobs!QueuesClosed(c)
    PROVE  JobsInv'
<1>1. JobsTyped /\ Brought /\ Reached
  BY DEF JobsInv
<1>2. /\ shutdown[c].at = "queue" /\ shutdown[c].waits = {} /\ entries' = {}
      /\ UNCHANGED <<owned, clients, connected, open, raced>>
      /\ \/ /\ owned
            /\ shutdown' = [shutdown EXCEPT ![c].at = "quit", ![c].client = shared]
            /\ shared' = shared
         \/ /\ ~owned \/ shared = 0
            /\ shutdown' = [shutdown EXCEPT ![c].at = "done"]
            /\ shared' = 0
  BY DEF Jobs!QueuesClosed
<1>3. shutdown[c] \in Closings /\ shared \in Nat
  BY <1>1 DEF JobsTyped
<1>4. \E call \in Closings : /\ shutdown' = [shutdown EXCEPT ![c] = call]
                             /\ call.at \in {"quit", "done"}
                             /\ call.at = "quit" => owned /\ call.client = shared
  <2>1. CASE /\ owned
             /\ shutdown' = [shutdown EXCEPT ![c].at = "quit", ![c].client = shared]
    <3>1. PICK call : call = [shutdown[c] EXCEPT !.at = "quit", !.client = shared]
      OBVIOUS
    <3>2. call \in Closings /\ call.at = "quit" /\ call.client = shared
      BY <1>3, <3>1 DEF Closings
    <3>3. shutdown' = [shutdown EXCEPT ![c] = call]
      BY <1>1, <1>3, <2>1, <3>1 DEF JobsTyped, Closings
    <3> QED BY <2>1, <3>2, <3>3
  <2>2. CASE shutdown' = [shutdown EXCEPT ![c].at = "done"]
    <3>1. PICK call : call = [shutdown[c] EXCEPT !.at = "done"]
      OBVIOUS
    <3>2. call \in Closings /\ call.at = "done"
      BY <1>3, <3>1 DEF Closings
    <3>3. shutdown' = [shutdown EXCEPT ![c] = call]
      BY <1>1, <1>3, <2>2, <3>1 DEF JobsTyped, Closings
    <3> QED BY <3>2, <3>3
  <2> QED BY <1>2, <2>1, <2>2
<1>5. PICK call \in Closings : /\ shutdown' = [shutdown EXCEPT ![c] = call]
                               /\ call.at \in {"quit", "done"}
                               /\ call.at = "quit" => owned /\ call.client = shared
  BY <1>4
<1>e. shutdown' = [shutdown EXCEPT ![c] = call] /\ call \in Closings
  BY <1>5
<1>6. /\ shutdown'[c] = call
      /\ \A d \in Shutdowns : d # c => shutdown'[d] = shutdown[d]
      /\ shutdown' \in [Shutdowns -> Closings]
  BY <1>1, <1>e, ShutdownChanged
<1>7. shared' \in Nat
  BY <1>1, <1>2 DEF JobsTyped
<1>8. JobsTyped'
  BY <1>1, <1>2, <1>5, <1>6, <1>7 DEF JobsTyped
<1>9. Brought'
  BY <1>1, <1>2 DEF Brought
<1>10. ~raced => open = {}
  BY <1>1, <1>2 DEF Reached
<1>11. ~raced /\ owned => connected \subseteq {shared} /\ connected \subseteq {shared'}
  BY <1>1, <1>2 DEF Reached
<1>12. Reached'
  <2>1. ASSUME ~raced, NEW d \in Shutdowns, shutdown'[d].at = "quit"
        PROVE  connected \subseteq {shutdown'[d].client}
    <3>1. CASE d = c
      <4>1. call.at = "quit" /\ shutdown'[d].client = call.client
        BY <1>6, <2>1, <3>1
      <4>2. owned /\ call.client = shared
        BY <1>5, <4>1
      <4>3. connected \subseteq {shared}
        BY <1>11, <2>1, <4>2
      <4> QED BY <4>1, <4>2, <4>3
    <3>2. CASE d # c
      <4>1. shutdown'[d] = shutdown[d]
        BY <1>6, <3>2
      <4> QED BY <1>1, <2>1, <4>1 DEF Reached
    <3> QED BY <3>1, <3>2
  <2> QED BY <1>2, <1>10, <1>11, <2>1 DEF Reached
<1> QED BY <1>8, <1>9, <1>12 DEF JobsInv

LEMMA OnQuit == ASSUME JobsInv, NEW c \in Shutdowns, Jobs!Quit(c) PROVE JobsInv'
<1>1. JobsTyped /\ Brought /\ Reached
  BY DEF JobsInv
<1>2. /\ shutdown[c].at = "quit" /\ connected' = connected \ {shutdown[c].client} /\ shared' = 0
      /\ shutdown' = [shutdown EXCEPT ![c].at = "done"]
      /\ UNCHANGED <<owned, clients, entries, open, raced>>
  BY DEF Jobs!Quit
<1>3. shutdown[c] \in Closings
  BY <1>1 DEF JobsTyped
<1>c. PICK call : call = [shutdown[c] EXCEPT !.at = "done"]
  OBVIOUS
<1>d. call \in Closings /\ call.at = "done"
  BY <1>3, <1>c DEF Closings
<1>4. shutdown' = [shutdown EXCEPT ![c] = call]
  BY <1>1, <1>2, <1>3, <1>c DEF JobsTyped, Closings
<1>5. /\ shutdown'[c].at = "done"
      /\ \A d \in Shutdowns : d # c => shutdown'[d] = shutdown[d]
      /\ shutdown' \in [Shutdowns -> Closings]
  BY <1>1, <1>4, <1>d, ShutdownChanged
<1>6. owned
  BY <1>1, <1>2 DEF JobsTyped
<1>7. JobsTyped'
  BY <1>1, <1>2, <1>5 DEF JobsTyped
<1>8. Brought'
  BY <1>2, <1>6 DEF Brought
<1>9. ~raced => open = {} /\ connected' = {}
  BY <1>1, <1>2 DEF Reached
<1>10. Reached'
  BY <1>1, <1>2, <1>5, <1>9 DEF Reached
<1> QED BY <1>7, <1>8, <1>10 DEF JobsInv

LEMMA JobsStep == JobsInv /\ Jobs!Next => JobsInv'
  BY OnMake, OnClose, OnClosed, OnCloseFails, OnWorkersClosed, OnQueuesClosed, OnQuit
     DEF Jobs!Next, Jobs!QueueProgress

LEMMA JobsReach == JobsInv => Jobs!QueuesReachable
  BY DEF JobsInv, Reached, Brought, Jobs!QueuesReachable

-----------------------------------------------------------------------------
(* Log buffer *)

\* Nothing is held.
LEMMA NoRecords ==
    /\ <<>> \in Seq(Records) /\ Len(<<>>) = 0
    /\ \A i \in 1 .. Len(<<>>) : FALSE
<1>1. Len(<<>>) = 0 /\ <<>> \in Seq(Records)
  OBVIOUS
<1>2. 1 .. 0 = {}
  OBVIOUS
<1> QED BY <1>1, <1>2

LEMMA LogsInit == Logs!LoggingAssumption /\ Logs!Init => LogsInv
<1> SUFFICES ASSUME Logs!LoggingAssumption, Logs!Init
             PROVE  LogsInv
  OBVIOUS
<1>1. logBuffer = <<>> /\ sent = 0 /\ attached = FALSE /\ broken = FALSE
  BY DEF Logs!Init
<1>2. 0 <= MaxBuffer
  BY DEF Logs!LoggingAssumption
<1>3. /\ \A i \in 1 .. Len(logBuffer) : logBuffer[i].id = sent - Len(logBuffer) + i
      /\ Len(logBuffer) = 0 /\ logBuffer \in Seq(Records)
  BY <1>1, NoRecords
<1>4. Len(logBuffer) <= MaxBuffer /\ Len(logBuffer) <= sent
  BY <1>1, <1>2, <1>3
<1> QED BY <1>1, <1>3, <1>4 DEF LogsInv

LEMMA OnLog ==
    ASSUME LogsInv, Logs!LoggingAssumption, NEW w \in Writers, Logs!Log(w)
    PROVE  LogsInv'
<1>1. /\ sent' = sent + 1 /\ UNCHANGED <<attached, broken>>
      /\ \/ /\ attached
            /\ logBuffer' = Logs!Buffered([id |-> sent + 1, by |-> w])
         \/ ~attached /\ logBuffer' = logBuffer
  BY DEF Logs!Log
<1>2. /\ sent \in Nat /\ logBuffer \in Seq(Records) /\ attached \in BOOLEAN /\ broken \in BOOLEAN
      /\ ~broken /\ ~attached => logBuffer = <<>>
      /\ ~broken => /\ \A i \in 1 .. Len(logBuffer) : logBuffer[i].id = sent - Len(logBuffer) + i
                    /\ Len(logBuffer) <= MaxBuffer /\ Len(logBuffer) <= sent
  BY DEF LogsInv
<1>3. CASE ~attached
  <2>1. logBuffer' = logBuffer
    BY <1>1, <1>3
  <2>2. ~broken => logBuffer = <<>> /\ Len(logBuffer) = 0
    BY <1>2, <1>3
  <2> QED BY <1>1, <1>2, <1>3, <2>1, <2>2 DEF LogsInv, Logs!LoggingAssumption
<1>4. CASE attached
  <2>1. PICK r : r = [id |-> sent + 1, by |-> w]
    OBVIOUS
  <2>2. r \in Records /\ r.id = sent + 1
    BY <1>2, <2>1 DEF Records
  <2>3. PICK n \in Nat : n = Len(logBuffer)
    BY <1>2, LenProperties
  <2>4. PICK kept \in Seq(Records) :
            /\ logBuffer' = Append(kept, r)
            /\ \/ /\ n < MaxBuffer /\ kept = logBuffer
               \/ /\ n >= MaxBuffer /\ Len(kept) = n - 1
                  /\ \A i \in 1 .. n - 1 : kept[i] = logBuffer[i + 1]
    <3>1. CASE n >= MaxBuffer
      <4>1. logBuffer' = Append(Tail(logBuffer), r)
        BY <1>1, <1>4, <2>1, <2>3, <3>1 DEF Logs!Buffered, Logs!Full
      <4>2. logBuffer # <<>>
        BY <2>3, <3>1 DEF Logs!LoggingAssumption
      <4>3. /\ Tail(logBuffer) \in Seq(Records) /\ Len(Tail(logBuffer)) = n - 1
            /\ \A i \in 1 .. n - 1 : Tail(logBuffer)[i] = logBuffer[i + 1]
        BY <1>2, <2>3, <4>2, HeadTailProperties
      <4> QED BY <3>1, <4>1, <4>3
    <3>2. CASE ~(n >= MaxBuffer)
      <4>1. logBuffer' = Append(logBuffer, r)
        BY <1>1, <1>4, <2>1, <2>3, <3>2 DEF Logs!Buffered, Logs!Full
      <4>2. n < MaxBuffer
        BY <3>2 DEF Logs!LoggingAssumption
      <4> QED BY <1>2, <4>1, <4>2
    <3> QED BY <3>1, <3>2
  <2>5. PICK k \in Nat : k = Len(kept)
    BY LenProperties
  <2>6. /\ logBuffer' \in Seq(Records) /\ Len(logBuffer') = k + 1
        /\ \A i \in 1 .. k : logBuffer'[i] = kept[i]
        /\ logBuffer'[k + 1] = r
    BY <2>2, <2>4, <2>5, AppendProperties
  <2>7. MaxBuffer \in Nat \ {0}
    BY DEF Logs!LoggingAssumption
  <2>8. ASSUME ~broken
        PROVE  /\ k + 1 <= MaxBuffer /\ k + 1 <= sent + 1
               /\ \A i \in 1 .. k : kept[i].id = sent - k + i
    <3>0. /\ \A i \in 1 .. n : logBuffer[i].id = sent - n + i
          /\ n <= MaxBuffer /\ n <= sent
      BY <1>2, <2>3, <2>8
    <3>1. CASE n < MaxBuffer /\ kept = logBuffer
      <4>1. k = n
        BY <2>3, <2>5, <3>1
      <4> QED BY <1>2, <2>7, <3>0, <3>1, <4>1
    <3>2. CASE /\ n >= MaxBuffer /\ Len(kept) = n - 1
               /\ \A i \in 1 .. n - 1 : kept[i] = logBuffer[i + 1]
      <4>1. k = n - 1
        BY <2>5, <3>2
      <4>2. ASSUME NEW i \in 1 .. k
            PROVE  kept[i].id = sent - k + i
        <5>1. i \in 1 .. n - 1 /\ i + 1 \in 1 .. n
          BY <4>1
        <5>2. kept[i] = logBuffer[i + 1] /\ logBuffer[i + 1].id = sent - n + (i + 1)
          BY <3>0, <3>2, <5>1
        <5> QED BY <1>2, <4>1, <5>2
      <4> QED BY <1>2, <2>7, <3>0, <3>2, <4>1, <4>2
    <3> QED BY <2>4, <3>1, <3>2
  <2>9. ASSUME ~broken, NEW i \in 1 .. k + 1
        PROVE  logBuffer'[i].id = (sent + 1) - (k + 1) + i
    <3>1. CASE i = k + 1
      <4>1. logBuffer'[i].id = sent + 1
        BY <2>2, <2>6, <3>1
      <4>2. sent + 1 = (sent + 1) - (k + 1) + i
        BY <1>2, <3>1
      <4> QED BY <4>1, <4>2
    <3>2. CASE i # k + 1
      <4>1. i \in 1 .. k
        BY <3>2
      <4>2. kept[i].id = sent - k + i
        BY <2>8, <2>9, <4>1
      <4>3. logBuffer'[i] = kept[i]
        BY <2>6, <4>1
      <4>4. sent - k + i = (sent + 1) - (k + 1) + i
        BY <1>2, <4>1
      <4> QED BY <4>2, <4>3, <4>4
    <3> QED BY <3>1, <3>2
  <2>10. sent' = sent + 1 /\ sent' \in Nat /\ attached' = attached /\ broken' = broken
    BY <1>1, <1>2
  <2>11. ~broken' =>
            /\ \A i \in 1 .. Len(logBuffer') : logBuffer'[i].id = sent' - Len(logBuffer') + i
            /\ Len(logBuffer') <= MaxBuffer /\ Len(logBuffer') <= sent'
    BY <2>6, <2>8, <2>9, <2>10
  <2> QED BY <1>2, <1>4, <2>6, <2>10, <2>11 DEF LogsInv
<1> QED BY <1>2, <1>3, <1>4

LEMMA LogsStep == LogsInv /\ Logs!LoggingAssumption /\ Logs!Next => LogsInv'
<1> SUFFICES ASSUME LogsInv, Logs!LoggingAssumption, Logs!Next
             PROVE  LogsInv'
  OBVIOUS
<1>1. CASE \E w \in Writers : Logs!Log(w)
  BY <1>1, OnLog
<1>2. CASE Logs!AttachBuffer
  BY <1>2 DEF Logs!AttachBuffer, LogsInv
<1>a. 0 <= MaxBuffer /\ sent \in Nat /\ 0 <= sent
  BY DEF Logs!LoggingAssumption, LogsInv
<1>3. CASE Logs!DetachBuffer
  BY <1>3, <1>a, NoRecords DEF Logs!DetachBuffer, LogsInv
<1>4. CASE Logs!Flush
  BY <1>4, <1>a, NoRecords DEF Logs!Flush, LogsInv
<1>5. CASE \E k \in 1 .. MaxBuffer : Logs!FlushThrows(k)
  BY <1>5 DEF Logs!FlushThrows, LogsInv
<1>6. CASE \E r \in Replacements : Logs!OverrideLogger(r)
  BY <1>6 DEF Logs!OverrideLogger, LogsInv
<1> QED BY <1>1, <1>2, <1>3, <1>4, <1>5, <1>6 DEF Logs!Next

LEMMA LogsKeep == LogsInv => Logs!BufferKeeps
<1> SUFFICES ASSUME LogsInv
             PROVE  Logs!BufferKeeps
  OBVIOUS
<1>1. DOMAIN logBuffer = 1 .. Len(logBuffer)
  BY LenProperties DEF LogsInv
<1> QED BY <1>1 DEF LogsInv, Logs!BufferKeeps

-----------------------------------------------------------------------------
(* The cache: sequences without repetition *)

LEMMA RemovePlaces ==
    ASSUME NEW S, NEW s \in Seq(S), NEW p \in 1 .. Len(s)
    PROVE  /\ Cache!RemoveAt(s, p) \in Seq(S) /\ Len(Cache!RemoveAt(s, p)) = Len(s) - 1
           /\ \A i \in 1 .. Len(s) - 1 :
                 Cache!RemoveAt(s, p)[i] = IF i < p THEN s[i] ELSE s[i + 1]
<1>1. PICK n \in Nat : n = Len(s)
  BY LenProperties
<1>2. PICK a : a = SubSeq(s, 1, p - 1)
  OBVIOUS
<1>3. PICK b : b = SubSeq(s, p + 1, n)
  OBVIOUS
<1>4. /\ a \in Seq(S) /\ Len(a) = p - 1
      /\ \A i \in 1 .. p - 1 : a[i] = s[i]
  <2>1. p - 1 \in 0 .. n
    BY <1>1
  <2>2. \A i \in 1 .. p - 1 : 1 + i - 1 = i
    BY <1>1
  <2> QED BY <1>1, <1>2, <2>1, <2>2, SubSeqProperties
<1>5. /\ b \in Seq(S) /\ Len(b) = n - p
      /\ \A i \in 1 .. n - p : b[i] = s[p + i]
  <2>1. p + 1 \in 1 .. n + 1 /\ p \in 1 .. n
    BY <1>1
  <2>2. \A i \in 1 .. n - p : (p + 1) + i - 1 = p + i
    BY <1>1
  <2> QED BY <1>1, <1>3, <2>1, <2>2, SubSeqProperties
<1>6. Cache!RemoveAt(s, p) = a \o b
  BY <1>1, <1>2, <1>3 DEF Cache!RemoveAt
<1>7. a \o b \in Seq(S) /\ Len(a \o b) = n - 1
  <2>1. a \o b \in Seq(S) /\ Len(a \o b) = Len(a) + Len(b)
    BY <1>4, <1>5, ConcatProperties
  <2>2. p \in Int /\ n \in Int
    BY <1>1
  <2>3. (p - 1) + (n - p) = n - 1
    BY <2>2
  <2> QED BY <1>4, <1>5, <2>1, <2>3
<1>8. ASSUME NEW i \in 1 .. n - 1
      PROVE  (a \o b)[i] = IF i < p THEN s[i] ELSE s[i + 1]
  <2>1. (a \o b)[i] = IF i <= p - 1 THEN a[i] ELSE b[i - (p - 1)]
    <3>1. i \in 1 .. Len(a) + Len(b)
      BY <1>1, <1>4, <1>5
    <3>2. a \in Seq(S) /\ b \in Seq(S) /\ Len(a) = p - 1
      BY <1>4, <1>5
    <3>3. (a \o b)[i] = IF i <= Len(a) THEN a[i] ELSE b[i - Len(a)]
      BY <3>1, <3>2, ConcatProperties
    <3> QED BY <3>2, <3>3
  <2>2. CASE i < p
    BY <1>1, <1>4, <2>1, <2>2
  <2>3. CASE i >= p
    <3>1. i - (p - 1) \in 1 .. n - p /\ p + (i - (p - 1)) = i + 1
      BY <1>1, <2>3
    <3> QED BY <1>1, <1>5, <2>1, <2>3, <3>1
  <2>4. i < p \/ i >= p
    BY <1>1
  <2> QED BY <2>2, <2>3, <2>4
<1> QED BY <1>1, <1>6, <1>7, <1>8

\* delete() of a Map: the key's place is closed up, or there is none.
LEMMA WithoutPlaces ==
    ASSUME NEW S, NEW s \in Seq(S), Once(s), NEW k
    PROVE  \/ /\ \A i \in 1 .. Len(s) : s[i] # k
              /\ Cache!Without(s, k) = s
           \/ \E p \in 1 .. Len(s) :
                 /\ s[p] = k
                 /\ Cache!Without(s, k) \in Seq(S) /\ Len(Cache!Without(s, k)) = Len(s) - 1
                 /\ \A i \in 1 .. Len(s) - 1 :
                       Cache!Without(s, k)[i] = IF i < p THEN s[i] ELSE s[i + 1]
<1>1. DOMAIN s = 1 .. Len(s)
  BY LenProperties
<1>2. CASE \A i \in 1 .. Len(s) : s[i] # k
  BY <1>2 DEF Cache!Without, Cache!Contains
<1>3. CASE \E i \in 1 .. Len(s) : s[i] = k
  <2>1. PICK p \in 1 .. Len(s) : p = Cache!Position(s, k) /\ s[p] = k
    BY <1>1, <1>3 DEF Cache!Position
  <2>2. Cache!Without(s, k) = Cache!RemoveAt(s, p)
    BY <1>3, <2>1 DEF Cache!Without, Cache!Contains
  <2> QED BY <2>1, <2>2, RemovePlaces
<1> QED BY <1>2, <1>3

\* What is left, and what a use of k makes of it.
LEMMA WithoutKeeps ==
    ASSUME NEW S, NEW s \in Seq(S), Once(s), NEW k
    PROVE  /\ Cache!Without(s, k) \in Seq(S) /\ Once(Cache!Without(s, k))
           /\ Len(Cache!Without(s, k)) <= Len(s)
           /\ \A x : Cache!Contains(Cache!Without(s, k), x) <=> Cache!Contains(s, x) /\ x # k
<1>1. DOMAIN s = 1 .. Len(s) /\ Len(s) \in Nat
  BY LenProperties
<1>2. CASE Cache!Without(s, k) = s /\ \A i \in 1 .. Len(s) : s[i] # k
  BY <1>1, <1>2 DEF Cache!Contains
<1>3. ASSUME NEW p \in 1 .. Len(s), s[p] = k,
             Cache!Without(s, k) \in Seq(S), Len(Cache!Without(s, k)) = Len(s) - 1,
             \A i \in 1 .. Len(s) - 1 :
                Cache!Without(s, k)[i] = IF i < p THEN s[i] ELSE s[i + 1]
      PROVE  /\ Once(Cache!Without(s, k))
             /\ \A x : Cache!Contains(Cache!Without(s, k), x) <=> Cache!Contains(s, x) /\ x # k
  <2>1. PICK w : w = Cache!Without(s, k)
    OBVIOUS
  <2>2. PICK n \in Nat : n = Len(s)
    BY <1>1
  <2>3. /\ w \in Seq(S) /\ Len(w) = n - 1 /\ DOMAIN w = 1 .. n - 1
        /\ \A i \in 1 .. n - 1 : w[i] = IF i < p THEN s[i] ELSE s[i + 1]
    BY <1>3, <2>1, <2>2, LenProperties
  <2>4. \A i, j \in 1 .. n : s[i] = s[j] => i = j
    BY <1>1, <2>2 DEF Once
  <2>5. Once(w)
    <3>1. SUFFICES ASSUME NEW i \in 1 .. n - 1, NEW j \in 1 .. n - 1, w[i] = w[j]
                   PROVE  i = j
      BY <2>3 DEF Once
    <3> QED BY <2>2, <2>3, <2>4, <3>1
  <2>6. ASSUME NEW x
        PROVE  Cache!Contains(w, x) <=> Cache!Contains(s, x) /\ x # k
    <3>1. ASSUME NEW i \in 1 .. n - 1
          PROVE  \E j \in 1 .. n : s[j] = w[i] /\ w[i] # k
      <4>1. CASE i < p
        BY <1>3, <2>2, <2>3, <2>4, <4>1
      <4>2. CASE i >= p
        <5>1. i + 1 \in 1 .. n /\ i + 1 # p /\ w[i] = s[i + 1]
          BY <2>2, <2>3, <4>2
        <5> QED BY <1>3, <2>2, <2>4, <5>1
      <4> QED BY <2>2, <4>1, <4>2
    <3>2. ASSUME NEW j \in 1 .. n, s[j] # k
          PROVE  \E i \in 1 .. n - 1 : w[i] = s[j]
      <4>1. j # p
        BY <1>3, <3>2
      <4>2. CASE j < p
        BY <2>2, <2>3, <4>2
      <4>3. CASE j > p
        <5>1. j - 1 \in 1 .. n - 1 /\ ~(j - 1 < p) /\ (j - 1) + 1 = j
          BY <2>2, <4>3
        <5>2. w[j - 1] = s[j]
          BY <2>3, <5>1
        <5> QED BY <5>1, <5>2
      <4> QED BY <2>2, <4>1, <4>2, <4>3
    <3>3. Cache!Contains(w, x) <=> \E i \in 1 .. n - 1 : w[i] = x
      BY <2>3 DEF Cache!Contains
    <3>4. Cache!Contains(s, x) <=> \E j \in 1 .. n : s[j] = x
      BY <1>1, <2>2 DEF Cache!Contains
    <3> QED BY <3>1, <3>2, <3>3, <3>4
  <2> QED BY <2>1, <2>5, <2>6
<1>4. CASE \E p \in 1 .. Len(s) :
              /\ s[p] = k
              /\ Cache!Without(s, k) \in Seq(S) /\ Len(Cache!Without(s, k)) = Len(s) - 1
              /\ \A i \in 1 .. Len(s) - 1 :
                    Cache!Without(s, k)[i] = IF i < p THEN s[i] ELSE s[i + 1]
  <2>1. PICK p \in 1 .. Len(s) :
              /\ s[p] = k
              /\ Cache!Without(s, k) \in Seq(S) /\ Len(Cache!Without(s, k)) = Len(s) - 1
              /\ \A i \in 1 .. Len(s) - 1 :
                    Cache!Without(s, k)[i] = IF i < p THEN s[i] ELSE s[i + 1]
    BY <1>4
  <2>2. /\ Once(Cache!Without(s, k))
        /\ \A x : Cache!Contains(Cache!Without(s, k), x) <=> Cache!Contains(s, x) /\ x # k
    BY <1>3, <2>1
  <2>3. Len(Cache!Without(s, k)) <= Len(s)
    BY <1>1, <2>1
  <2> QED BY <2>1, <2>2, <2>3
<1> QED BY <1>2, <1>4, WithoutPlaces

LEMMA TouchedKeeps ==
    ASSUME NEW S, NEW s \in Seq(S), Once(s), NEW k \in S
    PROVE  /\ Cache!Touched(s, k) \in Seq(S) /\ Once(Cache!Touched(s, k))
           /\ Len(Cache!Touched(s, k)) \in Nat \ {0}
           /\ Cache!Touched(s, k)[Len(Cache!Touched(s, k))] = k
           /\ \A x : Cache!Contains(Cache!Touched(s, k), x) <=> Cache!Contains(s, x) \/ x = k
           /\ Cache!Contains(s, k) => Len(Cache!Touched(s, k)) = Len(s)
           /\ Len(Cache!Touched(s, k)) <= Len(s) + 1
<1>1. PICK w : w = Cache!Without(s, k)
  OBVIOUS
<1>2. /\ w \in Seq(S) /\ Once(w) /\ Len(w) <= Len(s)
      /\ \A x : Cache!Contains(w, x) <=> Cache!Contains(s, x) /\ x # k
  BY <1>1, WithoutKeeps
<1>3. PICK n \in Nat : n = Len(w) /\ DOMAIN w = 1 .. n
  BY <1>2, LenProperties
<1>4. PICK t : t = Cache!Touched(s, k)
  OBVIOUS
<1>5. /\ t \in Seq(S) /\ Len(t) = n + 1 /\ DOMAIN t = 1 .. n + 1
      /\ \A i \in 1 .. n : t[i] = w[i]
      /\ t[n + 1] = k
  <2>1. t = Append(w, k)
    BY <1>1, <1>4 DEF Cache!Touched
  <2> QED BY <1>2, <1>3, <2>1, AppendProperties, LenProperties
<1>6. \A i \in 1 .. n : w[i] # k
  BY <1>2, <1>3 DEF Cache!Contains
<1>7. \A i \in 1 .. n + 1 : i = n + 1 \/ i \in 1 .. n
  OBVIOUS
<1>8. Once(t)
  <2>1. SUFFICES ASSUME NEW i \in 1 .. n + 1, NEW j \in 1 .. n + 1, t[i] = t[j]
                 PROVE  i = j
    BY <1>5 DEF Once
  <2>2. CASE i = n + 1 /\ j = n + 1
    BY <2>2
  <2>3. CASE i \in 1 .. n /\ j \in 1 .. n
    BY <1>2, <1>3, <1>5, <2>1, <2>3 DEF Once
  <2>4. CASE i \in 1 .. n /\ j = n + 1
    BY <1>5, <1>6, <2>1, <2>4
  <2>5. CASE i = n + 1 /\ j \in 1 .. n
    BY <1>5, <1>6, <2>1, <2>5
  <2> QED BY <1>7, <2>2, <2>3, <2>4, <2>5
<1>9. ASSUME NEW x
      PROVE  Cache!Contains(t, x) <=> Cache!Contains(s, x) \/ x = k
  <2>1. Cache!Contains(t, x) <=> Cache!Contains(w, x) \/ x = k
    <3>1. n + 1 \in 1 .. n + 1 /\ 1 .. n \subseteq 1 .. n + 1
      OBVIOUS
    <3> QED BY <1>3, <1>5, <1>7, <3>1 DEF Cache!Contains
  <2> QED BY <1>2, <2>1
<1>10. Len(s) \in Nat
  BY LenProperties
<1>11. Cache!Contains(s, k) => n = Len(s) - 1
  BY <1>1, <1>3, WithoutPlaces DEF Cache!Contains
<1> QED BY <1>2, <1>3, <1>4, <1>5, <1>8, <1>9, <1>10, <1>11

\* A use, and a deletion, of the same key in a sequence and in one it ends with.
LEMMA WithoutEnds ==
    ASSUME NEW S, NEW s \in Seq(S), NEW t \in Seq(S), Once(s), Once(t), EndsWith(s, t), NEW k
    PROVE  EndsWith(Cache!Without(s, k), Cache!Without(t, k))
<1>1. PICK m \in Nat : m = Len(s)
  BY LenProperties
<1>2. PICK n \in Nat : n = Len(t)
  BY LenProperties
<1>3. m <= n /\ \A i \in 1 .. m : s[i] = t[(n - m) + i]
  BY <1>1, <1>2 DEF EndsWith
<1>4. DOMAIN t = 1 .. n /\ \A i, j \in 1 .. n : t[i] = t[j] => i = j
  BY <1>2, LenProperties DEF Once
<1>5. PICK v : v = Cache!Without(s, k)
  OBVIOUS
<1>6. PICK w : w = Cache!Without(t, k)
  OBVIOUS
<1>7. \/ (\A i \in 1 .. m : s[i] # k) /\ v = s
      \/ \E p \in 1 .. m : /\ s[p] = k /\ Len(v) = m - 1
                           /\ \A i \in 1 .. m - 1 : v[i] = IF i < p THEN s[i] ELSE s[i + 1]
  BY <1>1, <1>5, WithoutPlaces
<1>8. \/ (\A i \in 1 .. n : t[i] # k) /\ w = t
      \/ \E p \in 1 .. n : /\ t[p] = k /\ Len(w) = n - 1
                           /\ \A i \in 1 .. n - 1 : w[i] = IF i < p THEN t[i] ELSE t[i + 1]
  <2>1. CASE (\A i \in 1 .. Len(t) : t[i] # k) /\ Cache!Without(t, k) = t
    BY <1>2, <1>6, <2>1
  <2>2. CASE \E p \in 1 .. Len(t) :
                /\ t[p] = k /\ Len(Cache!Without(t, k)) = Len(t) - 1
                /\ \A i \in 1 .. Len(t) - 1 :
                      Cache!Without(t, k)[i] = IF i < p THEN t[i] ELSE t[i + 1]
    BY <1>2, <1>6, <2>2
  <2>3. \/ (\A i \in 1 .. Len(t) : t[i] # k) /\ Cache!Without(t, k) = t
        \/ \E p \in 1 .. Len(t) :
              /\ t[p] = k /\ Len(Cache!Without(t, k)) = Len(t) - 1
              /\ \A i \in 1 .. Len(t) - 1 :
                    Cache!Without(t, k)[i] = IF i < p THEN t[i] ELSE t[i + 1]
    BY WithoutPlaces
  <2> QED BY <2>1, <2>2, <2>3
<1>9. CASE \E p \in 1 .. m : /\ s[p] = k /\ Len(v) = m - 1
                             /\ \A i \in 1 .. m - 1 : v[i] = IF i < p THEN s[i] ELSE s[i + 1]
  <2>1. PICK p \in 1 .. m : /\ s[p] = k /\ Len(v) = m - 1
                            /\ \A i \in 1 .. m - 1 : v[i] = IF i < p THEN s[i] ELSE s[i + 1]
    BY <1>9
  <2>2. (n - m) + p \in 1 .. n /\ t[(n - m) + p] = k
    BY <1>3, <2>1
  <2>3. PICK q \in 1 .. n : /\ t[q] = k /\ Len(w) = n - 1
                            /\ \A i \in 1 .. n - 1 : w[i] = IF i < q THEN t[i] ELSE t[i + 1]
    BY <1>8, <2>2
  <2>4. q = (n - m) + p
    BY <1>4, <2>2, <2>3
  <2>5. ASSUME NEW i \in 1 .. m - 1
        PROVE  v[i] = w[(n - m) + i]
    <3>1. (n - m) + i \in 1 .. n - 1
      BY <1>3
    <3>2. CASE i < p
      <4>1. v[i] = s[i] /\ w[(n - m) + i] = t[(n - m) + i]
        BY <1>3, <2>1, <2>3, <2>4, <3>1, <3>2
      <4> QED BY <1>3, <4>1
    <3>3. CASE i >= p
      <4>1. v[i] = s[i + 1] /\ w[(n - m) + i] = t[(n - m) + i + 1]
        BY <1>3, <2>1, <2>3, <2>4, <3>1, <3>3
      <4>2. i + 1 \in 1 .. m /\ (n - m) + i + 1 = (n - m) + (i + 1)
        BY <1>3
      <4> QED BY <1>3, <4>1, <4>2
    <3> QED BY <3>2, <3>3
  <2>6. Len(v) <= Len(w) /\ Len(w) - Len(v) = n - m /\ Len(v) = m - 1
    BY <1>3, <2>1, <2>3
  <2> QED BY <1>5, <1>6, <2>5, <2>6 DEF EndsWith
<1>10. CASE (\A i \in 1 .. m : s[i] # k) /\ v = s
  <2>1. CASE (\A i \in 1 .. n : t[i] # k) /\ w = t
    BY <1>5, <1>6, <1>10, <2>1
  <2>2. CASE \E p \in 1 .. n : /\ t[p] = k /\ Len(w) = n - 1
                               /\ \A i \in 1 .. n - 1 : w[i] = IF i < p THEN t[i] ELSE t[i + 1]
    <3>1. PICK q \in 1 .. n : /\ t[q] = k /\ Len(w) = n - 1
                              /\ \A i \in 1 .. n - 1 : w[i] = IF i < q THEN t[i] ELSE t[i + 1]
      BY <2>2
    <3>2. q <= n - m
      <4>1. SUFFICES ASSUME q > n - m
                     PROVE  FALSE
        BY <1>3
      <4>2. q - (n - m) \in 1 .. m /\ (n - m) + (q - (n - m)) = q
        BY <1>3, <4>1
      <4> QED BY <1>3, <1>10, <3>1, <4>2
    <3>3. ASSUME NEW i \in 1 .. m
          PROVE  s[i] = w[(n - 1 - m) + i]
      <4>1. /\ (n - 1 - m) + i \in 1 .. n - 1 /\ ~((n - 1 - m) + i < q)
            /\ (n - 1 - m) + i + 1 = (n - m) + i
        BY <1>3, <3>2
      <4>2. w[(n - 1 - m) + i] = t[(n - m) + i]
        BY <3>1, <4>1
      <4> QED BY <1>3, <4>2
    <3>4. Len(v) = m /\ Len(w) = n - 1 /\ m <= n - 1
      BY <1>1, <1>3, <1>10, <3>1, <3>2
    <3> QED BY <1>5, <1>6, <1>10, <3>3, <3>4 DEF EndsWith
  <2> QED BY <1>8, <2>1, <2>2
<1> QED BY <1>7, <1>9, <1>10

LEMMA TouchedEnds ==
    ASSUME NEW S, NEW s \in Seq(S), NEW t \in Seq(S), Once(s), Once(t), EndsWith(s, t), NEW k \in S
    PROVE  EndsWith(Cache!Touched(s, k), Cache!Touched(t, k))
<1>1. PICK v : v = Cache!Without(s, k)
  OBVIOUS
<1>2. PICK w : w = Cache!Without(t, k)
  OBVIOUS
<1>3. v \in Seq(S) /\ w \in Seq(S) /\ EndsWith(v, w)
  BY <1>1, <1>2, WithoutKeeps, WithoutEnds
<1>4. PICK m \in Nat : m = Len(v)
  BY <1>3, LenProperties
<1>5. PICK n \in Nat : n = Len(w)
  BY <1>3, LenProperties
<1>6. /\ Len(Append(v, k)) = m + 1 /\ Append(v, k)[m + 1] = k
      /\ \A i \in 1 .. m : Append(v, k)[i] = v[i]
  BY <1>3, <1>4, AppendProperties
<1>7. /\ Len(Append(w, k)) = n + 1 /\ Append(w, k)[n + 1] = k
      /\ \A i \in 1 .. n : Append(w, k)[i] = w[i]
  BY <1>3, <1>5, AppendProperties
<1>8. m <= n /\ \A i \in 1 .. m : v[i] = w[(n - m) + i]
  BY <1>3, <1>4, <1>5 DEF EndsWith
<1>9. ASSUME NEW i \in 1 .. m + 1
      PROVE  Append(v, k)[i] = Append(w, k)[((n + 1) - (m + 1)) + i]
  <2>1. CASE i = m + 1
    <3>1. ((n + 1) - (m + 1)) + i = n + 1
      BY <2>1
    <3> QED BY <1>6, <1>7, <2>1, <3>1
  <2>2. CASE i \in 1 .. m
    <3>1. ((n + 1) - (m + 1)) + i = (n - m) + i /\ (n - m) + i \in 1 .. n
      BY <1>8, <2>2
    <3> QED BY <1>6, <1>7, <1>8, <2>2, <3>1
  <2>3. i = m + 1 \/ i \in 1 .. m
    OBVIOUS
  <2> QED BY <2>1, <2>2, <2>3
<1>10. EndsWith(Append(v, k), Append(w, k))
  <2>1. m + 1 <= n + 1
    BY <1>8
  <2> QED BY <1>6, <1>7, <1>9, <2>1 DEF EndsWith
<1> QED BY <1>1, <1>2, <1>10 DEF Cache!Touched

\* What an eviction leaves of a map: all but its oldest key.
LEMMA TailKeeps ==
    ASSUME NEW S, NEW s \in Seq(S), Once(s), Len(s) > 1
    PROVE  /\ Tail(s) \in Seq(S) /\ Once(Tail(s)) /\ Len(Tail(s)) = Len(s) - 1
           /\ \A x : Cache!Contains(Tail(s), x) => Cache!Contains(s, x)
           /\ Cache!Contains(Tail(s), s[Len(s)])
           /\ \A T : \A t \in Seq(T) : EndsWith(s, t) => EndsWith(Tail(s), t)
<1>1. PICK n \in Nat : n = Len(s) /\ DOMAIN s = 1 .. n
  BY LenProperties
<1>2. n > 1 /\ s # <<>>
  BY <1>1, EmptySeq
<1>3. PICK u : u = Tail(s)
  OBVIOUS
<1>4. u \in Seq(S) /\ Len(u) = n - 1 /\ \A i \in 1 .. n - 1 : u[i] = s[i + 1]
  BY <1>1, <1>2, <1>3, HeadTailProperties
<1>5. DOMAIN u = 1 .. n - 1
  BY <1>4, LenProperties
<1>6. Once(u)
  <2>1. SUFFICES ASSUME NEW i \in 1 .. n - 1, NEW j \in 1 .. n - 1, u[i] = u[j]
                 PROVE  i = j
    BY <1>5 DEF Once
  <2>2. s[i + 1] = s[j + 1] /\ i + 1 \in 1 .. n /\ j + 1 \in 1 .. n
    BY <1>1, <1>4, <2>1
  <2>3. i + 1 = j + 1
    BY <1>1, <2>2 DEF Once
  <2> QED BY <2>3
<1>7. \A x : Cache!Contains(u, x) => Cache!Contains(s, x)
  <2>1. \A i \in 1 .. n - 1 : i + 1 \in 1 .. n
    BY <1>1
  <2> QED BY <1>1, <1>4, <1>5, <2>1 DEF Cache!Contains
<1>8. Cache!Contains(u, s[Len(s)])
  <2>1. n - 1 \in 1 .. n - 1 /\ (n - 1) + 1 = n
    BY <1>1, <1>2
  <2>2. u[n - 1] = s[n]
    BY <1>4, <2>1
  <2> QED BY <1>1, <1>4, <2>1, <2>2 DEF Cache!Contains
<1>9. ASSUME NEW T, NEW t \in Seq(T), EndsWith(s, t)
      PROVE  EndsWith(u, t)
  <2>1. PICK m \in Nat : m = Len(t)
    BY LenProperties
  <2>2. n <= m /\ \A i \in 1 .. n : s[i] = t[m - n + i]
    BY <1>1, <1>9, <2>1 DEF EndsWith
  <2>3. ASSUME NEW i \in 1 .. n - 1
        PROVE  u[i] = t[m - (n - 1) + i]
    <3>1. i + 1 \in 1 .. n /\ m - n + (i + 1) = m - (n - 1) + i
      BY <1>1, <2>1
    <3> QED BY <1>4, <2>2, <3>1
  <2>4. n - 1 <= m
    BY <2>2
  <2> QED BY <1>4, <2>1, <2>3, <2>4 DEF EndsWith
<1> QED BY <1>1, <1>3, <1>4, <1>6, <1>7, <1>8, <1>9

LEMMA CacheInit == ASSUME RuntimeAssumption, Cache!Init PROVE CacheInv
<1>1. lruSize \in Nat
  BY DEF RuntimeAssumption, Cache!StoresAssumption, Cache!Init
<1>2. /\ store = <<>> /\ used = <<>> /\ source = [k \in Cache!Keys |-> Cache!Nobody]
      /\ reading = [r \in Readers |-> Cache!Nobody]
  BY DEF Cache!Init
<1>3. <<>> \in Seq(StoreKeys) /\ Len(<<>>) = 0
  BY EmptySeq
<1>4. CacheTyped
  BY <1>1, <1>2, <1>3 DEF CacheTyped
<1>5. Recent
  <2>1. DOMAIN <<>> = {} /\ \A k \in DOMAIN <<>> : FALSE
    OBVIOUS
  <2>2. Once(<<>>)
    BY <2>1 DEF Once
  <2>3. EndsWith(<<>>, <<>>)
    BY <1>3 DEF EndsWith
  <2> QED BY <1>1, <1>2, <1>3, <2>2, <2>3 DEF Recent
<1>6. Cache!OwnEntries
  BY <1>2 DEF Cache!OwnEntries, Cache!Has, Cache!Contains
<1> QED BY <1>4, <1>5, <1>6 DEF CacheInv

\* A key that a request has is a key of the store; and whose request it is.
LEMMA Tracked ==
    ASSUME NEW v \in Visits, Cache!TrackBy(v) # Cache!Uncached
    PROVE  /\ Cache!TrackBy(v) \in StoreKeys /\ Cache!TrackBy(v) = v.clean
           /\ v.by = "key" \/ v.method = "GET"
<1>1. v.clean \in Cache!Keys
  BY DEF Cache!Keys
<1> QED BY <1>1 DEF Cache!TrackBy, Cache!IsRequestCacheable, StoreKeys

\* What a step that touches or deletes k makes of the order of use.
LEMMA CacheHit ==
    ASSUME CacheInv, NEW k, Cache!Has(k),
           store' = Cache!Touched(store, k), used' = Cache!Touched(used, k),
           UNCHANGED <<lruSize, source, reading>>
    PROVE  CacheInv'
<1>1. CacheTyped /\ Recent /\ Cache!OwnEntries
  BY DEF CacheInv
<1>2. store \in Seq(StoreKeys) /\ used \in Seq(StoreKeys) /\ lruSize \in Nat
  BY <1>1 DEF CacheTyped
<1>3. /\ Once(store) /\ Once(used) /\ EndsWith(store, used)
      /\ lruSize = 0 => store = used
      /\ lruSize > 0 => Len(store) <= lruSize
  BY <1>1 DEF Recent
<1>4. k \in StoreKeys
  <2>1. DOMAIN store = 1 .. Len(store)
    BY <1>2, LenProperties
  <2> QED BY <1>2, <2>1, ElementOfSeq DEF Cache!Has, Cache!Contains
<1>5. /\ store' \in Seq(StoreKeys) /\ Once(store') /\ Len(store') = Len(store)
      /\ \A x : Cache!Contains(store', x) <=> Cache!Contains(store, x)
  <2>1. Cache!Contains(store, k)
    BY DEF Cache!Has
  <2>2. /\ store' \in Seq(StoreKeys) /\ Once(store')
        /\ \A x : Cache!Contains(store', x) <=> Cache!Contains(store, x) \/ x = k
    BY <1>2, <1>3, <1>4, TouchedKeeps
  <2>3. Len(store') = Len(store)
    BY <1>2, <1>3, <1>4, <2>1, TouchedKeeps
  <2> QED BY <2>1, <2>2, <2>3
<1>6. used' \in Seq(StoreKeys) /\ Once(used')
  BY <1>2, <1>3, <1>4, TouchedKeeps
<1>7. EndsWith(store', used')
  BY <1>2, <1>3, <1>4, TouchedEnds
<1>8. CacheTyped'
  BY <1>1, <1>5, <1>6 DEF CacheTyped, Cache!TrackBy, Cache!IsRequestCacheable, StoreKeys,
     Cache!Keys, Cache!Nobody, Cache!Uncached
<1>9. Recent'
  BY <1>3, <1>5, <1>6, <1>7 DEF Recent
<1>10. Cache!OwnEntries'
  BY <1>1, <1>5 DEF Cache!OwnEntries, Cache!Has
<1> QED BY <1>8, <1>9, <1>10 DEF CacheInv

LEMMA CacheDelete == ASSUME CacheInv, NEW k, Cache!Delete(k) PROVE CacheInv'
<1>1. CacheTyped /\ Recent /\ Cache!OwnEntries
  BY DEF CacheInv
<1>2. store \in Seq(StoreKeys) /\ used \in Seq(StoreKeys) /\ lruSize \in Nat
  BY <1>1 DEF CacheTyped
<1>3. /\ Once(store) /\ Once(used) /\ EndsWith(store, used)
      /\ lruSize = 0 => store = used
      /\ lruSize > 0 => Len(store) <= lruSize
  BY <1>1 DEF Recent
<1>4. /\ store' = Cache!Without(store, k) /\ used' = Cache!Without(used, k)
      /\ source' = [source EXCEPT ![k] = Cache!Nobody]
      /\ lruSize' = lruSize /\ reading' = reading
  BY DEF Cache!Delete
<1>5. /\ store' \in Seq(StoreKeys) /\ Once(store') /\ Len(store') <= Len(store)
      /\ \A x : Cache!Contains(store', x) <=> Cache!Contains(store, x) /\ x # k
  BY <1>2, <1>3, <1>4, WithoutKeeps
<1>6. used' \in Seq(StoreKeys) /\ Once(used')
  BY <1>2, <1>3, <1>4, WithoutKeeps
<1>7. EndsWith(store', used')
  BY <1>2, <1>3, <1>4, WithoutEnds
<1>8. source' \in [Cache!Keys -> Visits \cup {Cache!Nobody}]
  BY <1>1, <1>4 DEF CacheTyped
<1>9. CacheTyped'
  BY <1>1, <1>4, <1>5, <1>6, <1>8 DEF CacheTyped
<1>10. Recent'
  <2>1. Len(store') \in Nat /\ Len(store) \in Nat
    BY <1>2, <1>5, LenProperties
  <2>2. lruSize > 0 => Len(store') <= lruSize
    BY <1>2, <1>3, <1>5, <2>1
  <2> QED BY <1>3, <1>4, <1>5, <1>6, <1>7, <2>2 DEF Recent
<1>11. Cache!OwnEntries'
  <2>1. \A x \in Cache!Keys : source'[x] = IF x = k THEN Cache!Nobody ELSE source[x]
    BY <1>1, <1>4 DEF CacheTyped
  <2> QED BY <1>1, <1>5, <2>1 DEF Cache!OwnEntries, Cache!Has
<1> QED BY <1>9, <1>10, <1>11 DEF CacheInv

LEMMA CacheStore == ASSUME CacheInv, NEW r \in Readers, Cache!Store(r) PROVE CacheInv'
<1>1. CacheTyped /\ Recent /\ Cache!OwnEntries
  BY DEF CacheInv
<1>2. store \in Seq(StoreKeys) /\ used \in Seq(StoreKeys) /\ lruSize \in Nat
  BY <1>1 DEF CacheTyped
<1>3. /\ Once(store) /\ Once(used) /\ EndsWith(store, used)
      /\ lruSize = 0 => store = used
      /\ lruSize > 0 => Len(store) <= lruSize
  BY <1>1 DEF Recent
<1>4. PICK v \in Visits : v = reading[r] /\ Cache!TrackBy(v) # Cache!Uncached
  BY <1>1 DEF Cache!Store, CacheTyped
<1>5. PICK k \in StoreKeys : /\ k = Cache!TrackBy(v) /\ k = v.clean
                             /\ v.by = "key" \/ v.method = "GET"
  BY <1>4, Tracked
<1>6. PICK u : u = Cache!Touched(store, k)
  OBVIOUS
<1>7. /\ store' = Cache!Evicted(u) /\ used' = Cache!Touched(used, k)
      /\ source' = [x \in Cache!Keys |-> IF x = k THEN v
                                         ELSE IF Cache!Contains(store', x) THEN source[x]
                                         ELSE Cache!Nobody]
      /\ reading' = [reading EXCEPT ![r] = Cache!Nobody]
      /\ lruSize' = lruSize
  BY <1>4, <1>5, <1>6 DEF Cache!Store
<1>8. /\ u \in Seq(StoreKeys) /\ Once(u) /\ u[Len(u)] = k
      /\ \A x : Cache!Contains(u, x) <=> Cache!Contains(store, x) \/ x = k
      /\ Len(u) \in Nat \ {0} /\ Len(u) <= Len(store) + 1
  BY <1>2, <1>3, <1>6, TouchedKeeps
<1>9. used' \in Seq(StoreKeys) /\ Once(used')
  BY <1>2, <1>3, <1>7, TouchedKeeps
<1>10. EndsWith(u, used')
  BY <1>2, <1>3, <1>6, <1>7, TouchedEnds
<1>11. Len(store) \in Nat
  BY <1>2, LenProperties
<1>12. /\ store' \in Seq(StoreKeys) /\ Once(store') /\ EndsWith(store', used')
       /\ \A x : Cache!Contains(store', x) => Cache!Contains(store, x) \/ x = k
       /\ Cache!Contains(store', k)
       /\ lruSize = 0 => store' = u
       /\ lruSize > 0 => Len(store') <= lruSize
  <2>1. CASE lruSize > 0 /\ Len(u) > lruSize
    <3>1. store' = Tail(u) /\ Len(u) > 1
      BY <1>2, <1>7, <1>8, <2>1 DEF Cache!Evicted
    <3>2. /\ store' \in Seq(StoreKeys) /\ Once(store') /\ Len(store') = Len(u) - 1
          /\ \A x : Cache!Contains(store', x) => Cache!Contains(u, x)
          /\ Cache!Contains(store', k)
          /\ EndsWith(store', used')
      BY <1>8, <1>9, <1>10, <3>1, TailKeeps
    <3>3. Len(store') <= lruSize /\ lruSize # 0
      BY <1>2, <1>3, <1>8, <1>11, <2>1, <3>2
    <3> QED BY <1>8, <3>2, <3>3
  <2>2. CASE ~(lruSize > 0 /\ Len(u) > lruSize)
    <3>1. store' = u
      BY <1>7, <2>2 DEF Cache!Evicted
    <3>2. Len(u) \in DOMAIN u
      BY <1>8, LenProperties
    <3>3. Cache!Contains(store', k)
      BY <1>8, <3>1, <3>2 DEF Cache!Contains
    <3>4. lruSize > 0 => Len(u) <= lruSize
      BY <1>2, <1>8, <2>2
    <3> QED BY <1>8, <1>10, <3>1, <3>3, <3>4
  <2> QED BY <2>1, <2>2
<1>13. source' \in [Cache!Keys -> Visits \cup {Cache!Nobody}]
  BY <1>1, <1>7 DEF CacheTyped
<1>14. CacheTyped'
  <2>1. reading' \in [Readers -> Visits \cup {Cache!Nobody}]
    BY <1>1, <1>7 DEF CacheTyped
  <2>2. \A q \in Readers : reading'[q] # Cache!Nobody => Cache!TrackBy(reading'[q]) # Cache!Uncached
    BY <1>1, <1>7 DEF CacheTyped
  <2> QED BY <1>2, <1>7, <1>9, <1>12, <1>13, <2>1, <2>2 DEF CacheTyped
<1>15. Recent'
  <2>1. lruSize = 0 => store' = used'
    BY <1>3, <1>6, <1>7, <1>12
  <2> QED BY <1>7, <1>9, <1>12, <2>1 DEF Recent
<1>16. Cache!OwnEntries'
  <2>1. SUFFICES ASSUME NEW x \in Cache!Keys
                 PROVE  IF Cache!Contains(store', x)
                        THEN /\ source'[x].clean = x
                             /\ source'[x].by = "key" \/ source'[x].method = "GET"
                        ELSE source'[x] = Cache!Nobody
    BY DEF Cache!OwnEntries, Cache!Has
  <2>2. CASE x = k
    BY <1>5, <1>7, <1>12, <2>2
  <2>3. CASE x # k /\ Cache!Contains(store', x)
    <3>1. source'[x] = source[x] /\ Cache!Contains(store, x)
      BY <1>7, <1>12, <2>3
    <3> QED BY <1>1, <2>3, <3>1 DEF Cache!OwnEntries, Cache!Has
  <2>4. CASE x # k /\ ~Cache!Contains(store', x)
    BY <1>7, <2>4
  <2> QED BY <2>2, <2>3, <2>4
<1> QED BY <1>14, <1>15, <1>16 DEF CacheInv

LEMMA CacheStep == ASSUME CacheInv, [Cache!Next]_lru PROVE CacheInv'
<1>1. CacheTyped /\ Recent /\ Cache!OwnEntries
  BY DEF CacheInv
<1>2. ASSUME NEW r \in Readers, NEW v \in Visits, Cache!Hit(r, v)
      PROVE  CacheInv'
  <2>1. PICK k : k = Cache!TrackBy(v)
    OBVIOUS
  <2>2. /\ Cache!Has(k) /\ store' = Cache!Touched(store, k) /\ used' = Cache!Touched(used, k)
        /\ UNCHANGED <<lruSize, source, reading>>
    BY <1>2, <2>1 DEF Cache!Hit
  <2> QED BY <2>2, CacheHit
<1>3. ASSUME UNCHANGED <<lruSize, store, source, used>>,
             reading' \in [Readers -> Visits \cup {Cache!Nobody}],
             \A r \in Readers : reading'[r] # Cache!Nobody =>
                                   Cache!TrackBy(reading'[r]) # Cache!Uncached
      PROVE  CacheInv'
  <2>1. CacheTyped'
    BY <1>1, <1>3 DEF CacheTyped
  <2>2. Recent'
    BY <1>1, <1>3 DEF Recent
  <2>3. Cache!OwnEntries'
    BY <1>1, <1>3 DEF Cache!OwnEntries, Cache!Has
  <2> QED BY <2>1, <2>2, <2>3 DEF CacheInv
<1>4. ASSUME NEW r \in Readers, NEW v \in Visits, Cache!Miss(r, v)
      PROVE  CacheInv'
  <2>1. /\ reading' = [reading EXCEPT ![r] = v] /\ Cache!TrackBy(v) # Cache!Uncached
        /\ UNCHANGED <<lruSize, store, source, used>>
    BY <1>4 DEF Cache!Miss
  <2>2. reading' \in [Readers -> Visits \cup {Cache!Nobody}]
    BY <1>1, <2>1 DEF CacheTyped
  <2>3. \A q \in Readers : reading'[q] # Cache!Nobody => Cache!TrackBy(reading'[q]) # Cache!Uncached
    BY <1>1, <2>1 DEF CacheTyped
  <2> QED BY <1>3, <2>1, <2>2, <2>3
<1>5. ASSUME NEW r \in Readers, Cache!NotStored(r)
      PROVE  CacheInv'
  <2>1. /\ reading' = [reading EXCEPT ![r] = Cache!Nobody]
        /\ UNCHANGED <<lruSize, store, source, used>>
    BY <1>5 DEF Cache!NotStored
  <2>2. reading' \in [Readers -> Visits \cup {Cache!Nobody}]
    BY <1>1, <2>1 DEF CacheTyped
  <2>3. \A q \in Readers : reading'[q] # Cache!Nobody => Cache!TrackBy(reading'[q]) # Cache!Uncached
    BY <1>1, <2>1 DEF CacheTyped
  <2> QED BY <1>3, <2>1, <2>2, <2>3
<1>6. ASSUME UNCHANGED <<lruSize, store, source, reading, used>>
      PROVE  CacheInv'
  BY <1>1, <1>3, <1>6 DEF CacheTyped
<1>7. ASSUME NEW r \in Readers, NEW v \in Visits, Cache!Bypass(r, v)
      PROVE  CacheInv'
  BY <1>6, <1>7 DEF Cache!Bypass
<1>8. CASE Cache!Next
  BY <1>2, <1>4, <1>5, <1>7, <1>8, CacheStore, CacheDelete DEF Cache!Next
<1>9. CASE UNCHANGED lru
  BY <1>6, <1>9 DEF lru
<1> QED BY <1>8, <1>9

\* The order of the places says what the reversed prefixes of the property do.
LEMMA EndIsSuffix ==
    ASSUME NEW S, NEW s \in Seq(S), NEW t \in Seq(S), EndsWith(s, t)
    PROVE  Cache!IsSuffix(s, t)
<1>1. PICK m \in Nat : m = Len(s)
  BY LenProperties
<1>2. PICK n \in Nat : n = Len(t)
  BY LenProperties
<1>3. m <= n /\ \A i \in 1 .. m : s[i] = t[n - m + i]
  BY <1>1, <1>2 DEF EndsWith
<1>4. PICK a : a = Cache!Reverse(s)
  OBVIOUS
<1>5. PICK b : b = Cache!Reverse(t)
  OBVIOUS
<1>6. a = [i \in 1 .. m |-> s[(m - i) + 1]] /\ b = [i \in 1 .. n |-> t[(n - i) + 1]]
  BY <1>1, <1>2, <1>4, <1>5 DEF Cache!Reverse
<1>7. /\ a \in Seq(S) /\ b \in Seq(S) /\ Len(a) = m /\ Len(b) = n
  <2>1. a \in [1 .. m -> S]
    <3>1. \A i \in 1 .. m : (m - i) + 1 \in 1 .. m
      OBVIOUS
    <3>2. \A i \in 1 .. m : s[i] \in S
      BY <1>1, ElementOfSeq
    <3> QED BY <1>6, <3>1, <3>2
  <2>2. b \in [1 .. n -> S]
    <3>1. \A i \in 1 .. n : (n - i) + 1 \in 1 .. n
      OBVIOUS
    <3>2. \A i \in 1 .. n : t[i] \in S
      BY <1>2, ElementOfSeq
    <3> QED BY <1>6, <3>1, <3>2
  <2>3. a \in Seq(S) /\ b \in Seq(S)
    BY <2>1, <2>2, SeqDef
  <2>4. DOMAIN a = 1 .. m /\ DOMAIN b = 1 .. n
    BY <1>6
  <2> QED BY <2>3, <2>4, LenProperties
<1>8. ASSUME NEW i \in 1 .. m
      PROVE  a[i] = b[i]
  <2>1. /\ (m - i) + 1 \in 1 .. m /\ i \in 1 .. n
        /\ n - m + ((m - i) + 1) = (n - i) + 1
    BY <1>3
  <2>2. a[i] = s[(m - i) + 1] /\ b[i] = t[(n - i) + 1]
    BY <1>6, <2>1
  <2> QED BY <1>3, <2>1, <2>2
<1>9. SubSeq(a, 1, m) = SubSeq(b, 1, m)
  <2>1. PICK c : c = SubSeq(a, 1, m)
    OBVIOUS
  <2>2. PICK d : d = SubSeq(b, 1, m)
    OBVIOUS
  <2>3. c \in Seq(S) /\ Len(c) = m /\ \A i \in 1 .. m : c[i] = a[i]
    <3>1. \A i \in 1 .. m : a[i] \in S
      BY <1>7, ElementOfSeq
    <3>2. \A i \in 1 .. m : 1 + i - 1 = i
      OBVIOUS
    <3>3. (IF 1 <= m THEN m - 1 + 1 ELSE 0) = m /\ m - 1 + 1 = m
      OBVIOUS
    <3> QED BY <2>1, <3>1, <3>2, <3>3, SubSeqProperties
  <2>4. d \in Seq(S) /\ Len(d) = m /\ \A i \in 1 .. m : d[i] = b[i]
    <3>1. \A i \in 1 .. m : b[i] \in S
      BY <1>3, <1>7, ElementOfSeq
    <3>2. \A i \in 1 .. m : 1 + i - 1 = i
      OBVIOUS
    <3>3. (IF 1 <= m THEN m - 1 + 1 ELSE 0) = m /\ m - 1 + 1 = m
      OBVIOUS
    <3> QED BY <2>2, <3>1, <3>2, <3>3, SubSeqProperties
  <2>5. c = d
    BY <1>8, <2>3, <2>4, SeqEqual
  <2> QED BY <2>1, <2>2, <2>5
<1> QED BY <1>3, <1>4, <1>5, <1>7, <1>9 DEF Cache!IsSuffix, Cache!IsPrefix

LEMMA CacheKeeps == CacheInv => Cache!KeepsRecent /\ Cache!OwnEntries
<1> SUFFICES ASSUME CacheInv
             PROVE  Cache!KeepsRecent /\ Cache!OwnEntries
  OBVIOUS
<1>1. CacheTyped /\ Recent /\ Cache!OwnEntries
  BY DEF CacheInv
<1>2. Cache!IsSuffix(store, used)
  BY <1>1, EndIsSuffix DEF CacheTyped, Recent
<1>3. IF lruSize = 0 THEN store = used ELSE Len(store) <= lruSize
  BY <1>1 DEF CacheTyped, Recent
<1> QED BY <1>1, <1>2, <1>3 DEF Cache!KeepsRecent

-----------------------------------------------------------------------------
(* The pipeline *)

\* The guards of a route are a sequence, which only some kinds of it may have.
LEMMA RouteGuards ==
    ASSUME RuntimeAssumption, HttpInv
    PROVE  /\ DOMAIN route.guards = 1 .. Len(route.guards) /\ Len(route.guards) \in Nat
           /\ route.kind \in {"message", "event"} => route.guards = <<>>
           /\ route.kind \in {"http", "ws", "message", "event", "graphql"}
<1>1. route \in Routes
  BY DEF HttpInv, HttpTyped
<1>2. /\ route.guards \in Seq({"single", "request", "new"})
      /\ route.kind \in {"message", "event"} => route.guards = <<>>
      /\ route.kind \in {"http", "ws", "message", "event", "graphql"}
  BY <1>1 DEF RuntimeAssumption, Http!PipelineAssumption
<1> QED BY <1>2, LenProperties

\* The requests of a request r that goes somewhere, hands something over, calls
\* something or is answered.
LEMMA Went ==
    ASSUME HttpTyped, NEW r \in Requests, NEW pc \in Pcs, NEW at \in Nat, Http!Go(r, pc, at)
    PROVE  \E q \in Reqs :
              /\ req' = [req EXCEPT ![r] = q] /\ q.pc = pc /\ q.at = at /\ q.by = req[r].by
              /\ q.log = req[r].log /\ q.files = req[r].files
<1>1. req \in [Requests -> Reqs] /\ req[r] \in Reqs
  BY DEF HttpTyped
<1>2. PICK q : q = [req[r] EXCEPT !.pc = pc, !.at = at]
  OBVIOUS
<1>3. q \in Reqs
  BY <1>1, <1>2 DEF Reqs
<1>4. req' = [req EXCEPT ![r] = q]
  BY <1>1, <1>2 DEF Http!Go
<1> QED BY <1>1, <1>2, <1>3, <1>4 DEF Reqs

LEMMA Handed ==
    ASSUME HttpTyped, NEW r \in Requests, NEW pc \in Pcs, NEW by \in Owners, Http!Hand(r, pc, by)
    PROVE  \E q \in Reqs :
              /\ req' = [req EXCEPT ![r] = q] /\ q.pc = pc /\ q.at = req[r].at /\ q.by = by
              /\ q.log = req[r].log /\ q.files = req[r].files
<1>1. req \in [Requests -> Reqs] /\ req[r] \in Reqs
  BY DEF HttpTyped
<1>2. PICK q : q = [req[r] EXCEPT !.pc = pc, !.by = by]
  OBVIOUS
<1>3. q \in Reqs
  BY <1>1, <1>2 DEF Reqs
<1>4. req' = [req EXCEPT ![r] = q]
  BY <1>1, <1>2 DEF Http!Hand
<1> QED BY <1>1, <1>2, <1>3, <1>4 DEF Reqs

LEMMA HasCalled ==
    ASSUME HttpTyped, NEW r \in Requests, NEW e \in Calls, NEW pc \in Pcs, NEW next \in Nat,
           Http!Called(r, e.what, e.at, e.by, pc, next)
    PROVE  \E q \in Reqs :
              /\ req' = [req EXCEPT ![r] = q] /\ q.pc = pc /\ q.at = next
              /\ q.log = Append(req[r].log, e) /\ q.files = req[r].files
<1>1. req \in [Requests -> Reqs] /\ req[r] \in Reqs /\ req[r].log \in Seq(Calls)
  BY DEF HttpTyped, Reqs
<1>2. PICK log \in Seq(Calls) : log = Append(req[r].log, e)
  BY <1>1, AppendProperties
<1>3. e = [what |-> e.what, at |-> e.at, by |-> e.by]
  BY DEF Calls
<1>4. PICK q : q = [req[r] EXCEPT !.pc = pc, !.at = next, !.log = log]
  OBVIOUS
<1>5. q \in Reqs
  BY <1>1, <1>4 DEF Reqs
<1>6. req' = [req EXCEPT ![r].pc = pc, ![r].at = next, ![r].log = log]
  BY <1>1, <1>2, <1>3 DEF Http!Called
<1>7. req' = [req EXCEPT ![r] = q]
  BY <1>1, <1>4, <1>6
<1> QED BY <1>1, <1>2, <1>4, <1>5, <1>7 DEF Reqs

LEMMA HasAnswer ==
    ASSUME HttpTyped, NEW r \in Requests, NEW a \in Outcomes,
           Http!Result(r, a) \/ Http!Answered(r, a)
    PROVE  \E q \in Reqs :
              /\ req' = [req EXCEPT ![r] = q] /\ q.pc \in {"after", "done"}
              /\ q.log = req[r].log /\ q.files = req[r].files
<1>1. req \in [Requests -> Reqs] /\ req[r] \in Reqs
  BY DEF HttpTyped
<1>2. PICK pc \in {"after", "done"} : req' = [req EXCEPT ![r].pc = pc, ![r].answer = a]
  BY DEF Http!Result, Http!Answered
<1>3. PICK q : q = [req[r] EXCEPT !.pc = pc, !.answer = a]
  OBVIOUS
<1>4. q \in Reqs
  BY <1>1, <1>3 DEF Reqs, Pcs
<1>5. req' = [req EXCEPT ![r] = q]
  BY <1>1, <1>2, <1>3
<1> QED BY <1>1, <1>2, <1>3, <1>4, <1>5 DEF Reqs

\* A step of one request, with what the singleton guards have cached.
LEMMA OneRequest ==
    ASSUME HttpInv, NEW r \in Requests, NEW q \in Reqs, req' = [req EXCEPT ![r] = q],
           UNCHANGED <<route, held>>, cached' \in [DOMAIN route.guards -> Owners],
           \A i \in DOMAIN route.guards :
              route.guards[i] = "single" /\ held /\ cached'[i] # "none" => cached'[i] = "app",
           Ordered(q), Owned(r, q)
    PROVE  HttpInv'
<1>1. HttpTyped /\ CachedOwn /\ \A s \in Requests : Ordered(req[s]) /\ Owned(s, req[s])
  BY DEF HttpInv
<1>2. HttpTyped'
  <2>1. route' = route /\ route' \in Routes
    BY <1>1 DEF HttpTyped
  <2>4. held' \in BOOLEAN
    BY <1>1 DEF HttpTyped
  <2>2. req' \in [Requests -> Reqs']
    <3>1. Given' = Given
      BY <2>1 DEF Given, Http!Taken, Http!OneFile, Http!AllFiles, Http!Fields
    <3>2. Reqs' = Reqs
      BY <3>1 DEF Reqs
    <3> QED BY <1>1, <3>2 DEF HttpTyped
  <2>3. cached' \in [DOMAIN route'.guards -> Owners]
    BY <2>1
  <2> QED BY <2>1, <2>2, <2>3, <2>4 DEF HttpTyped
<1>3. CachedOwn'
  BY DEF CachedOwn
<1>4. \A s \in Requests : req'[s] = IF s = r THEN q ELSE req[s]
  BY <1>1 DEF HttpTyped
<1>5. \A s \in Requests : Ordered(req'[s]) /\ Owned(s, req'[s])
  BY <1>1, <1>4
<1>6. \A s \in Requests : (Ordered(req[s]) /\ Owned(s, req[s]))'
  BY <1>5 DEF Ordered, Owned, Shaped, Allowed, OwnGuard
<1> QED BY <1>2, <1>3, <1>6 DEF HttpInv

\* A request that leaves the pipeline.
LEMMA Leaves ==
    ASSUME HttpInv, NEW r \in Requests, NEW q \in Reqs, req' = [req EXCEPT ![r] = q],
           UNCHANGED <<route, cached, held>>,
           q.log = req[r].log, q.files = req[r].files,
           q.pc \in {"after", "done", "error", "filters", "dispatch"}
    PROVE  HttpInv'
<1>1. HttpTyped /\ CachedOwn /\ Ordered(req[r]) /\ Owned(r, req[r])
  BY DEF HttpInv
<1>2. Ordered(q)
  BY <1>1 DEF Ordered, AtGuards, PastGuards
<1>3. Owned(r, q)
  BY <1>1 DEF Owned
<1> QED BY <1>1, <1>2, <1>3, OneRequest DEF HttpTyped, CachedOwn

\* A request that comes in, at the tier of its route.
LEMMA Enters ==
    ASSUME RuntimeAssumption, HttpInv, NEW r \in Requests, NEW q \in Reqs,
           req' = [req EXCEPT ![r] = q], UNCHANGED <<route, cached, held>>,
           req[r].log = <<>>, q.log = <<>>, q.files = req[r].files,
           \/ q.pc \in {"use", "controller"}
           \/ q.pc = "guards" /\ q.at = 1
           \/ q.pc \in {"instance", "binding", "handle"} /\ route.guards = <<>>
    PROVE  HttpInv'
<1>1. HttpTyped /\ CachedOwn /\ Ordered(req[r]) /\ Owned(r, req[r])
  BY DEF HttpInv
<1>2. PICK n \in Nat : n = Len(route.guards) /\ DOMAIN route.guards = 1 .. n
  BY RouteGuards
<1>3. DOMAIN q.log = {} /\ Len(q.log) = 0
  BY EmptySeq
<1>4. route.guards = <<>> => n = 0
  BY <1>2
<1>5. Shaped(q.log) /\ Allowed(q.log)
  BY <1>3 DEF Shaped, Allowed
<1>6. /\ q.pc \in AtGuards => q.pc = "guards" /\ q.at = 1
      /\ q.pc \in PastGuards => n = 0
  BY <1>4 DEF AtGuards, PastGuards
<1>7. 1 \in 1 .. n + 1 /\ 1 - 1 = 0
  OBVIOUS
<1>8. Ordered(q)
  BY <1>1, <1>2, <1>3, <1>5, <1>6, <1>7 DEF Ordered
<1>9. Owned(r, q)
  BY <1>3 DEF Owned
<1> QED BY <1>1, <1>8, <1>9, OneRequest DEF HttpTyped, CachedOwn

\* A request that all its guards have allowed goes on.
LEMMA GoesOn ==
    ASSUME RuntimeAssumption, HttpInv, NEW r \in Requests, NEW q \in Reqs,
           req' = [req EXCEPT ![r] = q], UNCHANGED <<route, cached, held>>,
           \/ req[r].pc \in PastGuards
           \/ req[r].pc = "guards" /\ req[r].at \notin DOMAIN route.guards,
           q.pc \in PastGuards, q.log = req[r].log,
           route.files.limited => \A k \in DOMAIN q.files : q.files[k]
    PROVE  HttpInv'
<1>1. HttpTyped /\ CachedOwn /\ Ordered(req[r]) /\ Owned(r, req[r])
  BY DEF HttpInv
<1>2. PICK n \in Nat : n = Len(route.guards) /\ DOMAIN route.guards = 1 .. n
  BY RouteGuards
<1>3. PICK m \in Nat : m = Len(req[r].log)
  <2>1. req[r].log \in Seq(Calls)
    BY <1>1 DEF HttpTyped, Reqs
  <2> QED BY <2>1, LenProperties
<1>4. m >= n /\ Allowed(req[r].log)
  <2>1. CASE req[r].pc \in PastGuards
    BY <1>1, <1>2, <1>3, <2>1 DEF Ordered
  <2>2. CASE req[r].pc = "guards" /\ req[r].at \notin DOMAIN route.guards
    <3>1. /\ req[r].at \in 1 .. n + 1 /\ m = req[r].at - 1 /\ req[r].at \notin 1 .. n
          /\ Allowed(req[r].log)
      BY <1>1, <1>2, <1>3, <2>2 DEF Ordered, AtGuards
    <3> QED BY <3>1
  <2> QED BY <2>1, <2>2
<1>5. q.pc \notin AtGuards /\ q.pc \notin {"idle", "use", "controller", "binding"}
  BY DEF PastGuards, AtGuards
<1>6. Ordered(q)
  BY <1>1, <1>2, <1>3, <1>4, <1>5 DEF Ordered
<1>7. Owned(r, q)
  BY <1>1, <1>5 DEF Owned, AtGuards
<1> QED BY <1>1, <1>6, <1>7, OneRequest DEF HttpTyped, CachedOwn

\* A request that is between two calls of its guards.
LEMMA StaysAtGuard ==
    ASSUME HttpInv, NEW r \in Requests, NEW q \in Reqs, req' = [req EXCEPT ![r] = q],
           UNCHANGED <<route, held>>, cached' \in [DOMAIN route.guards -> Owners],
           \A i \in DOMAIN route.guards :
              route.guards[i] = "single" /\ held /\ cached'[i] # "none" => cached'[i] = "app",
           req[r].pc \in AtGuards, req[r].at \in DOMAIN route.guards,
           q.pc \in AtGuards \ {"guards"}, q.at = req[r].at,
           q.log = req[r].log, q.files = req[r].files,
           q.pc = "activate" => OwnGuard(r, q.at, q.by),
           q.pc = "resolving" => /\ route.guards[q.at] # "request"
                                 /\ route.guards[q.at] = "single" /\ held => q.by = "app",
           q.pc \in {"registering", "building"} => ~(route.guards[q.at] = "single" /\ held)
    PROVE  HttpInv'
<1>1. HttpTyped /\ CachedOwn /\ Ordered(req[r]) /\ Owned(r, req[r])
  BY DEF HttpInv
<1>2. q.pc \notin PastGuards /\ q.pc \notin {"idle", "use", "controller", "binding"}
  BY DEF PastGuards, AtGuards
<1>3. Ordered(q)
  BY <1>1, <1>2 DEF Ordered
<1>4. Owned(r, q)
  BY <1>1 DEF Owned
<1> QED BY <1>1, <1>3, <1>4, OneRequest

\* The log with one call more.
LEMMA LogGrows ==
    ASSUME HttpInv, NEW r \in Requests, NEW e \in Calls, NEW log, log = Append(req[r].log, e)
    PROVE  /\ Len(log) = Len(req[r].log) + 1 /\ DOMAIN log = 1 .. Len(req[r].log) + 1
           /\ DOMAIN req[r].log = 1 .. Len(req[r].log) /\ Len(req[r].log) \in Nat
           /\ \A k \in 1 .. Len(req[r].log) : log[k] = req[r].log[k]
           /\ log[Len(req[r].log) + 1] = e
<1>1. req[r].log \in Seq(Calls)
  BY DEF HttpInv, HttpTyped, Reqs
<1> QED BY <1>1, StartingPlaces, AppendProperties, LenProperties

\* The next guard allows the request, or refuses it.
LEMMA GuardAnswers ==
    ASSUME RuntimeAssumption, HttpInv, NEW r \in Requests, NEW q \in Reqs,
           req' = [req EXCEPT ![r] = q], UNCHANGED <<route, cached, held>>,
           req[r].pc = "activate", q.files = req[r].files, NEW e \in Calls,
           e.at = req[r].at, e.by = req[r].by, q.log = Append(req[r].log, e),
           \/ e.what = "allow" /\ q.pc = "guards" /\ q.at = req[r].at + 1
           \/ e.what = "deny" /\ q.pc \in {"after", "done"}
    PROVE  HttpInv'
<1>1. HttpTyped /\ CachedOwn /\ Ordered(req[r]) /\ Owned(r, req[r])
  BY DEF HttpInv
<1>2. PICK n \in Nat : n = Len(route.guards) /\ DOMAIN route.guards = 1 .. n
  BY RouteGuards
<1>3. PICK i \in 1 .. n : i = req[r].at
  BY <1>1, <1>2 DEF Ordered, AtGuards
<1>4. PICK old : old = req[r].log
  OBVIOUS
<1>5. /\ Len(old) = i - 1 /\ Allowed(old) /\ Shaped(old)
  BY <1>1, <1>3, <1>4 DEF Ordered, AtGuards
<1>6. /\ Len(q.log) = i /\ DOMAIN q.log = 1 .. i /\ DOMAIN old = 1 .. i - 1
      /\ \A k \in 1 .. i - 1 : q.log[k] = old[k]
      /\ q.log[i] = e
  <2>1. (i - 1) + 1 = i
    OBVIOUS
  <2> QED BY <1>4, <1>5, <2>1, LogGrows
<1>7. \A k \in 1 .. i : k \in 1 .. n /\ (k = i \/ k \in 1 .. i - 1)
  BY <1>3
<1>8. \A k \in 1 .. i - 1 : q.log[k].at = k /\ q.log[k].what = "allow"
  <2>1. ASSUME NEW k \in 1 .. i - 1
        PROVE  old[k].at = k /\ old[k].what = "allow"
    <3>1. k \in DOMAIN old /\ k \in DOMAIN route.guards
      BY <1>2, <1>6
    <3> QED BY <1>5, <3>1 DEF Shaped, Allowed
  <2> QED BY <1>6, <2>1
<1>9. Shaped(q.log)
  <2>1. SUFFICES ASSUME NEW k \in 1 .. i
                 PROVE  /\ q.log[k].at = k
                        /\ q.log[k].what = "allow" \/ (q.log[k].what = "deny" /\ k = i)
    BY <1>2, <1>6, <1>7 DEF Shaped
  <2>2. CASE k = i
    BY <1>3, <1>6, <2>2
  <2> QED BY <1>7, <1>8, <2>2
<1>10. q.pc = "guards" => Allowed(q.log)
  BY <1>6, <1>7, <1>8 DEF Allowed
<1>11. Ordered(q)
  <2>1. i + 1 \in 1 .. n + 1 /\ (i + 1) - 1 = i
    BY <1>3
  <2>2. q.pc \notin PastGuards /\ q.pc \notin {"idle", "use", "controller", "binding"}
    BY DEF PastGuards
  <2>3. q.pc \in AtGuards => q.pc = "guards" /\ q.at = i + 1
    BY <1>3 DEF AtGuards
  <2> QED BY <1>1, <1>2, <1>6, <1>9, <1>10, <2>1, <2>2, <2>3 DEF Ordered
<1>12. Owned(r, q)
  <2>1. ASSUME NEW k \in 1 .. i
        PROVE  /\ OwnGuard(r, k, q.log[k].by)
               /\ q.log[k].what # "intercept" /\ q.log[k].what # "param"
    <3>1. CASE k = i
      BY <1>1, <1>3, <1>6, <3>1 DEF Owned
    <3>2. CASE k \in 1 .. i - 1
      BY <1>1, <1>2, <1>4, <1>6, <1>7, <1>8, <3>2 DEF Owned
    <3> QED BY <1>7, <3>1, <3>2
  <2> QED BY <1>6, <2>1 DEF Owned
<1> QED BY <1>1, <1>11, <1>12, OneRequest DEF HttpTyped, CachedOwn

\* What is called once the guards have allowed the request.
LEMMA CallsOn ==
    ASSUME RuntimeAssumption, HttpInv, NEW r \in Requests, NEW q \in Reqs,
           req' = [req EXCEPT ![r] = q], UNCHANGED <<route, cached, held>>,
           req[r].pc \in PastGuards, q.pc \in PastGuards, q.files = req[r].files,
           NEW e \in Calls, q.log = Append(req[r].log, e),
           e.what \in {"intercept", "param", "handle"},
           e.what = "intercept" => e.by = IF route.interceptors[e.at] = "single" THEN "app" ELSE r,
           e.what = "param" => e.by = r
    PROVE  HttpInv'
<1>1. HttpTyped /\ CachedOwn /\ Ordered(req[r]) /\ Owned(r, req[r])
  BY DEF HttpInv
<1>2. PICK n \in Nat : n = Len(route.guards) /\ DOMAIN route.guards = 1 .. n
  BY RouteGuards
<1>3. PICK old : old = req[r].log
  OBVIOUS
<1>4. PICK m \in Nat : m = Len(old)
  BY <1>3, LogGrows
<1>5. m >= n /\ Allowed(old) /\ Shaped(old)
  BY <1>1, <1>2, <1>3, <1>4 DEF Ordered
<1>6. /\ Len(q.log) = m + 1 /\ DOMAIN q.log = 1 .. m + 1 /\ DOMAIN old = 1 .. m
      /\ \A k \in 1 .. m : q.log[k] = old[k]
      /\ q.log[m + 1] = e
  BY <1>3, <1>4, LogGrows
<1>7. /\ m + 1 \notin 1 .. n
      /\ \A k \in 1 .. m + 1 : k = m + 1 \/ k \in 1 .. m
  BY <1>5
<1>8. Allowed(q.log)
  BY <1>2, <1>5, <1>6, <1>7 DEF Allowed
<1>9. Shaped(q.log)
  <2>1. SUFFICES ASSUME NEW k \in 1 .. m + 1
                 PROVE  IF k \in 1 .. n
                        THEN q.log[k].at = k /\ q.log[k].what = "allow"
                        ELSE q.log[k].what \in {"intercept", "param", "handle"}
    BY <1>2, <1>6 DEF Shaped
  <2>2. CASE k = m + 1
    BY <1>6, <1>7, <2>2
  <2>3. CASE k \in 1 .. m
    <3>1. k \in DOMAIN old /\ q.log[k] = old[k]
      BY <1>6, <2>3
    <3>2. k \in 1 .. n => old[k].at = k /\ old[k].what = "allow"
      BY <1>2, <1>5, <3>1 DEF Shaped, Allowed
    <3>3. k \notin 1 .. n => old[k].what \in {"intercept", "param", "handle"}
      BY <1>2, <1>5, <3>1 DEF Shaped
    <3> QED BY <3>1, <3>2, <3>3
  <2> QED BY <1>7, <2>2, <2>3
<1>10. Ordered(q)
  <2>1. m + 1 >= n
    BY <1>5
  <2>2. q.pc \notin AtGuards /\ q.pc \notin {"idle", "use", "controller", "binding"}
    BY DEF PastGuards, AtGuards
  <2> QED BY <1>1, <1>2, <1>6, <1>8, <1>9, <2>1, <2>2 DEF Ordered
<1>11. Owned(r, q)
  <2>1. q.pc \notin AtGuards
    BY DEF PastGuards, AtGuards
  <2>2. ASSUME NEW k \in 1 .. m + 1
        PROVE  /\ k \in 1 .. n => OwnGuard(r, k, q.log[k].by)
               /\ q.log[k].what = "intercept" =>
                     q.log[k].by = IF route.interceptors[q.log[k].at] = "single" THEN "app" ELSE r
               /\ q.log[k].what = "param" => q.log[k].by = r
    <3>1. CASE k = m + 1
      BY <1>6, <1>7, <3>1
    <3>2. CASE k \in 1 .. m
      BY <1>1, <1>2, <1>3, <1>6, <3>2 DEF Owned
    <3> QED BY <1>7, <3>1, <3>2
  <2> QED BY <1>2, <1>6, <2>1, <2>2 DEF Owned, AtGuards
<1> QED BY <1>1, <1>10, <1>11, OneRequest DEF HttpTyped, CachedOwn

\* Every tier that skips the guards is one of a route without any.
LEMMA Tiers ==
    ASSUME RuntimeAssumption, HttpInv, NEW r
    PROVE  /\ Http!First(r) \in Pcs
           /\ \/ Http!First(r) \in {"controller", "guards"}
              \/ Http!First(r) \in {"instance", "binding", "handle"} /\ route.guards = <<>>
<1>1. /\ route.kind \in {"message", "event"} => route.guards = <<>>
      /\ route.kind \in {"http", "ws", "message", "event", "graphql"}
  BY RouteGuards
<1>2. route.guards # <<>> => Http!NeedsFullPath
  BY DEF Http!NeedsFullPath
<1> QED BY <1>1, <1>2 DEF Http!First, Pcs

LEMMA HttpInit == ASSUME RuntimeAssumption, Http!Init PROVE HttpInv
<1>1. /\ route \in Routes /\ held = TRUE
      /\ req = [r \in Requests |-> [pc |-> "idle", at |-> 1, by |-> "none", log |-> <<>>,
                                    files |-> <<>>, answer |-> "none"]]
      /\ cached = [i \in DOMAIN route.guards |-> "none"]
  BY DEF Http!Init
<1>2. <<>> \in Seq(Calls) /\ DOMAIN <<>> = {}
  BY EmptySeq
<1>3. HttpTyped
  BY <1>1, <1>2 DEF HttpTyped, Reqs, Pcs, Owners, Given, Outcomes
<1>4. CachedOwn
  BY <1>1 DEF CachedOwn
<1>5. ASSUME NEW r \in Requests
      PROVE  Ordered(req[r]) /\ Owned(r, req[r])
  <2>1. req[r].pc = "idle" /\ req[r].log = <<>> /\ req[r].files = <<>>
    BY <1>1
  <2>2. req[r].pc \notin AtGuards /\ req[r].pc \notin PastGuards
    BY <2>1 DEF AtGuards, PastGuards
  <2>3. Ordered(req[r])
    BY <1>2, <2>1, <2>2 DEF Ordered, Shaped, Allowed
  <2>4. Owned(r, req[r])
    BY <1>2, <2>1 DEF Owned
  <2> QED BY <2>3, <2>4
<1> QED BY <1>3, <1>4, <1>5 DEF HttpInv

\* A step that makes r wait for something that fails, or that ends its handling.
LEMMA Gives ==
    ASSUME HttpInv, NEW r \in Requests, UNCHANGED <<route, cached, held>>,
           \/ \E at \in Nat, pc \in {"error", "filters", "dispatch"} : Http!Go(r, pc, at)
           \/ \E a \in Outcomes : Http!Result(r, a) \/ Http!Answered(r, a)
    PROVE  HttpInv'
<1>1. HttpTyped
  BY DEF HttpInv
<1>2. ASSUME NEW at \in Nat, NEW pc \in {"error", "filters", "dispatch"}, Http!Go(r, pc, at)
      PROVE  HttpInv'
  <2>1. pc \in Pcs
    BY DEF Pcs
  <2> QED BY <1>1, <1>2, <2>1, Went, Leaves
<1>3. ASSUME NEW a \in Outcomes, Http!Result(r, a) \/ Http!Answered(r, a)
      PROVE  HttpInv'
  BY <1>1, <1>3, HasAnswer, Leaves
<1> QED BY <1>2, <1>3

\* A step that goes on past the guards.
LEMMA Proceeds ==
    ASSUME RuntimeAssumption, HttpInv, NEW r \in Requests, UNCHANGED <<route, cached, held>>,
           \/ req[r].pc \in PastGuards
           \/ req[r].pc = "guards" /\ req[r].at \notin DOMAIN route.guards,
           \/ \E pc \in PastGuards : Http!Go(r, pc, 1)
           \/ \E pc \in PastGuards : Http!Hand(r, pc, r)
    PROVE  HttpInv'
<1>1. HttpTyped /\ Ordered(req[r]) /\ 1 \in Nat /\ r \in Owners
  BY DEF HttpInv, Owners
<1>2. PastGuards \subseteq Pcs
  BY DEF PastGuards, Pcs
<1>3. route.files.limited => \A k \in DOMAIN req[r].files : req[r].files[k]
  BY <1>1 DEF Ordered
<1>4. ASSUME NEW pc \in PastGuards, Http!Go(r, pc, 1)
      PROVE  HttpInv'
  BY <1>1, <1>2, <1>3, <1>4, Went, GoesOn
<1>5. ASSUME NEW pc \in PastGuards, Http!Hand(r, pc, r)
      PROVE  HttpInv'
  BY <1>1, <1>2, <1>3, <1>5, Handed, GoesOn
<1> QED BY <1>4, <1>5

\* A step between two calls of a guard, with its owner or that of the guard cached.
LEMMA Awaits ==
    ASSUME HttpInv, NEW r \in Requests, UNCHANGED <<route, held>>,
           cached' \in [DOMAIN route.guards -> Owners],
           \A i \in DOMAIN route.guards :
              route.guards[i] = "single" /\ held /\ cached'[i] # "none" => cached'[i] = "app",
           req[r].pc \in AtGuards, req[r].at \in DOMAIN route.guards,
           NEW pc \in AtGuards \ {"guards"}, NEW by \in Owners, Http!Hand(r, pc, by),
           pc = "activate" => OwnGuard(r, req[r].at, by),
           pc = "resolving" => /\ route.guards[req[r].at] # "request"
                               /\ route.guards[req[r].at] = "single" /\ held => by = "app",
           pc \in {"registering", "building"} => ~(route.guards[req[r].at] = "single" /\ held)
    PROVE  HttpInv'
<1>1. HttpTyped /\ pc \in Pcs
  BY DEF HttpInv, AtGuards, Pcs
<1>2. PICK q \in Reqs :
         /\ req' = [req EXCEPT ![r] = q] /\ q.pc = pc /\ q.at = req[r].at /\ q.by = by
         /\ q.log = req[r].log /\ q.files = req[r].files
  BY <1>1, Handed
<1> QED BY <1>2, StaysAtGuard

LEMMA OnUse == ASSUME RuntimeAssumption, HttpInv, NEW r \in Requests, Http!Arrive(r) \/ Http!Use(r)
               PROVE  HttpInv'
<1>1. /\ HttpTyped /\ Ordered(req[r]) /\ UNCHANGED <<route, cached, held>>
      /\ req[r].pc \in {"idle", "use"}
  BY DEF HttpInv, Http!Arrive, Http!Use, Http!At
<1>2. req[r].log = <<>>
  BY <1>1 DEF Ordered
<1>3. ASSUME NEW pc \in Pcs, Http!Go(r, pc, 1), pc = "use" \/ pc = Http!First(r)
      PROVE  HttpInv'
  <2>1. PICK q \in Reqs :
           /\ req' = [req EXCEPT ![r] = q] /\ q.pc = pc /\ q.at = 1
           /\ q.log = req[r].log /\ q.files = req[r].files
    BY <1>1, <1>3, Went
  <2>2. \/ q.pc \in {"use", "controller"}
        \/ q.pc = "guards" /\ q.at = 1
        \/ q.pc \in {"instance", "binding", "handle"} /\ route.guards = <<>>
    BY <1>3, <2>1, Tiers
  <2> QED BY <1>1, <1>2, <2>1, <2>2, Enters
<1>4. Http!First(r) \in Pcs /\ "use" \in Pcs
  BY Tiers DEF Pcs
<1>5. CASE Http!Arrive(r)
  <2>1. Http!Go(r, "use", 1) \/ Http!Go(r, Http!First(r), 1)
    BY <1>5 DEF Http!Arrive
  <2> QED BY <1>3, <1>4, <2>1
<1>6. CASE Http!Use(r)
  <2>1. \/ Http!Go(r, Http!First(r), 1)
        \/ Http!Answered(r, "middleware")
        \/ Http!Go(r, "error", 1)
    BY <1>6 DEF Http!Use
  <2>2. "middleware" \in Outcomes
    BY DEF Outcomes
  <2> QED BY <1>1, <1>3, <1>4, <2>1, <2>2, Gives
<1> QED BY <1>5, <1>6

LEMMA OnBind == ASSUME RuntimeAssumption, HttpInv, NEW r \in Requests,
                       Http!Bind(r) \/ Http!ResolveController(r)
                PROVE  HttpInv'
<1>1. /\ HttpTyped /\ Ordered(req[r]) /\ UNCHANGED <<route, cached, held>>
      /\ req[r].pc \in {"binding", "controller"}
  BY DEF HttpInv, Http!Bind, Http!ResolveController, Http!At
<1>2. req[r].log = <<>> /\ (req[r].pc = "binding" => route.guards = <<>>)
  BY <1>1 DEF Ordered
<1>3. ASSUME NEW pc \in Pcs, Http!Go(r, pc, 1),
             pc = "guards" \/ (pc = "handle" /\ route.guards = <<>>)
      PROVE  HttpInv'
  <2>1. PICK q \in Reqs :
           /\ req' = [req EXCEPT ![r] = q] /\ q.pc = pc /\ q.at = 1
           /\ q.log = req[r].log /\ q.files = req[r].files
    BY <1>1, <1>3, Went
  <2> QED BY <1>1, <1>2, <1>3, <2>1, Enters
<1>4. "guards" \in Pcs /\ "handle" \in Pcs /\ "unavailable" \in Outcomes
  BY DEF Pcs, Outcomes
<1>5. CASE Http!Bind(r)
  <2>1. route.guards = <<>> /\ (Http!Go(r, "handle", 1) \/ Http!Go(r, "error", 1))
    BY <1>2, <1>5 DEF Http!Bind, Http!At
  <2> QED BY <1>1, <1>3, <1>4, <2>1, Gives
<1>6. CASE Http!ResolveController(r)
  <2>1. Http!Go(r, "guards", 1) \/ Http!Result(r, "unavailable")
    BY <1>6 DEF Http!ResolveController
  <2> QED BY <1>1, <1>3, <1>4, <2>1, Gives
<1> QED BY <1>5, <1>6

\* What the singleton guards have cached stays what it was.
LEMMA CachedStays ==
    ASSUME HttpInv, UNCHANGED cached
    PROVE  /\ cached' \in [DOMAIN route.guards -> Owners]
           /\ \A i \in DOMAIN route.guards :
                 route.guards[i] = "single" /\ held /\ cached'[i] # "none" => cached'[i] = "app"
  BY DEF HttpInv, HttpTyped, CachedOwn

LEMMA OnResolveGuard == ASSUME HttpInv, NEW r \in Requests, Http!ResolveGuard(r)
                        PROVE  HttpInv'
<1>1. /\ HttpTyped /\ CachedOwn /\ UNCHANGED <<route, cached, held>>
      /\ req[r].pc \in AtGuards /\ req[r].at \in DOMAIN route.guards
      /\ r \in Owners /\ "app" \in Owners /\ 1 \in Nat
  BY DEF HttpInv, Http!ResolveGuard, Http!At, AtGuards, Owners
<1>2. PICK g : g = route.guards[req[r].at]
  OBVIOUS
<1>3. \/ /\ g # "request" /\ cached[req[r].at] # "none"
         /\ Http!Hand(r, "activate", cached[req[r].at])
      \/ /\ g # "request"
         /\ Http!Hand(r, "resolving", IF held /\ g = "single" THEN "app" ELSE r)
      \/ /\ g = "request"
         /\ Http!Hand(r, "building", r) \/ Http!Go(r, "error", 1)
      \/ /\ g = "request" /\ Http!Hand(r, "activate", r)
  BY <1>2 DEF Http!ResolveGuard, Http!PerRequest, Http!Scope, Http!InContext
<1>4. {"activate", "resolving", "building"} \subseteq AtGuards \ {"guards"}
  BY DEF AtGuards
<1>5. CASE /\ g # "request" /\ cached[req[r].at] # "none"
           /\ Http!Hand(r, "activate", cached[req[r].at])
  <2>1. cached[req[r].at] \in Owners
    BY <1>1 DEF HttpTyped
  <2>2. OwnGuard(r, req[r].at, cached[req[r].at])
    BY <1>1, <1>2, <1>5 DEF OwnGuard, CachedOwn
  <2> QED BY <1>1, <1>4, <1>5, <2>1, <2>2, CachedStays, Awaits
<1>6. CASE g # "request" /\ Http!Hand(r, "resolving", IF held /\ g = "single" THEN "app" ELSE r)
  BY <1>1, <1>2, <1>4, <1>6, CachedStays, Awaits
<1>7. CASE g = "request" /\ Http!Hand(r, "building", r)
  BY <1>1, <1>2, <1>4, <1>7, CachedStays, Awaits
<1>8. CASE g = "request" /\ Http!Hand(r, "activate", r)
  BY <1>1, <1>2, <1>4, <1>8, CachedStays, Awaits DEF OwnGuard
<1>9. CASE Http!Go(r, "error", 1)
  BY <1>1, <1>9, Gives
<1> QED BY <1>3, <1>5, <1>6, <1>7, <1>8, <1>9

LEMMA OnLookUpGuard == ASSUME HttpInv, NEW r \in Requests,
                              Http!ResolveUpgradeGuard(r) \/ Http!LookUpGuard(r)
                       PROVE  HttpInv'
<1>1. /\ HttpTyped /\ CachedOwn /\ UNCHANGED <<route, cached, held>>
      /\ req[r].pc \in AtGuards /\ req[r].at \in DOMAIN route.guards /\ route.kind # "http"
      /\ r \in Owners /\ "app" \in Owners
  BY DEF HttpInv, Http!ResolveUpgradeGuard, Http!LookUpGuard, Http!At, AtGuards, Owners
<1>2. PICK g : g = route.guards[req[r].at]
  OBVIOUS
<1>3. {"activate", "registering"} \subseteq AtGuards \ {"guards"}
  BY DEF AtGuards
<1>4. ASSUME NEW by \in Owners, Http!Hand(r, "activate", by), g = "single" /\ held => by = "app"
      PROVE  HttpInv'
  <2>1. OwnGuard(r, req[r].at, by)
    BY <1>1, <1>2, <1>4 DEF OwnGuard
  <2> QED BY <1>1, <1>3, <1>4, <2>1, CachedStays, Awaits
<1>5. CASE Http!ResolveUpgradeGuard(r)
  <2>1. Http!Hand(r, "activate", IF held /\ g # "new" THEN "app" ELSE r)
    BY <1>2, <1>5 DEF Http!ResolveUpgradeGuard, Http!Scope
  <2> QED BY <1>1, <1>4, <2>1
<1>6. CASE Http!LookUpGuard(r)
  <2>1. \/ Http!Hand(r, "activate", "app")
        \/ cached[req[r].at] # "none" /\ Http!Hand(r, "activate", cached[req[r].at])
        \/ ~(g = "single" /\ held) /\ Http!Hand(r, "registering", r)
    BY <1>2, <1>6 DEF Http!LookUpGuard, Http!Scope
  <2>2. /\ cached[req[r].at] \in Owners
        /\ g = "single" /\ held /\ cached[req[r].at] # "none" => cached[req[r].at] = "app"
    BY <1>1, <1>2 DEF HttpTyped, CachedOwn
  <2>3. CASE ~(g = "single" /\ held) /\ Http!Hand(r, "registering", r)
    BY <1>1, <1>2, <1>3, <2>3, CachedStays, Awaits
  <2> QED BY <1>1, <1>4, <2>1, <2>2, <2>3
<1> QED BY <1>5, <1>6

LEMMA OnCacheGuard == ASSUME HttpInv, NEW r \in Requests,
                             Http!RegisterGuard(r) \/ Http!CacheGuard(r)
                      PROVE  HttpInv'
<1>1. /\ HttpTyped /\ CachedOwn /\ Ordered(req[r]) /\ Owned(r, req[r]) /\ UNCHANGED <<route, held>>
      /\ req[r].pc \in {"registering", "resolving"} /\ r \in Owners /\ req[r].by \in Owners
      /\ 1 \in Nat
  BY DEF HttpInv, HttpTyped, Reqs, Http!RegisterGuard, Http!CacheGuard, Http!At, Owners
<1>2. req[r].pc \in AtGuards /\ req[r].at \in DOMAIN route.guards
  BY <1>1 DEF Ordered, AtGuards
<1>3. PICK i \in DOMAIN route.guards : i = req[r].at
  BY <1>2
<1>4. {"activate", "building"} \subseteq AtGuards \ {"guards"}
  BY DEF AtGuards
<1>5. ASSUME NEW by \in Owners, cached' = [cached EXCEPT ![i] = by],
             route.guards[i] = "single" /\ held => by = "app"
      PROVE  /\ cached' \in [DOMAIN route.guards -> Owners]
             /\ \A j \in DOMAIN route.guards :
                   route.guards[j] = "single" /\ held /\ cached'[j] # "none" => cached'[j] = "app"
  BY <1>1, <1>5 DEF HttpTyped, CachedOwn
<1>6. CASE Http!RegisterGuard(r)
  <2>1. ~(route.guards[i] = "single" /\ held)
    BY <1>1, <1>3, <1>6 DEF Owned, Http!RegisterGuard, Http!At
  <2>2. /\ cached' = [cached EXCEPT ![i] = r]
        /\ Http!Hand(r, "building", r) \/ Http!Go(r, "error", 1)
    BY <1>3, <1>6 DEF Http!RegisterGuard, Http!InContext
  <2>3. CASE Http!Hand(r, "building", r)
    BY <1>1, <1>2, <1>3, <1>4, <1>5, <2>1, <2>2, <2>3, Awaits
  <2>4. CASE Http!Go(r, "error", 1)
    <3>1. PICK q \in Reqs :
             /\ req' = [req EXCEPT ![r] = q] /\ q.pc = "error"
             /\ q.log = req[r].log /\ q.files = req[r].files
      BY <1>1, <2>4, Went DEF Pcs
    <3>2. Ordered(q) /\ Owned(r, q)
      BY <1>1, <3>1 DEF Ordered, Owned, AtGuards, PastGuards
    <3> QED BY <1>1, <1>5, <2>1, <2>2, <3>1, <3>2, OneRequest
  <2> QED BY <2>2, <2>3, <2>4
<1>7. CASE Http!CacheGuard(r)
  <2>1. /\ route.guards[i] # "request"
        /\ route.guards[i] = "single" /\ held => req[r].by = "app"
    BY <1>1, <1>3, <1>7 DEF Owned, Http!CacheGuard, Http!At
  <2>2. cached' = [cached EXCEPT ![i] = req[r].by] /\ Http!Hand(r, "activate", req[r].by)
    BY <1>3, <1>7 DEF Http!CacheGuard
  <2>3. OwnGuard(r, i, req[r].by)
    BY <2>1 DEF OwnGuard
  <2> QED BY <1>1, <1>2, <1>3, <1>4, <1>5, <2>1, <2>2, <2>3, Awaits
<1> QED BY <1>6, <1>7

LEMMA OnActivate == ASSUME RuntimeAssumption, HttpInv, NEW r \in Requests, Http!Activate(r)
                    PROVE  HttpInv'
<1>1. /\ HttpTyped /\ UNCHANGED <<route, cached, held>> /\ req[r].pc = "activate"
      /\ req[r] \in Reqs /\ req[r].at \in Nat /\ req[r].by \in Owners /\ 1 \in Nat
  BY DEF HttpInv, HttpTyped, Reqs, Http!Activate, Http!At
<1>2. PICK e \in Calls : e.what = "allow" /\ e.at = req[r].at /\ e.by = req[r].by
  <2>1. [what |-> "allow", at |-> req[r].at, by |-> req[r].by] \in Calls
    BY <1>1 DEF Calls
  <2> QED BY <2>1
<1>3. PICK f \in Calls : /\ f.what = "deny" /\ f.at = req[r].at /\ f.by = req[r].by
                         /\ f = [what |-> "deny", at |-> req[r].at, by |-> req[r].by]
  <2>1. [what |-> "deny", at |-> req[r].at, by |-> req[r].by] \in Calls
    BY <1>1 DEF Calls
  <2> QED BY <2>1
<1>4. CASE Http!Called(r, "allow", req[r].at, req[r].by, "guards", req[r].at + 1)
  <2>1. PICK q \in Reqs :
           /\ req' = [req EXCEPT ![r] = q] /\ q.pc = "guards" /\ q.at = req[r].at + 1
           /\ q.log = Append(req[r].log, e) /\ q.files = req[r].files
    <3>1. "guards" \in Pcs /\ req[r].at + 1 \in Nat
      BY <1>1 DEF Pcs
    <3> QED BY <1>1, <1>2, <1>4, <3>1, HasCalled
  <2> QED BY <1>1, <1>2, <2>1, GuardAnswers
<1>5. CASE req' = [req EXCEPT
                ![r].pc = IF route.middleware THEN "after" ELSE "done",
                ![r].answer = "forbidden",
                ![r].log = Append(@, [what |-> "deny", at |-> req[r].at, by |-> req[r].by])]
  <2>1. PICK pc \in {"after", "done"} : pc = IF route.middleware THEN "after" ELSE "done"
    OBVIOUS
  <2>2. PICK log \in Seq(Calls) : log = Append(req[r].log, f)
    BY <1>1, AppendProperties DEF Reqs
  <2>3. req' = [req EXCEPT ![r].pc = pc, ![r].answer = "forbidden", ![r].log = log]
    BY <1>1, <1>3, <1>5, <2>1, <2>2 DEF HttpTyped, Reqs
  <2>4. PICK q : q = [req[r] EXCEPT !.pc = pc, !.answer = "forbidden", !.log = log]
    OBVIOUS
  <2>5. q \in Reqs /\ q.pc = pc /\ q.log = log /\ q.files = req[r].files
    BY <1>1, <2>4 DEF Reqs, Pcs, Outcomes
  <2>6. req' = [req EXCEPT ![r] = q]
    BY <1>1, <2>3, <2>4 DEF HttpTyped
  <2> QED BY <1>1, <1>3, <2>2, <2>5, <2>6, GuardAnswers
<1>6. CASE Http!Go(r, "error", 1)
  BY <1>1, <1>6, Gives
<1> QED BY <1>4, <1>5, <1>6 DEF Http!Activate

\* A call past the guards.
LEMMA CallsNext ==
    ASSUME RuntimeAssumption, HttpInv, NEW r \in Requests, UNCHANGED <<route, cached, held>>,
           req[r].pc \in PastGuards, NEW pc \in PastGuards, NEW next \in Nat,
           NEW what \in {"intercept", "param", "handle"}, NEW at \in Nat, NEW by \in Owners,
           Http!Called(r, what, at, by, pc, next),
           what = "intercept" => by = IF route.interceptors[at] = "single" THEN "app" ELSE r,
           what = "param" => by = r
    PROVE  HttpInv'
<1>1. HttpTyped /\ pc \in Pcs
  BY DEF HttpInv, PastGuards, Pcs
<1>2. PICK e \in Calls : e.what = what /\ e.at = at /\ e.by = by
  <2>1. [what |-> what, at |-> at, by |-> by] \in Calls
    BY DEF Calls
  <2> QED BY <2>1
<1>3. PICK q \in Reqs :
         /\ req' = [req EXCEPT ![r] = q] /\ q.pc = pc
         /\ q.log = Append(req[r].log, e) /\ q.files = req[r].files
  BY <1>1, <1>2, HasCalled
<1> QED BY <1>2, <1>3, CallsOn

LEMMA OnBuilt == ASSUME RuntimeAssumption, HttpInv, NEW r \in Requests, Http!Built(r)
                 PROVE  HttpInv'
<1>1. /\ HttpTyped /\ CachedOwn /\ Ordered(req[r]) /\ Owned(r, req[r])
      /\ UNCHANGED <<route, cached, held>> /\ r \in Owners /\ 0 \in Nat /\ 1 \in Nat
  BY DEF HttpInv, Http!Built, Owners
<1>2. CASE req[r].pc = "building" /\ Http!Hand(r, "activate", r)
  <2>1. req[r].pc \in AtGuards /\ req[r].at \in DOMAIN route.guards
    BY <1>1, <1>2 DEF Ordered, AtGuards
  <2>2. ~(route.guards[req[r].at] = "single" /\ held)
    BY <1>1, <1>2 DEF Owned
  <2>3. OwnGuard(r, req[r].at, r) /\ "activate" \in AtGuards \ {"guards"}
    BY <2>2 DEF OwnGuard, AtGuards
  <2> QED BY <1>1, <1>2, <2>1, <2>3, CachedStays, Awaits
<1>3. CASE req[r].pc = "injecting" /\ Http!Called(r, "param", 0, r, Http!AfterParams, 1)
  <2>1. req[r].pc \in PastGuards /\ Http!AfterParams \in PastGuards
    BY <1>3 DEF PastGuards, Http!AfterParams
  <2> QED BY <1>1, <1>3, <2>1, CallsNext
<1> QED BY <1>2, <1>3 DEF Http!Built, Http!At

LEMMA OnIntercept == ASSUME RuntimeAssumption, HttpInv, NEW r \in Requests, Http!Intercept(r)
                     PROVE  HttpInv'
<1>1. /\ HttpTyped /\ UNCHANGED <<route, cached, held>> /\ r \in Owners /\ "app" \in Owners
      /\ 1 \in Nat /\ req[r].at \in Nat /\ req[r].at + 1 \in Nat
      /\ req[r].pc \in PastGuards /\ {"intercept", "params"} \subseteq PastGuards
  BY DEF HttpInv, HttpTyped, Reqs, Http!Intercept, Http!At, Owners, PastGuards
<1>2. PICK by \in Owners :
         by = IF route.interceptors[req[r].at] = "single" THEN "app" ELSE r
  BY <1>1
<1>3. CASE Http!Called(r, "intercept", req[r].at, by, "intercept", req[r].at + 1)
  BY <1>1, <1>2, <1>3, CallsNext
<1>4. CASE Http!Go(r, "error", 1)
  BY <1>1, <1>4, Gives
<1>5. CASE Http!Go(r, "params", 1)
  BY <1>1, <1>5, Proceeds
<1> QED BY <1>2, <1>3, <1>4, <1>5 DEF Http!Intercept

LEMMA OnPast == ASSUME RuntimeAssumption, HttpInv, NEW r \in Requests,
                       \/ Http!Instance(r) \/ Http!GuardsPassed(r) \/ Http!Params(r)
                       \/ Http!Handle(r) \/ Http!HandlerSettles(r)
                PROVE  HttpInv'
<1>1. /\ HttpTyped /\ UNCHANGED <<route, cached, held>> /\ r \in Owners /\ "app" \in Owners
      /\ 0 \in Nat /\ 1 \in Nat
      /\ {"handle", "instance", "intercept", "injecting", "files", "handling"} \subseteq PastGuards
  BY DEF HttpInv, HttpTyped, Reqs, Owners, PastGuards, Http!Instance, Http!GuardsPassed,
     Http!Params, Http!Handle, Http!HandlerSettles
<1>2. CASE Http!Instance(r)
  <2>1. req[r].pc \in PastGuards /\ (Http!Go(r, "handle", 1) \/ Http!Go(r, "error", 1))
    BY <1>2 DEF Http!Instance, Http!At, PastGuards
  <2> QED BY <1>1, <2>1, Gives, Proceeds
<1>3. CASE Http!GuardsPassed(r)
  <2>1. PICK pc \in {"handle", "instance", "intercept"} :
           /\ req[r].pc = "guards" /\ req[r].at \notin DOMAIN route.guards
           /\ Http!Go(r, pc, 1)
    BY <1>3 DEF Http!GuardsPassed, Http!At
  <2> QED BY <1>1, <2>1, Proceeds
<1>4. CASE Http!Params(r)
  <2>1. PICK pc \in {"handle", "files"} :
           /\ req[r].pc \in PastGuards
           /\ Http!Go(r, pc, 1) \/ Http!Hand(r, "injecting", r)
    BY <1>4 DEF Http!Params, Http!At, Http!AfterParams, Http!InContext, PastGuards
  <2> QED BY <1>1, <2>1, Proceeds
<1>5. CASE Http!Handle(r)
  <2>1. req[r].pc \in PastGuards /\ Http!Called(r, "handle", 0, "app", "handling", 1)
    BY <1>5 DEF Http!Handle, Http!At, PastGuards
  <2> QED BY <1>1, <2>1, CallsNext
<1>6. CASE Http!HandlerSettles(r)
  <2>1. "result" \in Outcomes /\ (Http!Result(r, "result") \/ Http!Go(r, "error", 1))
    BY <1>6 DEF Http!HandlerSettles, Outcomes
  <2> QED BY <1>1, <2>1, Gives
<1> QED BY <1>2, <1>3, <1>4, <1>5, <1>6

LEMMA OnFileParams == ASSUME RuntimeAssumption, HttpInv, NEW r \in Requests, Http!FileParams(r)
                      PROVE  HttpInv'
<1>1. /\ HttpTyped /\ UNCHANGED <<route, cached, held>> /\ req[r].pc \in PastGuards
      /\ 1 \in Nat /\ req[r] \in Reqs /\ "handle" \in PastGuards /\ "handle" \in Pcs
  BY DEF HttpInv, HttpTyped, Http!FileParams, Http!At, PastGuards, Pcs
<1>2. CASE Http!Go(r, "error", 1)
  BY <1>1, <1>2, Gives
<1>3. ASSUME NEW b \in Bodies,
             IF route.files.kind = "form" THEN route.files.limited => b.valid
             ELSE Http!Within(Http!Taken(b)),
             req' = [req EXCEPT ![r].pc = "handle", ![r].files = Http!Taken(b)]
      PROVE  HttpInv'
  <2>1. PICK files \in Given : files = Http!Taken(b)
    BY DEF Given
  <2>2. route.files.limited => \A k \in DOMAIN files : files[k]
    <3>1. CASE route.files.kind = "form"
      <4>1. files = <<>>
        BY <2>1, <3>1 DEF Http!Taken
      <4> QED BY <4>1, EmptySeq
    <3>2. CASE route.files.kind # "form"
      BY <1>3, <2>1, <3>2 DEF Http!Within
    <3> QED BY <3>1, <3>2
  <2>3. PICK q : q = [req[r] EXCEPT !.pc = "handle", !.files = files]
    OBVIOUS
  <2>4. q \in Reqs /\ q.pc = "handle" /\ q.log = req[r].log /\ q.files = files
    BY <1>1, <2>3 DEF Reqs
  <2>5. req' = [req EXCEPT ![r] = q]
    BY <1>1, <1>3, <2>1, <2>3 DEF HttpTyped
  <2> QED BY <1>1, <2>2, <2>4, <2>5, GoesOn
<1> QED BY <1>2, <1>3 DEF Http!FileParams

LEMMA OnAnswer == ASSUME HttpInv, NEW r \in Requests,
                         \/ Http!UseAfter(r) \/ Http!Fails(r) \/ Http!ApplyFilter(r)
                         \/ Http!HandlerFails(r) \/ Http!Dispatch(r)
                  PROVE  HttpInv'
<1>1. /\ HttpTyped /\ UNCHANGED <<route, cached, held>> /\ 1 \in Nat /\ req[r].at + 1 \in Nat
      /\ req[r].answer \in Outcomes
      /\ {"middleware", "default", "filter", "empty", "thrown"} \subseteq Outcomes
  BY DEF HttpInv, HttpTyped, Reqs, Outcomes, Http!UseAfter, Http!Fails, Http!ApplyFilter,
     Http!HandlerFails, Http!Dispatch
<1>2. CASE Http!UseAfter(r)
  BY <1>1, <1>2, Gives DEF Http!UseAfter
<1>3. CASE Http!Fails(r)
  BY <1>1, <1>3, Gives DEF Http!Fails
<1>4. CASE Http!ApplyFilter(r)
  BY <1>1, <1>4, Gives DEF Http!ApplyFilter
<1>5. CASE Http!HandlerFails(r)
  BY <1>1, <1>5, Gives DEF Http!HandlerFails, Http!Rethrown
<1>6. CASE Http!Dispatch(r)
  <2>1. \/ Http!Rethrown(r)
        \/ Http!Go(r, "dispatch", req[r].at + 1)
        \/ \E a \in {"filter", "empty"} : Http!Answered(r, a)
    BY <1>6 DEF Http!Dispatch
  <2> QED BY <1>1, <2>1, Gives DEF Http!Rethrown
<1> QED BY <1>2, <1>3, <1>4, <1>5, <1>6

LEMMA HttpStep == ASSUME RuntimeAssumption, HttpInv, [Http!Next]_http PROVE HttpInv'
<1>1. HttpTyped /\ CachedOwn /\ \A s \in Requests : Ordered(req[s]) /\ Owned(s, req[s])
  BY DEF HttpInv
<1>2. ASSUME NEW r \in Requests, Http!Step(r)
      PROVE  HttpInv'
  BY <1>2, OnUse, OnBind, OnResolveGuard, OnLookUpGuard, OnCacheGuard, OnActivate, OnBuilt,
     OnIntercept, OnPast, OnFileParams, OnAnswer DEF Http!Step
<1>3. ASSUME UNCHANGED <<route, req>>, held' \in BOOLEAN, held' => held,
             cached' \in [DOMAIN route.guards -> Owners],
             \A i \in DOMAIN route.guards :
                route.guards[i] = "single" /\ held /\ cached'[i] # "none" => cached'[i] = "app"
      PROVE  HttpInv'
  <2>1. HttpTyped'
    <3>1. Given' = Given
      BY <1>3 DEF Given, Http!Taken, Http!OneFile, Http!AllFiles, Http!Fields
    <3>2. Reqs' = Reqs
      BY <3>1 DEF Reqs
    <3>3. req' \in [Requests -> Reqs'] /\ route' \in Routes
      BY <1>1, <1>3, <3>2 DEF HttpTyped
    <3>4. cached' \in [DOMAIN route'.guards -> Owners]
      BY <1>3
    <3> QED BY <1>3, <3>3, <3>4 DEF HttpTyped
  <2>2. CachedOwn'
    BY <1>3 DEF CachedOwn
  <2>3. ASSUME NEW s \in Requests
        PROVE  (Ordered(req[s]) /\ Owned(s, req[s]))'
    <3>1. Ordered(req[s]) /\ Owned(s, req[s])
      BY <1>1
    <3>2. Ordered(req[s])'
      BY <1>3, <3>1 DEF Ordered, Shaped, Allowed
    <3>3. Owned(s, req[s])'
      BY <1>3, <3>1 DEF Owned, OwnGuard
    <3> QED BY <3>2, <3>3
  <2> QED BY <2>1, <2>2, <2>3 DEF HttpInv
<1>4. ASSUME NEW kind, Http!UseGlobalFilter(kind)
      PROVE  HttpInv'
  BY <1>1, <1>3, <1>4 DEF Http!UseGlobalFilter, HttpTyped, CachedOwn
<1>5. CASE Http!Clear
  <2>1. UNCHANGED <<route, req>> /\ held' \in BOOLEAN /\ (held' => held)
    BY <1>5 DEF Http!Clear
  <2>2. /\ cached' \in [DOMAIN route.guards -> Owners]
        /\ \A i \in DOMAIN route.guards : cached'[i] = cached[i] \/ cached'[i] = "none"
    BY <1>1, <1>5 DEF Http!Clear, HttpTyped, Owners
  <2> QED BY <1>1, <1>3, <2>1, <2>2 DEF CachedOwn
<1>6. CASE UNCHANGED http
  BY <1>1, <1>3, <1>6 DEF http, HttpTyped, CachedOwn
<1>7. CASE Http!Next
  BY <1>2, <1>4, <1>5, <1>7, OnUse DEF Http!Next
<1> QED BY <1>6, <1>7

\* What the calls of a request say.
LEMMA HttpKeeps == ASSUME RuntimeAssumption, HttpInv PROVE Http!GuardsFirst /\ Http!ScopesHonoured
<1>1. PICK n \in Nat : n = Len(route.guards) /\ DOMAIN route.guards = 1 .. n
  BY RouteGuards
<1>2. ASSUME NEW r \in Requests
      PROVE  /\ DOMAIN req[r].log = 1 .. Len(req[r].log) /\ Len(req[r].log) \in Nat
             /\ req[r].log # <<>> => Len(req[r].log) > 0
             /\ Shaped(req[r].log) /\ Ordered(req[r]) /\ Owned(r, req[r])
  <2>1. req[r].log \in Seq(Calls) /\ Ordered(req[r]) /\ Owned(r, req[r])
    BY DEF HttpInv, HttpTyped, Reqs
  <2>2. DOMAIN req[r].log = 1 .. Len(req[r].log) /\ Len(req[r].log) \in Nat
    BY <2>1, LenProperties
  <2>3. req[r].log # <<>> => Len(req[r].log) > 0
    BY <2>1, <2>2, EmptySeq
  <2> QED BY <2>1, <2>2, <2>3 DEF Ordered
<1>3. Http!GuardsFirst
  <2>1. SUFFICES ASSUME NEW r \in Requests, NEW log, log = req[r].log
                 PROVE  /\ \A k \in DOMAIN log : ~Http!Asked(log[k]) =>
                              \A i \in DOMAIN route.guards :
                                 \E j \in 1 .. k - 1 : log[j].what = "allow" /\ log[j].at = i
                        /\ \A j, k \in DOMAIN log :
                              j < k /\ Http!Asked(log[j]) /\ Http!Asked(log[k]) =>
                                 log[j].at < log[k].at
                        /\ \A k \in DOMAIN log : log[k].what = "deny" => k = Len(log)
                        /\ route.files.limited => \A k \in DOMAIN req[r].files : req[r].files[k]
    BY DEF Http!GuardsFirst
  <2>2. PICK m \in Nat : m = Len(log) /\ DOMAIN log = 1 .. m
    BY <1>2, <2>1
  <2>3. \A k \in 1 .. m :
           /\ k \in 1 .. n => /\ log[k].at = k
                              /\ log[k].what = "allow" \/ (log[k].what = "deny" /\ k = m)
           /\ k \notin 1 .. n => log[k].what \in {"intercept", "param", "handle"}
    BY <1>1, <1>2, <2>1, <2>2 DEF Shaped
  <2>4. ASSUME NEW k \in 1 .. m, ~Http!Asked(log[k]), NEW i \in 1 .. n
        PROVE  i \in 1 .. k - 1 /\ log[i].what = "allow" /\ log[i].at = i
    <3>1. k \notin 1 .. n
      BY <2>3, <2>4 DEF Http!Asked
    <3>2. i \in 1 .. k - 1 /\ i \in 1 .. m /\ i # m
      BY <3>1
    <3> QED BY <2>3, <3>2
  <2>5. ASSUME NEW j \in 1 .. m, NEW k \in 1 .. m, j < k, Http!Asked(log[j]), Http!Asked(log[k])
        PROVE  log[j].at < log[k].at
    <3>1. j \in 1 .. n /\ k \in 1 .. n
      BY <2>3, <2>5 DEF Http!Asked
    <3> QED BY <2>3, <2>5, <3>1
  <2>6. ASSUME NEW k \in 1 .. m, log[k].what = "deny"
        PROVE  k = m
    BY <2>3, <2>6
  <2>7. route.files.limited => \A k \in DOMAIN req[r].files : req[r].files[k]
    BY <1>2 DEF Ordered
  <2> QED BY <1>1, <2>2, <2>4, <2>5, <2>6, <2>7
<1>4. Http!ScopesHonoured
  <2>1. SUFFICES ASSUME NEW r \in Requests, NEW k \in DOMAIN req[r].log,
                        NEW e, e = req[r].log[k]
                 PROVE  /\ Http!Asked(e) /\ route.guards[e.at] = "request" /\ route.kind = "http" =>
                              e.by = r
                        /\ e.what = "intercept" =>
                              e.by = IF route.interceptors[e.at] = "single" THEN "app" ELSE r
                        /\ e.what = "param" => e.by = r
                        /\ Http!Asked(e) /\ route.guards[e.at] = "single" /\ held => e.by = "app"
    BY DEF Http!ScopesHonoured, Http!Log
  <2>2. Http!Asked(e) => k \in DOMAIN route.guards /\ e.at = k
    BY <1>2, <2>1 DEF Shaped, Http!Asked
  <2>3. /\ k \in DOMAIN route.guards => OwnGuard(r, k, e.by)
        /\ e.what = "intercept" =>
              e.by = IF route.interceptors[e.at] = "single" THEN "app" ELSE r
        /\ e.what = "param" => e.by = r
    BY <1>2, <2>1 DEF Owned
  <2> QED BY <2>2, <2>3 DEF OwnGuard
<1> QED BY <1>3, <1>4

-----------------------------------------------------------------------------
(* Passport *)

LEMMA ProvidedTyped ==
    ASSUME RuntimeAssumption, AuthTyped
    PROVE  /\ Auth!Provided \in Seq(Strategies) /\ Len(Auth!Provided) \in Nat
           /\ DOMAIN Auth!Provided = 1 .. Len(Auth!Provided)
           /\ \A i \in 1 .. Len(Auth!Provided) : Auth!Provided[i] \in Strategies
           /\ Auth!Held \subseteq Strategies
           /\ latest \in Nat /\ Len(setup) \in Nat
<1>1. setup \in Seq([provides : Seq(Strategies), cleans : BOOLEAN])
  BY DEF RuntimeAssumption, Auth!PassportAssumption, AuthTyped
<1>2. latest \in Nat /\ Len(setup) \in Nat /\ (latest # 0 => latest \in 1 .. Len(setup))
  BY <1>1, LenProperties DEF AuthTyped
<1>3. latest # 0 => setup[latest] \in [provides : Seq(Strategies), cleans : BOOLEAN]
  BY <1>1, <1>2, ElementOfSeq
<1>4. Auth!Provided \in Seq(Strategies)
  BY <1>3, EmptySeq DEF Auth!Provided
<1>5. DOMAIN Auth!Provided = 1 .. Len(Auth!Provided) /\ Len(Auth!Provided) \in Nat
  BY <1>4, LenProperties
<1>6. \A i \in 1 .. Len(Auth!Provided) : Auth!Provided[i] \in Strategies
  BY <1>4, ElementOfSeq
<1> QED BY <1>2, <1>4, <1>5, <1>6 DEF Auth!Held

LEMMA NamedFirst ==
    ASSUME RuntimeAssumption, NEW g \in Guards \cup {<<>>}, g # <<>>
    PROVE  g \in Guards /\ Auth!First(g) = g[1] /\ g[1] \in Strategies
<1>1. g \in Seq(Strategies)
  BY DEF RuntimeAssumption, Auth!PassportAssumption
<1>2. 1 \in 1 .. Len(g)
  BY <1>1, LenProperties, EmptySeq
<1> QED BY <1>1, <1>2, ElementOfSeq DEF Auth!First

LEMMA AuthInit == ASSUME RuntimeAssumption, Auth!Init PROVE AuthInv
<1>1. /\ setup \in Setups /\ latest = 0 /\ boot = "none" /\ nth = 1 /\ calm = TRUE
      /\ made = {} /\ classes = Strategies \ Unnamed
      /\ registered = [s \in Strategies |-> 0] /\ inPassport = [s \in Strategies |-> 0]
      /\ attempt = [a \in Attempts |-> Auth!Idle]
  BY DEF Auth!Init
<1>2. 0 \in 0 .. Len(setup)
  BY <1>1, LenProperties DEF RuntimeAssumption, Auth!PassportAssumption
<1>3. Auth!Idle \in Tries /\ Grounded(Auth!Idle) /\ Due(Auth!Idle) /\ Auth!Idle.at = "idle"
  BY DEF Auth!Idle, Tries, Attempted, Grounded, Due
<1>4. AuthTyped
  BY <1>1, <1>2, <1>3 DEF AuthTyped
<1>5. Decided /\ Owed
  BY <1>1, <1>3 DEF Decided, Owed
<1>6. Calm
  BY <1>1, <1>3 DEF Calm
<1>7. Booted
  BY <1>1 DEF Booted
<1> QED BY <1>4, <1>5, <1>6, <1>7 DEF AuthInv

\* A step of one attempt that constructs nothing.
LEMMA AttemptMoves ==
    ASSUME AuthInv, NEW a \in Attempts, NEW t \in Tries, attempt' = [attempt EXCEPT ![a] = t],
           UNCHANGED <<setup, latest, boot, nth, calm, made, classes, registered, inPassport>>,
           Grounded(t), Due(t), t.at = "building" => t.by = latest
    PROVE  AuthInv'
<1>1. AuthTyped /\ Decided /\ Calm /\ Booted /\ Owed
  BY DEF AuthInv
<1>2. \A b \in Attempts : attempt'[b] = IF b = a THEN t ELSE attempt[b]
  BY <1>1 DEF AuthTyped
<1>3. AuthTyped'
  <2>1. attempt' \in [Attempts -> Tries]
    BY <1>1 DEF AuthTyped
  <2> QED BY <1>1, <2>1 DEF AuthTyped
<1>4. Decided'
  <2>1. \A b \in Attempts : Grounded(attempt'[b])
    BY <1>1, <1>2 DEF Decided
  <2> QED BY <2>1 DEF Decided
<1>5. Owed'
  <2>1. ASSUME NEW b \in Attempts
        PROVE  Due(attempt[b])'
    <3>1. Due(attempt'[b])
      BY <1>1, <1>2 DEF Owed
    <3> QED BY <3>1 DEF Due, Auth!Held, Auth!Provided
  <2> QED BY <2>1 DEF Owed
<1>6. Calm'
  BY <1>1, <1>2 DEF Calm
<1>7. Booted'
  BY <1>1 DEF Booted, Auth!Provided
<1> QED BY <1>3, <1>4, <1>5, <1>6, <1>7 DEF AuthInv

LEMMA OnBegin == ASSUME RuntimeAssumption, AuthInv, NEW a \in Attempts, NEW g \in Guards,
                        Auth!Begin(a, g)
                 PROVE  AuthInv'
<1>1. AuthTyped /\ Decided /\ Calm /\ Booted /\ Owed
  BY DEF AuthInv
<1>2. UNCHANGED <<setup, latest, boot, nth, calm, made, classes, registered, inPassport>>
  BY DEF Auth!Begin, Auth!apps, Auth!registries
<1>3. PICK owed : owed = IF calm /\ boot = "ready" /\ g # <<>> /\ Auth!First(g) \in Auth!Held
                         THEN latest ELSE 0
  OBVIOUS
<1>4. owed \in Nat
  BY <1>1, <1>3, ProvidedTyped
<1>5. ASSUME NEW t \in Tries, attempt' = [attempt EXCEPT ![a] = t],
             t.at \in {"answered", "circular", "building", "validating", "unfound"},
             t.guard = g, t.owed = owed,
             t.at # "unfound" => g # <<>>,
             t.at = "building" => t.by = latest /\ Auth!First(g) \in Auth!Held,
             t.at = "validating" => t.by = registered[Auth!First(g)] /\ t.by # 0,
             t.at \in {"answered", "circular", "building"} => Auth!Known(g),
             t.at = "unfound" /\ g # <<>> => registered[Auth!First(g)] = 0
      PROVE  AuthInv'
  <2>1. t.at = "building" => latest # 0
    BY <1>1, <1>5 DEF Auth!Held, AuthTyped
  <2>2. Grounded(t)
    BY <1>5, <2>1 DEF Grounded
  <2>3. Due(t)
    <3>1. SUFFICES ASSUME owed # 0
                   PROVE  /\ calm /\ boot = "ready" /\ owed = latest
                          /\ g # <<>> /\ g[1] \in Auth!Held
                          /\ t.at = "unfound" \/ (t.by = latest /\ t.at = "validating")
      BY <1>5 DEF Due
    <3>2. calm /\ boot = "ready" /\ owed = latest /\ g # <<>> /\ Auth!First(g) \in Auth!Held
      BY <1>3, <3>1
    <3>3. Auth!First(g) = g[1] /\ g[1] \in Strategies
      BY <3>2, NamedFirst
    <3>4. g[1] \in made
      <4>1. DOMAIN Auth!Provided = 1 .. Len(Auth!Provided)
        BY <1>1, ProvidedTyped
      <4> QED BY <1>1, <3>2, <3>3, <4>1 DEF Booted, Auth!Held
    <3>5. g[1] \notin Unnamed => registered[g[1]] = latest
      BY <1>1, <3>2, <3>4 DEF Calm
    <3>6. g[1] \in Unnamed => registered[g[1]] = 0 /\ g[1] \notin classes
      BY <1>1, <3>3 DEF Calm, AuthTyped
    <3>7. ~Auth!Known(g)
      BY <3>1, <3>2, <3>3, <3>5, <3>6 DEF Auth!Known
    <3>8. t.at = "unfound" \/ (t.by = latest /\ t.at = "validating")
      BY <1>5, <3>3, <3>5, <3>6, <3>7
    <3> QED BY <3>2, <3>3, <3>8
  <2> QED BY <1>2, <1>5, <2>2, <2>3, AttemptMoves
<1>6. CASE Auth!Known(g)
  <2>1. PICK at \in {"answered", "circular", "building"} : at = Auth!Asked(g, Auth!First(g))
    BY DEF Auth!Asked
  <2>2. latest \in Nat /\ g # <<>>
    BY <1>1, <1>6, ProvidedTyped DEF Auth!Known
  <2>3. PICK t : t = [Auth!Idle EXCEPT !.at = at, !.guard = g, !.by = latest, !.owed = owed]
    OBVIOUS
  <2>4. t \in Tries /\ t.at = at /\ t.guard = g /\ t.by = latest /\ t.owed = owed
    BY <1>4, <2>1, <2>2, <2>3 DEF Auth!Idle, Tries, Attempted
  <2>5. attempt' = [attempt EXCEPT ![a] = t]
    BY <2>3, <1>3, <1>6, <2>1 DEF Auth!Begin
  <2>6. at = "building" => Auth!First(g) \in Auth!Held
    BY <2>1 DEF Auth!Asked
  <2> QED BY <1>5, <1>6, <2>1, <2>2, <2>6, <2>5, <2>4
<1>7. CASE ~Auth!Known(g) /\ g # <<>> /\ registered[Auth!First(g)] # 0
  <2>1. PICK n \in Nat : n = registered[Auth!First(g)]
    BY <1>1, <1>7, NamedFirst DEF AuthTyped
  <2>2. PICK t : t = [Auth!Idle EXCEPT !.at = "validating", !.guard = g, !.by = n, !.owed = owed]
    OBVIOUS
  <2>3. t \in Tries /\ t.at = "validating" /\ t.guard = g /\ t.by = n /\ t.owed = owed
    BY <1>4, <2>1, <2>2 DEF Auth!Idle, Tries, Attempted
  <2>4. attempt' = [attempt EXCEPT ![a] = t]
    BY <2>2, <1>3, <1>7, <2>1 DEF Auth!Begin
  <2> QED BY <1>5, <1>7, <2>1, <2>4, <2>3
<1>8. CASE ~Auth!Known(g) /\ (g = <<>> \/ registered[Auth!First(g)] = 0)
  <2>1. PICK t : t = [Auth!Idle EXCEPT !.at = "unfound", !.guard = g, !.by = 0, !.owed = owed]
    OBVIOUS
  <2>2. t \in Tries /\ t.at = "unfound" /\ t.guard = g /\ t.by = 0 /\ t.owed = owed
    BY <1>4, <2>1 DEF Auth!Idle, Tries, Attempted
  <2>3. attempt' = [attempt EXCEPT ![a] = t]
    BY <2>1, <1>3, <1>8 DEF Auth!Begin
  <2> QED BY <1>5, <1>8, <2>3, <2>2
<1> QED BY <1>6, <1>7, <1>8

LEMMA OnDecision == ASSUME RuntimeAssumption, AuthInv, NEW a \in Attempts,
                           Auth!Again(a) \/ Auth!Fallback(a) \/ Auth!Decide(a)
                    PROVE  AuthInv'
<1>1. /\ AuthTyped /\ Decided /\ Calm /\ Booted /\ Owed
      /\ attempt \in [Attempts -> Tries] /\ attempt[a] \in Tries
      /\ Grounded(attempt[a]) /\ Due(attempt[a])
  BY DEF AuthInv, AuthTyped, Decided, Owed
<1>2. UNCHANGED <<setup, latest, boot, nth, calm, made, classes, registered, inPassport>>
  BY DEF Auth!Again, Auth!Fallback, Auth!Decide, Auth!apps, Auth!registries
<1>3. ASSUME NEW at \in {"unfound", "typeless", "unknown"}, Auth!To(a, at),
             attempt[a].owed = 0
      PROVE  AuthInv'
  <2>1. PICK t : t = [attempt[a] EXCEPT !.at = at]
    OBVIOUS
  <2>2. t \in Tries /\ t.at = at /\ t.owed = 0
    BY <1>1, <1>3, <2>1 DEF Tries, Attempted
  <2>3. attempt' = [attempt EXCEPT ![a] = t]
    BY <1>1, <1>3, <2>1 DEF Auth!To
  <2>4. Grounded(t) /\ Due(t)
    BY <2>2 DEF Grounded, Due
  <2> QED BY <1>2, <2>2, <2>3, <2>4, AttemptMoves
<1>4. ASSUME NEW n \in Nat \ {0}, Auth!Validated(a, n), attempt[a].guard # <<>>,
             attempt[a].owed # 0 => n = latest
      PROVE  AuthInv'
  <2>1. PICK t : t = [attempt[a] EXCEPT !.at = "validating", !.by = n]
    OBVIOUS
  <2>2. /\ t \in Tries /\ t.at = "validating" /\ t.by = n
        /\ t.owed = attempt[a].owed /\ t.guard = attempt[a].guard
    BY <1>1, <2>1 DEF Tries, Attempted
  <2>3. attempt' = [attempt EXCEPT ![a] = t]
    BY <1>1, <1>4, <2>1 DEF Auth!Validated
  <2>4. Grounded(t) /\ Due(t)
    BY <1>1, <1>4, <2>2 DEF Grounded, Due
  <2> QED BY <1>2, <2>2, <2>3, <2>4, AttemptMoves
<1>5. CASE Auth!Again(a)
  <2>1. attempt[a].at = "answered" /\ attempt[a].guard # <<>> /\ attempt[a].owed = 0
    BY <1>1, <1>5 DEF Auth!Again, Grounded, Due
  <2>2. registered[Auth!First(attempt[a].guard)] \in Nat
    BY <1>1, <2>1, NamedFirst DEF AuthTyped, Tries
  <2> QED BY <1>3, <1>4, <1>5, <2>1, <2>2 DEF Auth!Again
<1>6. CASE Auth!Fallback(a)
  <2>1. attempt[a].at = "unfound"
    BY <1>6 DEF Auth!Fallback
  <2>2. attempt[a].guard # <<>> =>
           /\ Auth!First(attempt[a].guard) = attempt[a].guard[1]
           /\ attempt[a].guard[1] \in Strategies
           /\ inPassport[attempt[a].guard[1]] \in Nat
    BY <1>1, NamedFirst DEF AuthTyped, Tries
  <2>3. ASSUME attempt[a].owed # 0
        PROVE  /\ attempt[a].guard # <<>> /\ latest # 0
               /\ inPassport[attempt[a].guard[1]] = latest
    <3>1. /\ calm /\ boot = "ready" /\ attempt[a].owed = latest
          /\ attempt[a].guard # <<>> /\ attempt[a].guard[1] \in Auth!Held
      BY <1>1, <2>3 DEF Due
    <3>2. attempt[a].guard[1] \in made
      <4>1. DOMAIN Auth!Provided = 1 .. Len(Auth!Provided)
        BY <1>1, ProvidedTyped
      <4> QED BY <1>1, <3>1, <4>1 DEF Booted, Auth!Held
    <3> QED BY <1>1, <2>3, <3>1, <3>2 DEF Calm
  <2>4. CASE attempt[a].guard = <<>> /\ Auth!To(a, "typeless")
    BY <1>3, <2>3, <2>4
  <2>5. CASE /\ attempt[a].guard # <<>> /\ inPassport[attempt[a].guard[1]] # 0
             /\ Auth!Validated(a, inPassport[attempt[a].guard[1]])
    BY <1>4, <2>2, <2>3, <2>5
  <2>6. CASE /\ attempt[a].guard # <<>> /\ inPassport[attempt[a].guard[1]] = 0
             /\ Auth!To(a, "unknown")
    BY <1>3, <2>3, <2>6
  <2> QED BY <1>6, <2>2, <2>4, <2>5, <2>6 DEF Auth!Fallback
<1>7. CASE Auth!Decide(a)
  <2>1. PICK user \in {"found", "none", "threw"} :
           attempt' = [attempt EXCEPT ![a].user = user, ![a].at = Auth!Verdict(user)]
    BY <1>7 DEF Auth!Decide
  <2>2. PICK t : t = [attempt[a] EXCEPT !.user = user, !.at = Auth!Verdict(user)]
    OBVIOUS
  <2>3. /\ Auth!Verdict(user) \in {"threw", "denied", "allowed"}
        /\ Auth!Verdict(user) = "allowed" => user = "found"
    BY DEF Auth!Verdict
  <2>4. /\ t \in Tries /\ t.at = Auth!Verdict(user) /\ t.user = user
        /\ t.by = attempt[a].by /\ t.owed = attempt[a].owed /\ t.guard = attempt[a].guard
    BY <1>1, <2>2, <2>3 DEF Tries, Attempted
  <2>5. attempt' = [attempt EXCEPT ![a] = t]
    BY <1>1, <2>1, <2>2
  <2>6. attempt[a].at = "validating"
    BY <1>7 DEF Auth!Decide
  <2>7. Grounded(t)
    BY <1>1, <2>3, <2>4, <2>6 DEF Grounded
  <2>8. Due(t)
    BY <1>1, <2>3, <2>4, <2>6 DEF Due
  <2> QED BY <1>2, <2>3, <2>4, <2>5, <2>7, <2>8, AttemptMoves
<1> QED BY <1>5, <1>6, <1>7

\* What a strategy's constructor leaves in the registries.
LEMMA Constructed ==
    ASSUME AuthTyped, Calm, NEW s \in Strategies, NEW n \in Nat, Auth!Construct(s, n)
    PROVE  /\ registered' \in [Strategies -> Nat] /\ inPassport' \in [Strategies -> Nat]
           /\ \A x \in Strategies : x \in Unnamed => registered'[x] = 0
           /\ inPassport'[s] = n /\ (s \notin Unnamed => registered'[s] = n)
           /\ \A x \in Strategies \ {s} : /\ inPassport'[x] = inPassport[x]
                                          /\ registered'[x] = registered[x]
  BY DEF AuthTyped, Calm, Auth!Construct, Auth!Registered

LEMMA OnConstruction == ASSUME RuntimeAssumption, AuthInv, NEW a \in Attempts,
                               Auth!Construction(a)
                        PROVE  AuthInv'
<1>1. /\ AuthTyped /\ Decided /\ Calm /\ Booted /\ Owed
      /\ attempt \in [Attempts -> Tries] /\ attempt[a] \in Tries
      /\ Grounded(attempt[a]) /\ Due(attempt[a]) /\ attempt[a].at = "building"
  BY DEF AuthInv, AuthTyped, Decided, Owed, Auth!Construction
<1>2. UNCHANGED <<setup, latest, boot, nth, calm, classes>>
  BY DEF Auth!Construction, Auth!apps
<1>3. PICK n \in Nat : n = attempt[a].by
  BY <1>1 DEF Tries
<1>4. PICK s \in Strategies : s = Auth!First(attempt[a].guard)
  BY <1>1, NamedFirst DEF Grounded, Tries
<1>5. /\ Auth!Construct(s, n) /\ made' = (IF n = latest THEN made \cup {s} ELSE made)
      /\ Auth!To(a, "answered")
  BY <1>3, <1>4 DEF Auth!Construction
<1>6. PICK t : t = [attempt[a] EXCEPT !.at = "answered"]
  OBVIOUS
<1>7. /\ t \in Tries /\ t.at = "answered" /\ t.owed = attempt[a].owed
      /\ t.guard = attempt[a].guard
  BY <1>1, <1>6 DEF Tries, Attempted
<1>8. attempt' = [attempt EXCEPT ![a] = t]
  BY <1>1, <1>5, <1>6 DEF Auth!To
<1>9. \A b \in Attempts : attempt'[b] = IF b = a THEN t ELSE attempt[b]
  BY <1>1, <1>8
<1>10. Grounded(t) /\ Due(t)
  BY <1>1, <1>7 DEF Grounded, Due
<1>11. AuthTyped'
  <2>1. attempt' \in [Attempts -> Tries]
    BY <1>1, <1>7, <1>8
  <2>2. registered' \in [Strategies -> Nat] /\ inPassport' \in [Strategies -> Nat]
    BY <1>1, <1>5, Constructed
  <2>3. made' \subseteq Strategies
    BY <1>1, <1>5 DEF AuthTyped
  <2> QED BY <1>1, <1>2, <2>1, <2>2, <2>3 DEF AuthTyped
<1>12. Decided'
  <2>1. \A b \in Attempts : Grounded(attempt'[b])
    BY <1>1, <1>9, <1>10 DEF Decided
  <2> QED BY <2>1 DEF Decided
<1>13. Owed'
  <2>1. ASSUME NEW b \in Attempts
        PROVE  Due(attempt[b])'
    <3>1. Due(attempt'[b])
      BY <1>1, <1>9, <1>10 DEF Owed
    <3> QED BY <1>2, <3>1 DEF Due, Auth!Held, Auth!Provided
  <2> QED BY <2>1 DEF Owed
<1>14. Calm'
  <2>1. \A x \in Strategies : x \in Unnamed => registered'[x] = 0
    BY <1>1, <1>5, Constructed
  <2>2. ASSUME calm
        PROVE  /\ \A b \in Attempts : attempt'[b].at = "building" => attempt'[b].by = latest
               /\ \A x \in made' : /\ inPassport'[x] = latest
                                   /\ x \notin Unnamed => registered'[x] = latest
    <3>1. n = latest /\ \A b \in Attempts : attempt[b].at = "building" => attempt[b].by = latest
      BY <1>1, <1>3, <2>2 DEF Calm
    <3>2. ASSUME NEW x \in made'
          PROVE  inPassport'[x] = latest /\ (x \notin Unnamed => registered'[x] = latest)
      <4>1. CASE x = s
        BY <1>1, <1>5, <3>1, <4>1, Constructed
      <4>2. CASE x # s
        <5>1. x \in made /\ x \in Strategies \ {s}
          BY <1>1, <1>5, <4>2 DEF AuthTyped
        <5>2. inPassport'[x] = inPassport[x] /\ registered'[x] = registered[x]
          BY <1>1, <1>5, <5>1, Constructed
        <5> QED BY <1>1, <2>2, <5>1, <5>2 DEF Calm
      <4> QED BY <4>1, <4>2
    <3> QED BY <1>7, <1>9, <3>1, <3>2
  <2> QED BY <1>2, <2>1, <2>2 DEF Calm
<1>15. Booted'
  <2>1. made \subseteq made'
    BY <1>5
  <2> QED BY <1>1, <1>2, <2>1 DEF Booted, Auth!Provided
<1> QED BY <1>11, <1>12, <1>13, <1>14, <1>15 DEF AuthInv

\* What an attempt may count on is gone: nothing is owed any more.
LEMMA NoneOwed ==
    ASSUME AuthInv, attempt' = Auth!Unowed
    PROVE  /\ attempt' \in [Attempts -> Tries]
           /\ \A a \in Attempts : /\ attempt'[a].owed = 0 /\ attempt'[a].at = attempt[a].at
                                  /\ attempt'[a].by = attempt[a].by
                                  /\ Grounded(attempt'[a])
<1>1. attempt \in [Attempts -> Tries] /\ \A a \in Attempts : Grounded(attempt[a])
  BY DEF AuthInv, AuthTyped, Decided
<1>2. ASSUME NEW a \in Attempts
      PROVE  /\ attempt'[a] \in Tries /\ attempt'[a].owed = 0 /\ attempt'[a].at = attempt[a].at
             /\ attempt'[a].by = attempt[a].by /\ attempt'[a].guard = attempt[a].guard
             /\ attempt'[a].user = attempt[a].user
  BY <1>1 DEF Auth!Unowed, Tries
<1>3. \A a \in Attempts : Grounded(attempt'[a])
  BY <1>1, <1>2 DEF Grounded
<1>4. attempt' \in [Attempts -> Tries]
  BY <1>2 DEF Auth!Unowed
<1> QED BY <1>2, <1>3, <1>4

LEMMA OnCreate == ASSUME RuntimeAssumption, AuthInv, Auth!Create PROVE AuthInv'
<1>1. AuthTyped /\ Calm
  BY DEF AuthInv
<1>2. /\ latest' = latest + 1 /\ boot' = "registering" /\ nth' = 1 /\ made' = {}
      /\ calm' = (\A a \in Attempts : attempt[a].at # "building")
      /\ attempt' = Auth!Unowed /\ latest < Len(setup)
      /\ setup' = setup /\ classes' = classes /\ registered' = registered
      /\ inPassport' = inPassport
  BY DEF Auth!Create, Auth!registries
<1>3. /\ attempt' \in [Attempts -> Tries]
      /\ \A a \in Attempts : /\ attempt'[a].owed = 0 /\ attempt'[a].at = attempt[a].at
                             /\ Grounded(attempt'[a])
  BY <1>2, NoneOwed
<1>4. latest' \in 0 .. Len(setup) /\ latest' # 0
  BY <1>1, <1>2, ProvidedTyped
<1>5. AuthTyped'
  <2>1. calm' \in BOOLEAN
    BY <1>2
  <2> QED BY <1>1, <1>2, <1>3, <1>4, <2>1 DEF AuthTyped
<1>6. Decided'
  BY <1>3 DEF Decided, Grounded
<1>7. Owed'
  BY <1>3 DEF Owed, Due
<1>8. Calm'
  <2>1. calm' => \A a \in Attempts : attempt'[a].at # "building"
    BY <1>2, <1>3
  <2> QED BY <1>1, <1>2, <2>1 DEF Calm
<1>9. Booted'
  BY <1>2 DEF Booted
<1> QED BY <1>5, <1>6, <1>7, <1>8, <1>9 DEF AuthInv

LEMMA OnShut == ASSUME RuntimeAssumption, AuthInv, NEW n, Auth!Close(n) PROVE AuthInv'
<1>1. AuthTyped /\ Calm /\ Booted
  BY DEF AuthInv
<1>2. /\ calm' = FALSE /\ attempt' = Auth!Unowed
      /\ UNCHANGED <<setup, latest, boot, nth, made>>
      /\ \/ /\ classes' = {} /\ registered' = [s \in Strategies |-> 0]
            /\ inPassport' = registered'
         \/ classes' = classes /\ registered' = registered /\ inPassport' = inPassport
  BY DEF Auth!Close, Auth!registries
<1>3. /\ attempt' \in [Attempts -> Tries]
      /\ \A a \in Attempts : attempt'[a].owed = 0 /\ Grounded(attempt'[a])
  BY <1>2, NoneOwed
<1>4. /\ classes' \subseteq Strategies \ Unnamed
      /\ registered' \in [Strategies -> Nat] /\ inPassport' \in [Strategies -> Nat]
      /\ \A s \in Strategies : s \in Unnamed => registered'[s] = 0
  BY <1>1, <1>2 DEF AuthTyped, Calm
<1>5. AuthTyped'
  BY <1>1, <1>2, <1>3, <1>4 DEF AuthTyped
<1>6. Decided'
  BY <1>3 DEF Decided, Grounded
<1>7. Owed'
  BY <1>3 DEF Owed, Due
<1>8. Calm'
  BY <1>2, <1>4 DEF Calm
<1>9. Booted'
  BY <1>1, <1>2 DEF Booted, Auth!Provided
<1> QED BY <1>5, <1>6, <1>7, <1>8, <1>9 DEF AuthInv

LEMMA OnExit == ASSUME RuntimeAssumption, AuthInv, Auth!Exit PROVE AuthInv'
<1>1. AuthTyped /\ Calm /\ Booted /\ latest # 0
  BY DEF AuthInv, AuthTyped, Auth!Exit
<1>2. /\ boot' = "failed" /\ attempt' = [a \in Attempts |-> [Auth!Idle EXCEPT !.at = "gone"]]
      /\ UNCHANGED <<setup, latest, nth, calm, made, classes, registered, inPassport>>
  BY DEF Auth!Exit, Auth!registries
<1>3. PICK t : t = [Auth!Idle EXCEPT !.at = "gone"]
  OBVIOUS
<1>4. t \in Tries /\ t.at = "gone" /\ t.owed = 0
  BY <1>3 DEF Auth!Idle, Tries, Attempted
<1>5. attempt' \in [Attempts -> Tries] /\ \A a \in Attempts : attempt'[a] = t
  BY <1>2, <1>3, <1>4
<1>6. Grounded(t) /\ Due(t)
  BY <1>4 DEF Grounded, Due
<1>7. AuthTyped'
  BY <1>1, <1>2, <1>5 DEF AuthTyped
<1>8. Decided'
  BY <1>5, <1>6 DEF Decided, Grounded
<1>9. Owed'
  BY <1>4, <1>5 DEF Owed, Due
<1>10. Calm'
  BY <1>1, <1>2, <1>4, <1>5 DEF Calm
<1>11. Booted'
  BY <1>2 DEF Booted
<1> QED BY <1>7, <1>8, <1>9, <1>10, <1>11 DEF AuthInv

\* A step of the boot before the application is ready, when nothing is owed.
LEMMA BootMoves ==
    ASSUME AuthInv, boot # "ready", boot # "none", boot' # "none",
           UNCHANGED <<setup, latest, calm, classes, attempt>>,
           nth' \in Nat \ {0},
           boot' \in {"registering", "building", "loading", "ready", "failed"},
           made' \subseteq Strategies,
           registered' \in [Strategies -> Nat], inPassport' \in [Strategies -> Nat],
           \A s \in Strategies : s \in Unnamed => registered'[s] = 0,
           calm => \A s \in made' : /\ inPassport'[s] = latest
                                    /\ s \notin Unnamed => registered'[s] = latest,
           Booted'
    PROVE  AuthInv'
<1>1. AuthTyped /\ Decided /\ Calm /\ Owed
  BY DEF AuthInv
<1>2. AuthTyped'
  BY <1>1 DEF AuthTyped
<1>3. Decided'
  BY <1>1 DEF Decided
<1>4. \A a \in Attempts : attempt[a].owed = 0
  BY <1>1 DEF Owed, Due
<1>5. Owed'
  BY <1>4 DEF Owed, Due
<1>6. Calm'
  BY <1>1 DEF Calm
<1> QED BY <1>2, <1>3, <1>5, <1>6 DEF AuthInv

LEMMA OnBoot == ASSUME RuntimeAssumption, AuthInv,
                       Auth!Register \/ Auth!LoadNext \/ Auth!Listen
                PROVE  AuthInv'
<1>1. AuthTyped /\ Calm /\ Booted
  BY DEF AuthInv
<1>2. /\ UNCHANGED <<setup, latest, calm, classes, attempt, made, registered, inPassport>>
      /\ boot \in {"registering", "building"} /\ boot' \in {"building", "loading", "ready"}
  BY DEF Auth!Register, Auth!LoadNext, Auth!Listen, Auth!registries
<1>3. PICK p : p = Auth!Provided
  OBVIOUS
<1>4. PICK m \in Nat : m = Len(p)
  <2>1. Len(Auth!Provided) \in Nat
    BY <1>1, ProvidedTyped
  <2> QED BY <1>3, <2>1
<1>5. /\ nth \in Nat \ {0}
      /\ boot = "registering" => nth = 1
      /\ boot = "building" => \A i \in 1 .. m : i < nth => p[i] \in made
  BY <1>1, <1>3, <1>4 DEF AuthTyped, Booted
<1>6. ASSUME nth' \in Nat \ {0},
             boot' = "loading" => nth' <= m,
             boot' \in {"building", "loading"} => \A i \in 1 .. m : i < nth' => p[i] \in made,
             boot' = "ready" => \A i \in 1 .. m : p[i] \in made
      PROVE  AuthInv'
  <2>1. Auth!Provided' = p
    BY <1>2, <1>3 DEF Auth!Provided
  <2>2. Booted'
    BY <1>2, <1>4, <1>6, <2>1 DEF Booted
  <2>3. /\ registered' \in [Strategies -> Nat] /\ inPassport' \in [Strategies -> Nat]
        /\ made' \subseteq Strategies
        /\ \A s \in Strategies : s \in Unnamed => registered'[s] = 0
    BY <1>1, <1>2 DEF AuthTyped, Calm
  <2>4. calm => \A s \in made' : /\ inPassport'[s] = latest
                                 /\ s \notin Unnamed => registered'[s] = latest
    BY <1>1, <1>2 DEF Calm
  <2> QED BY <1>2, <1>6, <2>2, <2>3, <2>4, BootMoves
<1>7. CASE Auth!Register
  <2>1. boot = "registering" /\ boot' = "building" /\ nth' = nth
    BY <1>7 DEF Auth!Register
  <2> QED BY <1>5, <1>6, <2>1
<1>8. CASE Auth!LoadNext
  <2>1. boot = "building" /\ nth <= m
    BY <1>3, <1>4, <1>8 DEF Auth!LoadNext, Auth!Loads
  <2>2. CASE p[nth] \in made /\ nth' = nth + 1 /\ boot' = boot
    <3>1. \A i \in 1 .. m : i < nth + 1 => i < nth \/ i = nth
      BY <1>5
    <3>2. nth + 1 \in Nat \ {0}
      BY <1>5
    <3> QED BY <1>5, <1>6, <2>1, <2>2, <3>1, <3>2
  <2>3. CASE boot' = "loading" /\ nth' = nth
    BY <1>5, <1>6, <2>1, <2>3
  <2> QED BY <1>3, <1>8, <2>2, <2>3 DEF Auth!LoadNext, Auth!NextUp
<1>9. CASE Auth!Listen
  <2>1. boot = "building" /\ ~(nth <= m) /\ boot' = "ready" /\ nth' = nth
    BY <1>3, <1>4, <1>9 DEF Auth!Listen, Auth!Loads
  <2>2. \A i \in 1 .. m : i < nth
    BY <1>5, <2>1
  <2> QED BY <1>5, <1>6, <2>1, <2>2
<1> QED BY <1>7, <1>8, <1>9

LEMMA OnBuiltNext == ASSUME RuntimeAssumption, AuthInv, Auth!Built PROVE AuthInv'
<1>1. AuthTyped /\ Calm /\ Booted
  BY DEF AuthInv
<1>2. PICK p : p = Auth!Provided
  OBVIOUS
<1>3. PICK m \in Nat : m = Len(p) /\ \A i \in 1 .. m : p[i] \in Strategies
  <2>1. /\ Len(Auth!Provided) \in Nat
        /\ \A i \in 1 .. Len(Auth!Provided) : Auth!Provided[i] \in Strategies
    BY <1>1, ProvidedTyped
  <2> QED BY <1>2, <2>1
<1>4. /\ nth \in Nat \ {0} /\ nth <= m /\ boot = "loading"
      /\ \A i \in 1 .. m : i < nth => p[i] \in made
  BY <1>1, <1>2, <1>3 DEF AuthTyped, Booted, Auth!Built
<1>5. PICK s \in Strategies : s = p[nth]
  BY <1>3, <1>4
<1>6. /\ boot' = "building" /\ nth' = nth + 1 /\ Auth!Construct(s, latest)
      /\ made' = made \cup {s}
      /\ UNCHANGED <<setup, latest, calm, classes, attempt>>
  BY <1>2, <1>5 DEF Auth!Built, Auth!NextUp
<1>7. latest \in Nat
  BY <1>1, ProvidedTyped
<1>8. /\ registered' \in [Strategies -> Nat] /\ inPassport' \in [Strategies -> Nat]
      /\ \A x \in Strategies : x \in Unnamed => registered'[x] = 0
      /\ inPassport'[s] = latest /\ (s \notin Unnamed => registered'[s] = latest)
      /\ \A x \in Strategies \ {s} : /\ inPassport'[x] = inPassport[x]
                                     /\ registered'[x] = registered[x]
  BY <1>1, <1>6, <1>7, Constructed
<1>9. made' \subseteq Strategies
  BY <1>1, <1>6 DEF AuthTyped
<1>10. calm => \A x \in made' : /\ inPassport'[x] = latest
                                /\ x \notin Unnamed => registered'[x] = latest
  <2>1. ASSUME calm, NEW x \in made'
        PROVE  inPassport'[x] = latest /\ (x \notin Unnamed => registered'[x] = latest)
    <3>1. CASE x = s
      BY <1>8, <3>1
    <3>2. CASE x # s
      <4>1. x \in made /\ x \in Strategies \ {s}
        BY <1>6, <1>9, <3>2
      <4> QED BY <1>1, <1>8, <2>1, <4>1 DEF Calm
    <3> QED BY <3>1, <3>2
  <2> QED BY <2>1
<1>11. Booted'
  <2>1. Auth!Provided' = p
    BY <1>2, <1>6 DEF Auth!Provided
  <2>2. \A i \in 1 .. m : i < nth + 1 => i < nth \/ i = nth
    BY <1>4
  <2>3. \A i \in 1 .. m : i < nth' => p[i] \in made'
    BY <1>4, <1>5, <1>6, <2>2
  <2> QED BY <1>3, <1>6, <2>1, <2>3 DEF Booted
<1>12. nth' \in Nat \ {0}
  BY <1>4, <1>6
<1> QED BY <1>4, <1>6, <1>8, <1>9, <1>10, <1>11, <1>12, BootMoves

LEMMA AuthStep == ASSUME RuntimeAssumption, AuthInv, [Auth!Next]_auth PROVE AuthInv'
<1>1. CASE Auth!Next
  <2>1. CASE \/ Auth!Create \/ Auth!Register \/ Auth!LoadNext \/ Auth!Exit \/ Auth!Built
             \/ Auth!Listen \/ \E n \in listening : Auth!Close(n)
    BY <2>1, OnCreate, OnBoot, OnExit, OnBuiltNext, OnShut
  <2>2. ASSUME NEW a \in Attempts, Auth!Step(a) \/ \E g \in Guards : Auth!Begin(a, g)
        PROVE  AuthInv'
    BY <2>2, OnConstruction, OnDecision, OnBegin DEF Auth!Step
  <2> QED BY <1>1, <2>1, <2>2 DEF Auth!Next
<1>2. CASE UNCHANGED auth
  <2>1. AuthTyped /\ Decided /\ Calm /\ Booted /\ Owed
    BY DEF AuthInv
  <2>2. UNCHANGED <<setup, latest, boot, nth, calm, made, classes, registered, inPassport, attempt>>
    BY <1>2 DEF auth
  <2>3. AuthTyped' /\ Calm'
    BY <2>1, <2>2 DEF AuthTyped, Calm
  <2>4. Decided' /\ Booted'
    BY <2>1, <2>2 DEF Decided, Booted, Auth!Provided
  <2>5. Owed'
    BY <2>1, <2>2 DEF Owed, Due, Auth!Held, Auth!Provided
  <2> QED BY <2>3, <2>4, <2>5 DEF AuthInv
<1> QED BY <1>1, <1>2

LEMMA AuthKeeps ==
    ASSUME RuntimeAssumption, AuthInv
    PROVE  Auth!OnlyUsersEnter /\ Auth!OwnStrategiesDecide
<1>1. AuthTyped /\ Decided /\ Calm /\ Booted /\ Owed
  BY DEF AuthInv
<1>2. Auth!OnlyUsersEnter
  BY <1>1 DEF Decided, Grounded, Auth!OnlyUsersEnter
<1>3. Auth!OwnStrategiesDecide
  <2>1. ASSUME calm, boot = "ready", NEW s \in Auth!Held
        PROVE  inPassport[s] = latest
    <3>1. s \in made
      <4>1. DOMAIN Auth!Provided = 1 .. Len(Auth!Provided)
        BY <1>1, ProvidedTyped
      <4> QED BY <1>1, <2>1, <4>1 DEF Booted, Auth!Held
    <3> QED BY <1>1, <2>1, <3>1 DEF Calm
  <2>2. ASSUME NEW a \in Attempts, attempt[a].owed # 0
        PROVE  \/ attempt[a].at = "unfound"
               \/ /\ attempt[a].by = attempt[a].owed
                  /\ attempt[a].at \in {"validating", "allowed", "denied", "threw"}
    BY <1>1, <2>2 DEF Owed, Due
  <2> QED BY <2>1, <2>2 DEF Auth!OwnStrategiesDecide
<1> QED BY <1>2, <1>3

-----------------------------------------------------------------------------
(* The parts together: a step is one part's, and leaves the others as they are. *)

RuntimeInv == TimersInv /\ JobsInv /\ LogsInv /\ AuthInv /\ CacheInv /\ HttpInv

LEMMA TimersRest == ASSUME TimersInv, UNCHANGED timers PROVE TimersInv'
<1>1. TimersTyped' /\ Unmade' /\ Starting' /\ Armed'
  BY DEF timers, TimersInv, TimersTyped, Unmade, Starting, Armed
<1> QED BY <1>1 DEF TimersInv

LEMMA JobsRest == ASSUME JobsInv, UNCHANGED jobs PROVE JobsInv'
<1>1. JobsTyped' /\ Brought' /\ Reached'
  BY DEF jobs, JobsInv, JobsTyped, Brought, Reached
<1> QED BY <1>1 DEF JobsInv

LEMMA LogsRest == ASSUME LogsInv, UNCHANGED logs PROVE LogsInv'
<1>1. UNCHANGED <<sent, logBuffer, attached, broken>>
  BY DEF logs
<1> QED BY <1>1 DEF LogsInv

LEMMA RuntimeInit == ASSUME RuntimeAssumption, Init PROVE RuntimeInv
<1>1. /\ Timers!Init /\ Jobs!Init /\ Logs!Init /\ Auth!Init /\ Cache!Init /\ Http!Init
      /\ Logs!LoggingAssumption
  BY DEF Init, RuntimeAssumption
<1> QED BY <1>1, TimersInit, JobsInit, LogsInit, AuthInit, CacheInit, HttpInit DEF RuntimeInv

LEMMA RuntimeStep == ASSUME RuntimeAssumption, RuntimeInv, [Next]_vars PROVE RuntimeInv'
<1>1. TimersInv /\ JobsInv /\ LogsInv /\ AuthInv /\ CacheInv /\ HttpInv /\ Logs!LoggingAssumption
  BY DEF RuntimeInv, RuntimeAssumption
<1>2. /\ Timers!Next \/ UNCHANGED timers
      /\ Jobs!Next \/ UNCHANGED jobs
      /\ Logs!Next \/ UNCHANGED logs
      /\ [Auth!Next]_auth /\ [Cache!Next]_lru /\ [Http!Next]_http
  <2>1. CASE Answers
    BY <2>1 DEF Answers
  <2>2. CASE Delivers
    BY <2>2 DEF Delivers
  <2>3. CASE Ticks
    BY <2>3 DEF Ticks
  <2>4. CASE Caches
    BY <2>4 DEF Caches
  <2>5. CASE Enqueues
    BY <2>5 DEF Enqueues
  <2>6. CASE Admits
    BY <2>6 DEF Admits
  <2>7. CASE Writes
    BY <2>7 DEF Writes
  <2>8. CASE UNCHANGED vars
    BY <2>8 DEF vars
  <2> QED BY <2>1, <2>2, <2>3, <2>4, <2>5, <2>6, <2>7, <2>8 DEF Next
<1>3. TimersInv'
  BY <1>1, <1>2, TimersStep, TimersRest
<1>4. JobsInv'
  BY <1>1, <1>2, JobsStep, JobsRest
<1>5. LogsInv'
  BY <1>1, <1>2, LogsStep, LogsRest
<1>6. AuthInv' /\ CacheInv' /\ HttpInv'
  BY <1>1, <1>2, AuthStep, CacheStep, HttpStep
<1> QED BY <1>3, <1>4, <1>5, <1>6 DEF RuntimeInv

LEMMA RuntimeAlways == Spec => []RuntimeInv
<1>1. RuntimeAssumption
  BY RuntimeAssumption
<1>2. Init => RuntimeInv
  BY <1>1, RuntimeInit
<1>3. RuntimeInv /\ [Next]_vars => RuntimeInv'
  BY <1>1, RuntimeStep
<1> QED BY <1>2, <1>3, PTL DEF Spec

\* Whatever the routes, the guards and the requests around one, nothing of a request runs
\* before every guard has allowed it; an AuthGuard admits only where the strategy it names
\* found a user; and once an application is ready, until another is created or one is
\* closed, its own strategies decide (route-handler.ts 203-229, auth.guard.ts).
THEOREM GuardsComeFirst == Spec => []GuardsFirst
<1>1. RuntimeAssumption
  BY RuntimeAssumption
<1>2. RuntimeInv => GuardsFirst
  BY <1>1, HttpKeeps, AuthKeeps DEF RuntimeInv, GuardsFirst
<1> QED BY <1>2, RuntimeAlways, PTL

\* However requests overlap: the request-scoped guards of an HTTP route, the interceptors
\* and the parameters of a request are its own where they have to be, singletons are
\* everybody's (route-handler.ts 146-201).
THEOREM ScopesAreKept == Spec => []ScopesHonoured
<1>1. RuntimeAssumption
  BY RuntimeAssumption
<1>2. RuntimeInv => ScopesHonoured
  BY <1>1, HttpKeeps DEF RuntimeInv, ScopesHonoured
<1> QED BY <1>2, RuntimeAlways, PTL

\* For any tasks, queues, workers and shutdowns: every timer that can still fire belongs to
\* a live handle that the map or a constructor has; every queue, worker and client of our
\* own that is open is in a map or shared, unless something was made while a close()
\* waited; and the client the application brought stays connected
\* (scheduler.service.ts 186-192, bullmq.service.ts 215-232).
THEOREM NothingOutlivesShutdown == Spec => []ShutdownReaches
<1>1. RuntimeInv => ShutdownReaches
  BY TimersReach, JobsReach DEF RuntimeInv, ShutdownReaches
<1> QED BY <1>1, RuntimeAlways, PTL

\* The cache holds the keys used last, in that order and within its bound, each for a
\* request of its own; the log buffer holds the messages logged last
\* (cache.providers.ts 27-54, logger.service.ts 49-62).
THEOREM RecentIsKept == Spec => []KeepsRecent
<1>1. RuntimeInv => KeepsRecent
  BY CacheKeeps, LogsKeep DEF RuntimeInv, KeepsRecent
<1> QED BY <1>1, RuntimeAlways, PTL

\* When a task is refused, every handle left in the map is alive: those that were cancelled
\* have been cleaned up and do not count against maxTasks (scheduler.service.ts 57-77).
THEOREM RefusedForLiveTasks == Spec => LimitCountsLive
<1>1. Timers!SchedulerAssumption
  BY RuntimeAssumption DEF RuntimeAssumption
<1>2. RuntimeInv /\ [Next]_vars => [Timers!Refusal => Timers!RefusedForLive]_vars
  <2>1. SUFFICES ASSUME RuntimeInv, Next, Timers!Refusal
                 PROVE  Timers!RefusedForLive
    OBVIOUS
  <2>2. refused' # refused
    BY <2>1 DEF Timers!Refusal
  <2>3. Timers!Next
    BY <2>1, <2>2 DEF Next, Answers, Delivers, Ticks, Caches, Enqueues, Admits, Writes, timers
  <2> QED BY <1>1, <2>1, <2>2, <2>3, RefusalsAreForLive DEF RuntimeInv
<1> QED BY <1>2, RuntimeAlways, PTL DEF Spec, LimitCountsLive

(***************************************************************************)
(* Events and the log: what is called is in force                          *)
(***************************************************************************)
\* A set of numbers that is not empty has a least one.
LEMMA LeastOf ==
    ASSUME NEW T \in SUBSET Nat, T # {}
    PROVE  \E n \in T : \A m \in T : n <= m
<1>1. PICK R : R = OpToRel(<, Nat)
  OBVIOUS
<1>2. IsWellFoundedOn(R, Nat)
  BY <1>1, NatLessThanWellFounded
<1>3. \A x, y \in Nat : x < y => <<x, y>> \in R
  BY <1>1 DEF OpToRel
<1>4. \E x \in T : \A y \in T : ~ (<<y, x>> \in R)
  BY <1>2, WFMin
<1>5. PICK x \in T : \A y \in T : ~ (<<y, x>> \in R)
  BY <1>4
<1>6. \A y \in T : x <= y
  <2> SUFFICES ASSUME NEW y \in T PROVE x <= y
    OBVIOUS
  <2>1. x \in Nat /\ y \in Nat /\ ~(y < x)
    BY <1>3, <1>5
  <2> QED BY <2>1
<1> QED BY <1>5, <1>6

\* What holds of zero and of the number after one it holds of holds of all.
LEMMA Climbs ==
    ASSUME NEW n \in Nat, NEW S, 0 \in S, \A i \in 1 .. n : i - 1 \in S => i \in S
    PROVE  0 .. n \subseteq S
<1> SUFFICES ASSUME NEW k \in 0 .. n, k \notin S PROVE FALSE
  OBVIOUS
<1>1. PICK U : U = {i \in 0 .. n : i \notin S}
  OBVIOUS
<1>2. U \in SUBSET Nat /\ U # {}
  BY <1>1
<1>3. PICK m \in U : \A j \in U : m <= j
  BY <1>2, LeastOf
<1>4. m \in 1 .. n /\ m \notin S
  BY <1>1, <1>3
<1>5. m - 1 \in 0 .. n /\ m - 1 \notin U
  BY <1>1, <1>3, <1>4
<1> QED BY <1>1, <1>4, <1>5

-----------------------------------------------------------------------------
(* Events: arrays of registrations *)

Ran(s) == {s[i] : i \in 1 .. Len(s)}
Picks(f, s, S, n) ==
    \A i \in 1 .. n : f[i] = IF s[i] \in S THEN Append(f[i - 1], s[i]) ELSE f[i - 1]

LEMMA PicksExist ==
    ASSUME NEW T, NEW s \in Seq(T), NEW S
    PROVE  \E f \in [0 .. Len(s) -> Seq(T)] : f[0] = <<>> /\ Picks(f, s, S, Len(s))
<1>1. PICK N \in Nat : N = Len(s)
  BY LenProperties
<1>2. PICK U : U = {n \in 0 .. N : \E f \in [0 .. n -> Seq(T)] : f[0] = <<>> /\ Picks(f, s, S, n)}
  OBVIOUS
<1>3. 0 \in U
  <2>1. PICK f : f = [i \in 0 .. 0 |-> <<>>]
    OBVIOUS
  <2>2. f \in [0 .. 0 -> Seq(T)] /\ f[0] = <<>>
    BY <2>1
  <2>3. Picks(f, s, S, 0)
    BY DEF Picks
  <2> QED BY <1>2, <2>2, <2>3
<1>4. ASSUME NEW n \in 1 .. N, n - 1 \in U PROVE n \in U
  <2>1. PICK f \in [0 .. n - 1 -> Seq(T)] : f[0] = <<>> /\ Picks(f, s, S, n - 1)
    BY <1>2, <1>4
  <2>2. PICK e : e = IF s[n] \in S THEN Append(f[n - 1], s[n]) ELSE f[n - 1]
    OBVIOUS
  <2>3. n - 1 \in 0 .. n - 1 /\ s[n] \in T
    BY <1>1, ElementOfSeq
  <2>4. e \in Seq(T)
    BY <2>2, <2>3, AppendProperties
  <2>5. PICK g : g = [i \in 0 .. n |-> IF i = n THEN e ELSE f[i]]
    OBVIOUS
  <2>6. g \in [0 .. n -> Seq(T)] /\ g[0] = <<>> /\ g[n] = e /\ \A i \in 0 .. n - 1 : g[i] = f[i]
    BY <2>1, <2>4, <2>5
  <2>7. ASSUME NEW i \in 1 .. n
        PROVE  g[i] = IF s[i] \in S THEN Append(g[i - 1], s[i]) ELSE g[i - 1]
    <3>1. CASE i = n
      BY <2>2, <2>3, <2>6, <3>1
    <3>2. CASE i # n
      <4>1. i \in 1 .. n - 1 /\ i \in 0 .. n - 1 /\ i - 1 \in 0 .. n - 1
        BY <3>2
      <4> QED BY <2>1, <2>6, <4>1 DEF Picks
    <3> QED BY <3>1, <3>2
  <2>8. Picks(g, s, S, n) /\ n \in 0 .. N
    BY <2>7 DEF Picks
  <2> QED BY <1>2, <2>6, <2>8
<1>5. N \in U
  <2>1. 0 .. N \subseteq U
    BY <1>3, <1>4, Climbs
  <2> QED BY <2>1
<1> QED BY <1>1, <1>2, <1>5

LEMMA PicksKeep ==
    ASSUME NEW T, NEW s \in Seq(T), NEW S, NEW f \in [0 .. Len(s) -> Seq(T)],
           f[0] = <<>>, Picks(f, s, S, Len(s)), NEW n \in 0 .. Len(s)
    PROVE  /\ Len(f[n]) <= n
           /\ Ran(f[n]) = {s[i] : i \in 1 .. n} \cap S
           /\ Events!Ascending(s) => Events!Ascending(f[n])
<1>1. PICK N \in Nat : N = Len(s)
  BY LenProperties
<1>2. PICK U : U = {k \in 0 .. N : /\ Len(f[k]) <= k
                                   /\ Ran(f[k]) = {s[i] : i \in 1 .. k} \cap S
                                   /\ Events!Ascending(s) => Events!Ascending(f[k])}
  OBVIOUS
<1>3. 0 \in U
  <2>1. Len(f[0]) = 0 /\ DOMAIN f[0] = {} /\ f[0] = <<>>
    OBVIOUS
  <2>2. Ran(f[0]) = {} /\ {s[i] : i \in 1 .. 0} = {} /\ Events!Ascending(f[0])
    BY <2>1 DEF Ran, Events!Ascending
  <2> QED BY <1>2, <2>1, <2>2
<1>4. ASSUME NEW k \in 1 .. N, k - 1 \in U PROVE k \in U
  <2>1. PICK g \in Seq(T) : g = f[k - 1]
    BY <1>1
  <2>2. /\ Len(g) <= k - 1
        /\ Ran(g) = {s[i] : i \in 1 .. k - 1} \cap S
        /\ Events!Ascending(s) => Events!Ascending(g)
    BY <1>2, <1>4, <2>1
  <2>3. PICK l \in Nat : l = Len(g)
    BY LenProperties
  <2>4. f[k] = IF s[k] \in S THEN Append(g, s[k]) ELSE g
    BY <1>1, <2>1 DEF Picks
  <2>5. {s[i] : i \in 1 .. k} = {s[i] : i \in 1 .. k - 1} \cup {s[k]}
    <3>1. \A i \in 1 .. k : i = k \/ i \in 1 .. k - 1
      OBVIOUS
    <3>2. k \in 1 .. k /\ \A i \in 1 .. k - 1 : i \in 1 .. k
      OBVIOUS
    <3> QED BY <3>1, <3>2
  <2>6. CASE s[k] \notin S
    <3>1. f[k] = g
      BY <2>4, <2>6
    <3>2. Len(g) <= k /\ Ran(g) = {s[i] : i \in 1 .. k} \cap S
      BY <2>2, <2>3, <2>5, <2>6
    <3> QED BY <1>2, <2>2, <3>1, <3>2
  <2>7. CASE s[k] \in S
    <3>1. s[k] \in T
      BY <1>1, ElementOfSeq
    <3>2. PICK h \in Seq(T) : h = Append(g, s[k])
      BY <3>1, AppendProperties
    <3>3. Len(h) = l + 1 /\ h[l + 1] = s[k] /\ \A i \in 1 .. l : h[i] = g[i]
      BY <2>3, <3>1, <3>2, AppendProperties
    <3>4. Ran(h) = Ran(g) \cup {s[k]}
      <4>1. \A i \in 1 .. l + 1 : i = l + 1 \/ i \in 1 .. l
        OBVIOUS
      <4>2. l + 1 \in 1 .. l + 1 /\ \A i \in 1 .. l : i \in 1 .. l + 1
        OBVIOUS
      <4> QED BY <2>3, <3>3, <4>1, <4>2 DEF Ran
    <3>5. Ran(h) = {s[i] : i \in 1 .. k} \cap S
      BY <2>2, <2>5, <2>7, <3>4
    <3>6. ASSUME Events!Ascending(s) PROVE Events!Ascending(h)
      <4> SUFFICES ASSUME NEW i \in 1 .. l + 1, NEW j \in 1 .. l + 1, i < j
                   PROVE  h[i].id < h[j].id
        BY <3>2, <3>3, LenProperties DEF Events!Ascending
      <4>1. i \in 1 .. l
        OBVIOUS
      <4>2. CASE j = l + 1
        <5>1. g[i] \in Ran(g)
          BY <2>3, <4>1 DEF Ran
        <5>2. PICK m \in 1 .. k - 1 : g[i] = s[m]
          BY <2>2, <5>1
        <5>3. m \in DOMAIN s /\ k \in DOMAIN s /\ m < k
          BY <1>1, LenProperties
        <5> QED BY <3>3, <3>6, <4>1, <4>2, <5>2, <5>3 DEF Events!Ascending
      <4>3. CASE j # l + 1
        <5>1. j \in 1 .. l
          BY <4>3
        <5>2. i \in DOMAIN g /\ j \in DOMAIN g
          BY <2>3, <4>1, <5>1, LenProperties
        <5> QED BY <2>2, <3>3, <3>6, <4>1, <5>1, <5>2 DEF Events!Ascending
      <4> QED BY <4>2, <4>3
    <3>7. Len(h) <= k
      BY <2>2, <2>3, <3>3
    <3>8. f[k] = h
      BY <2>4, <2>7, <3>2
    <3> QED BY <1>2, <3>5, <3>6, <3>7, <3>8
  <2> QED BY <2>6, <2>7
<1>5. n \in U
  <2>1. 0 .. N \subseteq U
    BY <1>3, <1>4, Climbs
  <2> QED BY <1>1, <2>1
<1> QED BY <1>2, <1>5

LEMMA FilteredIs ==
    ASSUME NEW T, NEW s \in Seq(T), NEW S
    PROVE  /\ Events!Filtered(s, S) \in Seq(T)
           /\ Len(Events!Filtered(s, S)) <= Len(s)
           /\ Ran(Events!Filtered(s, S)) = Ran(s) \cap S
           /\ Events!Ascending(s) => Events!Ascending(Events!Filtered(s, S))
<1>1. PICK N \in Nat : N = Len(s)
  BY LenProperties
<1>2. PICK f \in [0 .. N -> Seq(T)] : f[0] = <<>> /\ Picks(f, s, S, N)
  BY <1>1, PicksExist
<1>3. f = [i \in 0 .. N |-> IF i = 0 THEN <<>>
                            ELSE IF s[i] \in S THEN Append(f[i - 1], s[i]) ELSE f[i - 1]]
  <2>1. ASSUME NEW i \in 0 .. N
        PROVE  f[i] = IF i = 0 THEN <<>>
                      ELSE IF s[i] \in S THEN Append(f[i - 1], s[i]) ELSE f[i - 1]
    <3>1. CASE i = 0
      BY <1>2, <3>1
    <3>2. CASE i # 0
      <4>1. i \in 1 .. N
        BY <3>2
      <4>2. f[i] = IF s[i] \in S THEN Append(f[i - 1], s[i]) ELSE f[i - 1]
        BY <1>2, <4>1 DEF Picks
      <4> QED BY <3>2, <4>2
    <3> QED BY <3>1, <3>2
  <2>2. f = [i \in 0 .. N |-> f[i]]
    BY <1>2
  <2> QED BY <2>1, <2>2
<1>4. PICK k : k = CHOOSE kept : kept = [i \in 0 .. N |-> IF i = 0 THEN <<>>
                            ELSE IF s[i] \in S THEN Append(kept[i - 1], s[i]) ELSE kept[i - 1]]
  OBVIOUS
<1>5. k = [i \in 0 .. N |-> IF i = 0 THEN <<>>
                            ELSE IF s[i] \in S THEN Append(k[i - 1], s[i]) ELSE k[i - 1]]
  BY <1>3, <1>4
<1>6. Events!Filtered(s, S) = k[N]
  BY <1>1, <1>4 DEF Events!Filtered
<1>7. /\ DOMAIN k = 0 .. N /\ k[0] = <<>>
      /\ \A i \in 1 .. N : k[i] = IF s[i] \in S THEN Append(k[i - 1], s[i]) ELSE k[i - 1]
  <2>1. DOMAIN k = 0 .. N
    BY <1>5
  <2>2. \A i \in 0 .. N : k[i] = IF i = 0 THEN <<>>
                                ELSE IF s[i] \in S THEN Append(k[i - 1], s[i]) ELSE k[i - 1]
    BY <1>5
  <2>3. k[0] = <<>>
    BY <2>2
  <2>4. ASSUME NEW i \in 1 .. N
        PROVE  k[i] = IF s[i] \in S THEN Append(k[i - 1], s[i]) ELSE k[i - 1]
    <3>1. i \in 0 .. N /\ i # 0
      OBVIOUS
    <3> QED BY <2>2, <3>1
  <2> QED BY <2>1, <2>3, <2>4
<1>8. \A i \in 0 .. N : k[i] \in Seq(T)
  <2>1. PICK U : U = {i \in 0 .. N : k[i] \in Seq(T)}
    OBVIOUS
  <2>2. 0 \in U
    <3>1. k[0] = <<>>
      BY <1>7
    <3>2. k[0] \in Seq(T)
      BY <3>1, EmptySeq
    <3>3. 0 \in 0 .. N
      OBVIOUS
    <3> QED BY <2>1, <3>2, <3>3
  <2>3. ASSUME NEW i \in 1 .. N, i - 1 \in U PROVE i \in U
    <3>1. s[i] \in T /\ k[i - 1] \in Seq(T)
      BY <1>1, <2>1, <2>3, ElementOfSeq
    <3>2. Append(k[i - 1], s[i]) \in Seq(T)
      BY <3>1, AppendProperties
    <3>3. k[i] = IF s[i] \in S THEN Append(k[i - 1], s[i]) ELSE k[i - 1]
      BY <1>7
    <3>4. k[i] \in Seq(T)
      BY <3>1, <3>2, <3>3
    <3>5. i \in 0 .. N
      OBVIOUS
    <3> QED BY <2>1, <3>4, <3>5
  <2>4. 0 .. N \subseteq U
    BY <2>2, <2>3, Climbs
  <2> QED BY <2>1, <2>4
<1>9. k \in [0 .. N -> Seq(T)] /\ Picks(k, s, S, N) /\ N \in 0 .. N
  <2>1. k = [i \in 0 .. N |-> k[i]]
    <3>1. DOMAIN k = 0 .. N /\ k = [i \in DOMAIN k |-> k[i]]
      BY <1>5
    <3> QED BY <3>1
  <2>2. k \in [0 .. N -> Seq(T)]
    BY <1>8, <2>1
  <2>3. Picks(k, s, S, N)
    BY <1>7 DEF Picks
  <2> QED BY <2>2, <2>3
<1>10. /\ Len(k[N]) <= N
       /\ Ran(k[N]) = {s[i] : i \in 1 .. N} \cap S
       /\ Events!Ascending(s) => Events!Ascending(k[N])
  <2>1. k \in [0 .. Len(s) -> Seq(T)] /\ k[0] = <<>> /\ Picks(k, s, S, Len(s)) /\ N \in 0 .. Len(s)
    BY <1>1, <1>7, <1>9
  <2> QED BY <2>1, PicksKeep
<1>11. {s[i] : i \in 1 .. N} = Ran(s)
  BY <1>1 DEF Ran
<1> QED BY <1>1, <1>6, <1>9, <1>10, <1>11

\* An array in ascending order is determined by what is in it.
LEMMA Agreeing ==
    ASSUME NEW s, NEW t, NEW m \in Nat, NEW n \in Nat, NEW T,
           s \in Seq(T), t \in Seq(T), Len(s) = m, Len(t) = n, \A r \in T : r.id \in Nat,
           Events!Ascending(s), Events!Ascending(t), Ran(s) = Ran(t), NEW i \in 1 .. m
    PROVE  i \in 1 .. n /\ s[i] = t[i]
<1>0. DOMAIN s = 1 .. m /\ DOMAIN t = 1 .. n
  BY LenProperties
<1>1. PICK U : U = {0} \cup {j \in 1 .. m : \A k \in 1 .. j : k \in 1 .. n /\ s[k] = t[k]}
  OBVIOUS
<1>2. 0 \in U
  BY <1>1
<1>3. ASSUME NEW j \in 1 .. m, j - 1 \in U PROVE j \in U
  <2>1. \A k \in 1 .. j - 1 : k \in 1 .. n /\ s[k] = t[k]
    BY <1>1, <1>3
  <2>2. s[j] \in Ran(t)
    BY <1>3 DEF Ran
  <2>3. PICK k \in 1 .. n : s[j] = t[k]
    BY <2>2 DEF Ran
  <2>4. ~(k < j)
    <3>1. SUFFICES ASSUME k < j PROVE FALSE
      OBVIOUS
    <3>2. k \in 1 .. j - 1 /\ k \in 1 .. m
      BY <3>1
    <3>3. s[k] = s[j]
      BY <2>1, <2>3, <3>2
    <3>4. s[k].id < s[j].id
      BY <1>0, <3>1, <3>2 DEF Events!Ascending
    <3>5. s[j].id \in Nat
      BY ElementOfSeq
    <3> QED BY <3>3, <3>4, <3>5
  <2>5. j \in 1 .. n
    BY <2>3, <2>4
  <2>6. t[j] \in Ran(s)
    BY <2>5 DEF Ran
  <2>7. PICK l \in 1 .. m : t[j] = s[l]
    BY <2>6 DEF Ran
  <2>8. ~(l < j)
    <3>1. SUFFICES ASSUME l < j PROVE FALSE
      OBVIOUS
    <3>2. l \in 1 .. j - 1 /\ l \in 1 .. n
      BY <2>1, <3>1
    <3>3. t[l] = t[j]
      BY <2>1, <2>7, <3>2
    <3>4. t[l].id < t[j].id
      BY <1>0, <2>5, <3>1, <3>2 DEF Events!Ascending
    <3>5. t[j].id \in Nat
      BY <2>5, ElementOfSeq
    <3> QED BY <3>3, <3>4, <3>5
  <2>9. s[j].id \in Nat /\ t[j].id \in Nat
    BY <2>5, ElementOfSeq
  <2>10. j < k => t[j].id < t[k].id
    BY <1>0, <2>3, <2>5 DEF Events!Ascending
  <2>11. j < l => s[j].id < s[l].id
    BY <1>0, <2>7 DEF Events!Ascending
  <2>12. k = j \/ l = j
    BY <2>3, <2>4, <2>7, <2>8, <2>9, <2>10, <2>11
  <2>13. s[j] = t[j]
    BY <2>3, <2>7, <2>12
  <2>14. ASSUME NEW q \in 1 .. j PROVE q \in 1 .. n /\ s[q] = t[q]
    <3>1. q = j \/ q \in 1 .. j - 1
      OBVIOUS
    <3> QED BY <2>1, <2>5, <2>13, <3>1
  <2> QED BY <1>1, <2>14
<1>4. 0 .. m \subseteq U
  BY <1>2, <1>3, Climbs
<1>5. i \in U /\ i # 0
  BY <1>4
<1> QED BY <1>1, <1>5

LEMMA OneOrder ==
    ASSUME NEW T, NEW s \in Seq(T), NEW t \in Seq(T), \A r \in T : r.id \in Nat,
           Events!Ascending(s), Events!Ascending(t), Ran(s) = Ran(t)
    PROVE  s = t
<1>1. PICK m \in Nat : m = Len(s)
  BY LenProperties
<1>2. PICK n \in Nat : n = Len(t)
  BY LenProperties
<1>3. \A i \in 1 .. m : i \in 1 .. n /\ s[i] = t[i]
  BY <1>1, <1>2, Agreeing
<1>4. \A i \in 1 .. n : i \in 1 .. m /\ t[i] = s[i]
  BY <1>1, <1>2, Agreeing
<1>5. m = n
  <2>1. m = 0 \/ m \in 1 .. m
    OBVIOUS
  <2>2. n = 0 \/ n \in 1 .. n
    OBVIOUS
  <2> QED BY <1>3, <1>4, <2>1, <2>2
<1> QED BY <1>1, <1>2, <1>3, <1>5, SeqEqual

Injective(s) == \A i, j \in 1 .. Len(s) : s[i] = s[j] => i = j

LEMMA AscendingInjective ==
    ASSUME NEW T, NEW s \in Seq(T), \A r \in T : r.id \in Nat, Events!Ascending(s)
    PROVE  Injective(s)
<1> SUFFICES ASSUME NEW i \in 1 .. Len(s), NEW j \in 1 .. Len(s), s[i] = s[j], i # j PROVE FALSE
  BY DEF Injective
<1>1. DOMAIN s = 1 .. Len(s) /\ Len(s) \in Nat
  BY LenProperties
<1>2. s[i].id \in Nat /\ s[j].id \in Nat
  BY ElementOfSeq
<1>3. i < j \/ j < i
  BY <1>1
<1>4. s[i].id < s[j].id \/ s[j].id < s[i].id
  BY <1>1, <1>3 DEF Events!Ascending
<1> QED BY <1>2, <1>4

LEMMA InjectiveCount ==
    ASSUME NEW T, NEW s \in Seq(T), Injective(s)
    PROVE  Cardinality(Ran(s)) = Len(s)
<1>1. PICK n \in Nat : n = Len(s)
  BY LenProperties
<1>2. PICK f : f = [i \in 1 .. n |-> s[i]]
  OBVIOUS
<1>3. f \in [1 .. n -> Ran(s)]
  BY <1>1, <1>2 DEF Ran
<1>4. IsInjective(f)
  BY <1>1, <1>2 DEF IsInjective, Injective
<1>5. \A r \in Ran(s) : \E i \in 1 .. n : f[i] = r
  BY <1>1, <1>2 DEF Ran
<1>6. f \in Bijection(1 .. n, Ran(s))
  BY <1>3, <1>4, <1>5 DEF Bijection, Injection, Surjection
<1>7. ExistsBijection(1 .. n, Ran(s))
  BY <1>6 DEF ExistsBijection
<1>8. IsFiniteSet(1 .. n) /\ Cardinality(1 .. n) = n
  <2>1. 1 \in Int /\ n \in Int
    OBVIOUS
  <2>2. /\ IsFiniteSet(1 .. n)
        /\ Cardinality(1 .. n) = IF 1 > n THEN 0 ELSE n - 1 + 1
    BY <2>1, FS_Interval
  <2> QED BY <2>2
<1>9. Cardinality(Ran(s)) = Cardinality(1 .. n)
  BY <1>7, <1>8, FS_Bijection
<1> QED BY <1>1, <1>8, <1>9

\* What is sorted is the array in ascending order that has the same registrations.
LEMMA SortedIs ==
    ASSUME NEW T, NEW s \in Seq(T), NEW t \in Seq(T), \A r \in T : r.id \in Nat,
           Injective(s), Events!Ascending(t), Ran(s) = Ran(t)
    PROVE  Events!Sorted(s) = t
<1>1. Injective(t)
  BY AscendingInjective
<1>2. Cardinality(Ran(s)) = Len(s) /\ Cardinality(Ran(t)) = Len(t)
  BY <1>1, InjectiveCount
<1>3. PICK n \in Nat : n = Len(s)
  BY LenProperties
<1>4. Len(t) = n /\ DOMAIN s = 1 .. n /\ DOMAIN t = 1 .. n
  BY <1>2, <1>3, LenProperties
<1>5. PICK R : R = Ran(s)
  OBVIOUS
<1>6. Events!Range(s) = R
  BY <1>3, <1>4, <1>5 DEF Events!Range, Ran
<1>7. PICK V : V = {v \in [1 .. n -> R] : Events!Range(v) = R /\ Events!Ascending(v)}
  OBVIOUS
<1>8. t \in V
  <2>1. \A i \in 1 .. n : t[i] \in R
    BY <1>4, <1>5 DEF Ran
  <2>2. t = [i \in 1 .. n |-> t[i]]
    BY <1>4
  <2>3. t \in [1 .. n -> R]
    BY <2>1, <2>2
  <2>4. Events!Range(t) = R
    BY <1>4, <1>5 DEF Events!Range, Ran
  <2> QED BY <1>7, <2>3, <2>4
<1>9. PICK w : w = CHOOSE v \in [1 .. n -> R] : Events!Range(v) = R /\ Events!Ascending(v)
  OBVIOUS
<1>10. w \in [1 .. n -> R] /\ Events!Range(w) = R /\ Events!Ascending(w)
  BY <1>7, <1>8, <1>9
<1>11. Events!Sorted(s) = w
  BY <1>4, <1>6, <1>9 DEF Events!Sorted
<1>12. R \subseteq T
  <2>1. \A i \in 1 .. n : s[i] \in T
    BY <1>3, ElementOfSeq
  <2> QED BY <1>3, <1>5, <2>1 DEF Ran
<1>13. w \in Seq(T) /\ Len(w) = n
  <2>1. w \in [1 .. n -> T]
    BY <1>10, <1>12
  <2> QED BY <2>1, IsASeq
<1>14. Ran(w) = R
  <2>1. DOMAIN w = 1 .. n
    BY <1>10
  <2> QED BY <1>10, <1>13, <2>1 DEF Events!Range, Ran
<1>15. w = t
  BY <1>5, <1>10, <1>13, <1>14, OneOrder
<1> QED BY <1>11, <1>15

-----------------------------------------------------------------------------
(* Events: wildcard patterns *)

\* The pieces a cut gives the segments from the j-th on.
Cuts(p, name, cut, j) ==
    \A l \in j .. Len(p) :
        /\ cut[l - 1] < cut[l]
        /\ p[l] # "**" => cut[l] = cut[l - 1] + 1 /\ p[l] \in {"*", name[cut[l]]}
Fit(p, name, j, i) ==
    \E cut \in [j - 1 .. Len(p) -> 0 .. Len(name)] :
        cut[j - 1] = i - 1 /\ cut[Len(p)] = Len(name) /\ Cuts(p, name, cut, j)

\* What the first segment of the rest takes, and what is left to the others.
Takes(p, name, S, j, i) ==
    IF p[j] = "**" THEN \E k \in i .. Len(name) : k + 1 \in S
    ELSE p[j] \in {"*", name[i]} /\ i + 1 \in S

LEMMA FitLast ==
    ASSUME NEW p \in Seq(STRING), NEW name \in Seq(STRING), NEW i \in 1 .. Len(name) + 1
    PROVE  Fit(p, name, Len(p) + 1, i) <=> i = Len(name) + 1
<1>1. PICK m \in Nat : m = Len(p)
  BY LenProperties
<1>2. PICK n \in Nat : n = Len(name)
  BY LenProperties
<1>3. ASSUME Fit(p, name, m + 1, i) PROVE i = n + 1
  <2>1. PICK cut \in [m + 1 - 1 .. m -> 0 .. n] : cut[m + 1 - 1] = i - 1 /\ cut[m] = n
    BY <1>1, <1>2, <1>3 DEF Fit
  <2>2. m + 1 - 1 = m
    OBVIOUS
  <2>3. i - 1 = n
    BY <2>1, <2>2
  <2> QED BY <2>3
<1>4. ASSUME i = n + 1 PROVE Fit(p, name, m + 1, i)
  <2>1. PICK cut : cut = [l \in m + 1 - 1 .. m |-> n]
    OBVIOUS
  <2>2. cut \in [m + 1 - 1 .. m -> 0 .. n] /\ m + 1 - 1 = m /\ m \in m + 1 - 1 .. m
    BY <2>1
  <2>3. cut[m + 1 - 1] = i - 1 /\ cut[m] = n
    BY <1>4, <2>1, <2>2
  <2>4. Cuts(p, name, cut, m + 1)
    <3>1. m + 1 .. m = {}
      OBVIOUS
    <3> QED BY <1>1, <3>1 DEF Cuts
  <2> QED BY <1>1, <1>2, <2>2, <2>3, <2>4 DEF Fit
<1> QED BY <1>1, <1>2, <1>3, <1>4

LEMMA FitNext ==
    ASSUME NEW p \in Seq(STRING), NEW name \in Seq(STRING), NEW j \in 1 .. Len(p),
           NEW i \in 1 .. Len(name) + 1, NEW S,
           S = {k \in 1 .. Len(name) + 1 : Fit(p, name, j + 1, k)}
    PROVE  Fit(p, name, j, i) <=> i \in 1 .. Len(name) /\ Takes(p, name, S, j, i)
<1>1. PICK m \in Nat : m = Len(p)
  BY LenProperties
<1>2. PICK n \in Nat : n = Len(name)
  BY LenProperties
<1>j. j \in 1 .. m /\ j + 1 - 1 = j /\ i \in 1 .. n + 1
  BY <1>1, <1>2
<1>3. ASSUME Fit(p, name, j, i) PROVE i \in 1 .. n /\ Takes(p, name, S, j, i)
  <2>1. PICK cut \in [j - 1 .. m -> 0 .. n] :
            cut[j - 1] = i - 1 /\ cut[m] = n /\ Cuts(p, name, cut, j)
    BY <1>1, <1>2, <1>3 DEF Fit
  <2>2. PICK k : k = cut[j]
    OBVIOUS
  <2>3. j \in j - 1 .. m /\ m \in j .. m
    BY <1>j
  <2>4. k \in 0 .. n
    BY <2>1, <2>2, <2>3
  <2>5. /\ cut[j - 1] < cut[j]
        /\ p[j] # "**" => cut[j] = cut[j - 1] + 1 /\ p[j] \in {"*", name[cut[j]]}
    BY <1>1, <1>j, <2>1 DEF Cuts
  <2>6. /\ i - 1 < k
        /\ p[j] # "**" => k = i - 1 + 1 /\ p[j] \in {"*", name[k]}
    BY <2>1, <2>2, <2>5
  <2>7. i \in 1 .. n /\ k \in i .. n /\ k + 1 \in 1 .. n + 1 /\ (p[j] # "**" => k = i)
    BY <1>j, <2>4, <2>6
  <2>8. PICK c : c = [l \in j .. m |-> cut[l]]
    OBVIOUS
  <2>9. c \in [j .. m -> 0 .. n] /\ c[j] = k + 1 - 1 /\ c[m] = n
    <3>1. \A l \in j .. m : l \in j - 1 .. m
      OBVIOUS
    <3>2. \A l \in j .. m : cut[l] \in 0 .. n
      BY <2>1, <3>1
    <3>3. c \in [j .. m -> 0 .. n]
      BY <2>8, <3>2
    <3>4. c[j] = k /\ k = k + 1 - 1 /\ j \in j .. m
      BY <1>j, <2>2, <2>4, <2>8
    <3>5. c[m] = n
      BY <2>1, <2>3, <2>8
    <3> QED BY <3>3, <3>4, <3>5
  <2>10. Cuts(p, name, c, j + 1)
    <3> SUFFICES ASSUME NEW l \in j + 1 .. m
                 PROVE  /\ c[l - 1] < c[l]
                        /\ p[l] # "**" => c[l] = c[l - 1] + 1 /\ p[l] \in {"*", name[c[l]]}
      BY <1>1 DEF Cuts
    <3>1. l \in j .. m /\ l - 1 \in j .. m
      BY <1>j
    <3>2. c[l] = cut[l] /\ c[l - 1] = cut[l - 1]
      BY <2>8, <3>1
    <3>3. /\ cut[l - 1] < cut[l]
          /\ p[l] # "**" => cut[l] = cut[l - 1] + 1 /\ p[l] \in {"*", name[cut[l]]}
      BY <1>1, <2>1, <3>1 DEF Cuts
    <3> QED BY <3>2, <3>3
  <2>11. Fit(p, name, j + 1, k + 1)
    <3>1. PICK J, K : J = j + 1 /\ K = k + 1
      OBVIOUS
    <3>2. J - 1 = j /\ K - 1 = k
      BY <1>j, <2>7, <3>1
    <3>3. c \in [J - 1 .. Len(p) -> 0 .. Len(name)] /\ c[J - 1] = K - 1 /\ c[Len(p)] = Len(name)
      <4>1. k + 1 - 1 = k
        BY <2>7
      <4>2. c[m] = n /\ c[j] = K - 1
        BY <2>9, <3>2, <4>1
      <4> QED BY <1>1, <1>2, <2>9, <3>2, <4>2
    <3>4. Fit(p, name, J, K)
      BY <2>10, <3>1, <3>3 DEF Fit
    <3> QED BY <3>1, <3>4
  <2>12. k + 1 \in S
    BY <1>2, <2>7, <2>11
  <2> QED BY <1>2, <2>6, <2>7, <2>12 DEF Takes
<1>4. ASSUME i \in 1 .. n, Takes(p, name, S, j, i) PROVE Fit(p, name, j, i)
  <2>1. PICK k \in i .. n : k + 1 \in S /\ (p[j] # "**" => k = i /\ p[j] \in {"*", name[i]})
    <3>1. i \in i .. n
      BY <1>4
    <3> QED BY <1>2, <1>4, <3>1 DEF Takes
  <2>2. Fit(p, name, j + 1, k + 1)
    BY <2>1
  <2>3. PICK c \in [j + 1 - 1 .. m -> 0 .. n] :
            c[j + 1 - 1] = k + 1 - 1 /\ c[m] = n /\ Cuts(p, name, c, j + 1)
    BY <1>1, <1>2, <2>2 DEF Fit
  <2>4. c \in [j .. m -> 0 .. n] /\ c[j] = k /\ c[m] = n
    BY <1>j, <1>4, <2>1, <2>3
  <2>5. PICK cut : cut = [l \in j - 1 .. m |-> IF l = j - 1 THEN i - 1 ELSE c[l]]
    OBVIOUS
  <2>6. \A l \in j .. m : cut[l] = c[l]
    BY <1>j, <2>5
  <2>7. cut[j - 1] = i - 1 /\ i - 1 \in 0 .. n
    BY <1>j, <1>4, <2>5
  <2>8. cut \in [j - 1 .. m -> 0 .. n]
    <3>1. ASSUME NEW l \in j - 1 .. m PROVE cut[l] \in 0 .. n
      <4>1. l = j - 1 \/ l \in j .. m
        BY <1>j
      <4> QED BY <2>4, <2>6, <2>7, <4>1
    <3> QED BY <2>5, <3>1
  <2>9. cut[m] = n
    BY <1>j, <2>4, <2>6
  <2>10. Cuts(p, name, cut, j)
    <3> SUFFICES ASSUME NEW l \in j .. m
                 PROVE  /\ cut[l - 1] < cut[l]
                        /\ p[l] # "**" => cut[l] = cut[l - 1] + 1 /\ p[l] \in {"*", name[cut[l]]}
      BY <1>1 DEF Cuts
    <3>1. CASE l = j
      <4>1. cut[l] = k /\ cut[l - 1] = i - 1
        BY <2>4, <2>6, <2>7, <3>1
      <4> QED BY <1>4, <2>1, <3>1, <4>1
    <3>2. CASE l # j
      <4>1. l \in j + 1 .. m /\ l - 1 \in j .. m
        BY <1>j, <3>2
      <4>2. cut[l] = c[l] /\ cut[l - 1] = c[l - 1]
        BY <2>6, <4>1
      <4>3. /\ c[l - 1] < c[l]
            /\ p[l] # "**" => c[l] = c[l - 1] + 1 /\ p[l] \in {"*", name[c[l]]}
        BY <1>1, <2>3, <4>1 DEF Cuts
      <4> QED BY <4>2, <4>3
    <3> QED BY <3>1, <3>2
  <2> QED BY <1>1, <1>2, <2>7, <2>8, <2>9, <2>10 DEF Fit
<1> QED BY <1>2, <1>3, <1>4

\* Where the segments from the j-th on fit.
Places(p, name, j) == {i \in 1 .. Len(name) + 1 : Fit(p, name, j, i)}

LEMMA PlacesAre ==
    ASSUME NEW p \in Seq(STRING), NEW name \in Seq(STRING)
    PROVE  /\ Places(p, name, Len(p) + 1) = {Len(name) + 1}
           /\ \A j \in 1 .. Len(p) :
                 Places(p, name, j) =
                    {i \in 1 .. Len(name) : Takes(p, name, Places(p, name, j + 1), j, i)}
<1>1. Len(name) \in Nat /\ Len(p) \in Nat
  BY LenProperties
<1>2. Places(p, name, Len(p) + 1) = {Len(name) + 1}
  <2>1. \A i \in 1 .. Len(name) + 1 : Fit(p, name, Len(p) + 1, i) <=> i = Len(name) + 1
    BY FitLast
  <2>2. Len(name) + 1 \in 1 .. Len(name) + 1
    BY <1>1
  <2> QED BY <2>1, <2>2 DEF Places
<1>3. ASSUME NEW j \in 1 .. Len(p)
      PROVE  Places(p, name, j) =
                {i \in 1 .. Len(name) : Takes(p, name, Places(p, name, j + 1), j, i)}
  <2>1. PICK S : S = Places(p, name, j + 1)
    OBVIOUS
  <2>2. S = {k \in 1 .. Len(name) + 1 : Fit(p, name, j + 1, k)}
    BY <2>1 DEF Places
  <2>3. \A i \in 1 .. Len(name) + 1 :
            Fit(p, name, j, i) <=> i \in 1 .. Len(name) /\ Takes(p, name, S, j, i)
    BY <2>2, FitNext
  <2>4. \A i \in 1 .. Len(name) : i \in 1 .. Len(name) + 1
    BY <1>1
  <2>5. Places(p, name, j) = {i \in 1 .. Len(name) : Takes(p, name, S, j, i)}
    BY <2>3, <2>4 DEF Places
  <2> QED BY <2>1, <2>5
<1> QED BY <1>2, <1>3

LEMMA CompiledPlaces ==
    ASSUME NEW p \in Seq(STRING), NEW name \in Seq(STRING)
    PROVE  Events!CompilePattern(p, name) <=> 1 \in Places(p, name, 1)
<1>1. PICK n \in Nat : n = Len(name)
  BY LenProperties
<1>2. PICK m \in Nat : m = Len(p)
  BY LenProperties
<1>3. PICK F : F = [j \in 1 .. m + 1 |-> Places(p, name, j)]
  OBVIOUS
<1>4. \A j \in 1 .. m + 1 : F[j] = Places(p, name, j)
  BY <1>3
<1>5. /\ F[m + 1] = {n + 1}
      /\ \A j \in 1 .. m : F[j] = {i \in 1 .. n :
            IF p[j] = "**" THEN \E k \in i .. n : k + 1 \in F[j + 1]
            ELSE p[j] \in {"*", name[i]} /\ i + 1 \in F[j + 1]}
  <2>1. m + 1 \in 1 .. m + 1
    BY <1>2
  <2>2. F[m + 1] = {n + 1}
    BY <1>1, <1>2, <1>4, <2>1, PlacesAre
  <2>3. ASSUME NEW j \in 1 .. m
        PROVE  F[j] = {i \in 1 .. n :
                  IF p[j] = "**" THEN \E k \in i .. n : k + 1 \in F[j + 1]
                  ELSE p[j] \in {"*", name[i]} /\ i + 1 \in F[j + 1]}
    <3>1. j \in 1 .. m + 1 /\ j + 1 \in 1 .. m + 1
      BY <1>2
    <3>2. F[j] = Places(p, name, j) /\ F[j + 1] = Places(p, name, j + 1)
      BY <1>4, <3>1
    <3>3. F[j] = {i \in 1 .. n : Takes(p, name, F[j + 1], j, i)}
      BY <1>1, <1>2, <3>2, PlacesAre
    <3> QED BY <1>1, <3>3 DEF Takes
  <2> QED BY <2>2, <2>3
<1>6. F = [j \in 1 .. m + 1 |->
            IF j > m THEN {n + 1}
            ELSE {i \in 1 .. n : IF p[j] = "**" THEN \E k \in i .. n : k + 1 \in F[j + 1]
                                 ELSE p[j] \in {"*", name[i]} /\ i + 1 \in F[j + 1]}]
  <2>1. ASSUME NEW j \in 1 .. m + 1
        PROVE  F[j] = IF j > m THEN {n + 1}
                      ELSE {i \in 1 .. n :
                              IF p[j] = "**" THEN \E k \in i .. n : k + 1 \in F[j + 1]
                              ELSE p[j] \in {"*", name[i]} /\ i + 1 \in F[j + 1]}
    <3>1. CASE j > m
      <4>1. j = m + 1
        BY <3>1
      <4> QED BY <1>5, <3>1, <4>1
    <3>2. CASE ~(j > m)
      <4>1. j \in 1 .. m
        BY <3>2
      <4> QED BY <1>5, <3>2, <4>1
    <3> QED BY <3>1, <3>2
  <2>2. F = [j \in 1 .. m + 1 |-> F[j]]
    BY <1>3
  <2> QED BY <2>1, <2>2
<1>7. PICK g : g = CHOOSE fits : fits = [j \in 1 .. m + 1 |->
            IF j > m THEN {n + 1}
            ELSE {i \in 1 .. n : IF p[j] = "**" THEN \E k \in i .. n : k + 1 \in fits[j + 1]
                                 ELSE p[j] \in {"*", name[i]} /\ i + 1 \in fits[j + 1]}]
  OBVIOUS
<1>8. g = [j \in 1 .. m + 1 |->
            IF j > m THEN {n + 1}
            ELSE {i \in 1 .. n : IF p[j] = "**" THEN \E k \in i .. n : k + 1 \in g[j + 1]
                                 ELSE p[j] \in {"*", name[i]} /\ i + 1 \in g[j + 1]}]
  BY <1>6, <1>7
<1>9. /\ g[m + 1] = {n + 1}
      /\ \A j \in 1 .. m : g[j] = {i \in 1 .. n :
            IF p[j] = "**" THEN \E k \in i .. n : k + 1 \in g[j + 1]
            ELSE p[j] \in {"*", name[i]} /\ i + 1 \in g[j + 1]}
  <2>1. m + 1 \in 1 .. m + 1 /\ m + 1 > m
    BY <1>2
  <2>2. \A j \in 1 .. m : j \in 1 .. m + 1 /\ ~(j > m)
    BY <1>2
  <2>3. g[m + 1] = {n + 1}
    BY <1>8, <2>1
  <2>4. ASSUME NEW j \in 1 .. m
        PROVE  g[j] = {i \in 1 .. n :
                  IF p[j] = "**" THEN \E k \in i .. n : k + 1 \in g[j + 1]
                  ELSE p[j] \in {"*", name[i]} /\ i + 1 \in g[j + 1]}
    BY <1>8, <2>2
  <2> QED BY <2>3, <2>4
<1>10. g[1] = F[1]
  <2>1. PICK U : U = {d \in 0 .. m : g[m + 1 - d] = F[m + 1 - d]}
    OBVIOUS
  <2>2. 0 \in U
    <3>1. m + 1 - 0 = m + 1 /\ 0 \in 0 .. m
      BY <1>2
    <3> QED BY <1>5, <1>9, <2>1, <3>1
  <2>3. ASSUME NEW d \in 1 .. m, d - 1 \in U PROVE d \in U
    <3>1. PICK j : j = m + 1 - d
      OBVIOUS
    <3>2. j \in 1 .. m /\ m + 1 - (d - 1) = j + 1 /\ d \in 0 .. m
      BY <3>1
    <3>3. g[j + 1] = F[j + 1]
      BY <2>1, <2>3, <3>2
    <3>4. PICK G : G = F[j + 1]
      OBVIOUS
    <3>5. F[j] = {i \in 1 .. n : IF p[j] = "**" THEN \E k \in i .. n : k + 1 \in G
                                ELSE p[j] \in {"*", name[i]} /\ i + 1 \in G}
      BY <1>5, <3>2, <3>4
    <3>6. g[j] = {i \in 1 .. n : IF p[j] = "**" THEN \E k \in i .. n : k + 1 \in G
                                ELSE p[j] \in {"*", name[i]} /\ i + 1 \in G}
      BY <1>9, <3>2, <3>3, <3>4
    <3>7. g[j] = F[j]
      BY <3>5, <3>6
    <3> QED BY <2>1, <3>1, <3>2, <3>7
  <2>4. 0 .. m \subseteq U
    BY <2>2, <2>3, Climbs
  <2>5. m \in 0 .. m /\ m + 1 - m = 1
    OBVIOUS
  <2> QED BY <2>1, <2>4, <2>5
<1>11. 1 \in 1 .. m + 1
  OBVIOUS
<1>12. F[1] = Places(p, name, 1)
  BY <1>4, <1>11
<1>13. Events!CompilePattern(p, name) <=> 1 \in g[1]
  BY <1>1, <1>2, <1>7 DEF Events!CompilePattern
<1> QED BY <1>10, <1>12, <1>13

\* The expression matches exactly the names that can be cut into one piece a segment.
LEMMA CompileIsCovers ==
    ASSUME NEW p \in Seq(STRING), NEW name \in Seq(STRING)
    PROVE  Events!CompilePattern(p, name) <=> Events!Covers(p, name)
<1>1. Len(name) \in Nat /\ Len(p) \in Nat /\ DOMAIN p = 1 .. Len(p)
  BY LenProperties
<1>2. 1 - 1 = 0 /\ 1 \in 1 .. Len(name) + 1
  BY <1>1
<1>3. Fit(p, name, 1, 1) <=> Events!Covers(p, name)
  BY <1>1, <1>2 DEF Fit, Cuts, Events!Covers
<1>4. 1 \in Places(p, name, 1) <=> Fit(p, name, 1, 1)
  BY <1>2 DEF Places
<1> QED BY <1>3, <1>4, CompiledPlaces

\* The name of an event is what it covers.
LEMMA NameCovers ==
    ASSUME NEW name \in Seq(STRING), ~Events!IsWildcardPattern(name)
    PROVE  Events!Covers(name, name)
<1>1. PICK n \in Nat : n = Len(name) /\ DOMAIN name = 1 .. n
  BY LenProperties
<1>2. PICK cut : cut = [j \in 0 .. n |-> j]
  OBVIOUS
<1>3. cut \in [0 .. n -> 0 .. n] /\ cut[0] = 0 /\ cut[n] = n
  BY <1>2
<1>4. ASSUME NEW j \in 1 .. n
      PROVE  /\ cut[j - 1] < cut[j]
             /\ name[j] # "**" => cut[j] = cut[j - 1] + 1 /\ name[j] \in {"*", name[cut[j]]}
  <2>1. j - 1 \in 0 .. n /\ j \in 0 .. n /\ j - 1 + 1 = j /\ j - 1 < j
    BY <1>4
  <2>2. cut[j - 1] = j - 1 /\ cut[j] = j
    BY <1>2, <2>1
  <2> QED BY <2>1, <2>2
<1> QED BY <1>1, <1>3, <1>4 DEF Events!Covers

-----------------------------------------------------------------------------
(* Events: the tables and the registrations in force *)

Regs == [id : Nat, handler : Handlers, once : BOOLEAN, pattern : Patterns]

LEMMA RegIds == \A r \in Regs : r.id \in Nat
BY DEF Regs

LEMMA RangeIsRan ==
    ASSUME NEW T, NEW s \in Seq(T)
    PROVE  Events!Range(s) = Ran(s)
<1>1. DOMAIN s = 1 .. Len(s)
  BY LenProperties
<1> QED BY <1>1 DEF Events!Range, Ran

LEMMA DropIs ==
    ASSUME NEW s \in Seq(Regs), NEW ids
    PROVE  /\ Events!Drop(s, ids) \in Seq(Regs)
           /\ Ran(Events!Drop(s, ids)) = {r \in Ran(s) : r.id \notin ids}
           /\ Events!Ascending(s) => Events!Ascending(Events!Drop(s, ids))
<1>1. PICK S : S = {r \in Ran(s) : r.id \notin ids}
  OBVIOUS
<1>2. Events!Drop(s, ids) = Events!Filtered(s, S)
  BY <1>1, RangeIsRan DEF Events!Drop
<1>3. Ran(s) \cap S = S
  BY <1>1
<1> QED BY <1>1, <1>2, <1>3, FilteredIs

LEMMA OfHandlerIs ==
    ASSUME NEW s \in Seq(Regs), NEW h
    PROVE  /\ Events!OfHandler(s, h) \in Seq(Regs)
           /\ Ran(Events!OfHandler(s, h)) = {r \in Ran(s) : r.handler = h}
           /\ Events!Ascending(s) => Events!Ascending(Events!OfHandler(s, h))
<1>1. PICK S : S = {r \in Ran(s) : r.handler = h}
  OBVIOUS
<1>2. Events!OfHandler(s, h) = Events!Filtered(s, S)
  BY <1>1, RangeIsRan DEF Events!OfHandler
<1>3. Ran(s) \cap S = S
  BY <1>1
<1> QED BY <1>1, <1>2, <1>3, FilteredIs

LEMMA OfPatternsIs ==
    ASSUME NEW s \in Seq(Regs), NEW P
    PROVE  /\ Events!OfPatterns(s, P) \in Seq(Regs)
           /\ Ran(Events!OfPatterns(s, P)) = {r \in Ran(s) : r.pattern \in P}
           /\ Events!Ascending(s) => Events!Ascending(Events!OfPatterns(s, P))
<1>1. PICK S : S = {r \in Ran(s) : r.pattern \in P}
  OBVIOUS
<1>2. Events!OfPatterns(s, P) = Events!Filtered(s, S)
  BY <1>1, RangeIsRan DEF Events!OfPatterns
<1>3. Ran(s) \cap S = S
  BY <1>1
<1> QED BY <1>1, <1>2, <1>3, FilteredIs

LEMMA IdsAre ==
    ASSUME NEW s \in Seq(Regs)
    PROVE  Events!IdsOf(s) = {r.id : r \in Ran(s)}
<1>1. DOMAIN s = 1 .. Len(s)
  BY LenProperties
<1> QED BY <1>1 DEF Events!IdsOf, Ran

\* No two registrations of an array have the same number.
LEMMA IdsOwn ==
    ASSUME NEW s \in Seq(Regs), Events!Ascending(s), NEW a \in Ran(s), NEW b \in Ran(s), a.id = b.id
    PROVE  a = b
<1>1. DOMAIN s = 1 .. Len(s) /\ Len(s) \in Nat
  BY LenProperties
<1>2. PICK i \in 1 .. Len(s) : s[i] = a
  BY DEF Ran
<1>3. PICK j \in 1 .. Len(s) : s[j] = b
  BY DEF Ran
<1>4. a.id \in Nat /\ b.id \in Nat
  BY <1>2, <1>3, ElementOfSeq, RegIds
<1>5. CASE i = j
  BY <1>2, <1>3, <1>5
<1>6. CASE i # j
  <2>1. i < j \/ j < i
    BY <1>1, <1>6
  <2>2. a.id < b.id \/ b.id < a.id
    BY <1>1, <1>2, <1>3, <2>1 DEF Events!Ascending
  <2> QED BY <1>4, <2>2
<1> QED BY <1>5, <1>6

\* x and w hold what is in force, exact names and wildcards apart, in order.
Wild(r) == Events!IsWildcardPattern(r.pattern)
Tables(x, w, f) ==
    /\ x \in Seq(Regs) /\ w \in Seq(Regs) /\ f \in Seq(Regs)
    /\ Events!Ascending(x) /\ Events!Ascending(w) /\ Events!Ascending(f)
    /\ Ran(x) = {r \in Ran(f) : ~Wild(r)} /\ Ran(w) = {r \in Ran(f) : Wild(r)}

\* All three tables lose the same registrations.
LEMMA TablesCut ==
    ASSUME NEW x, NEW w, NEW f, Tables(x, w, f), NEW K,
           NEW x2 \in Seq(Regs), NEW w2 \in Seq(Regs), NEW f2 \in Seq(Regs),
           Events!Ascending(x2), Events!Ascending(w2), Events!Ascending(f2),
           Ran(x2) = Ran(x) \cap K, Ran(w2) = Ran(w) \cap K, Ran(f2) = Ran(f) \cap K
    PROVE  Tables(x2, w2, f2)
BY DEF Tables

\* A name's registrations and a pattern's are apart.
LEMMA TablesApart ==
    ASSUME NEW x, NEW w, NEW f, Tables(x, w, f)
    PROVE  /\ \A r \in Ran(x) : ~Wild(r) /\ r \in Ran(f)
           /\ \A r \in Ran(w) : Wild(r) /\ r \in Ran(f)
           /\ \A r \in Ran(f) : r \in Regs /\ (IF Wild(r) THEN r \in Ran(w) ELSE r \in Ran(x))
<1>1. \A r \in Ran(f) : r \in Regs
  BY ElementOfSeq DEF Tables, Ran
<1> QED BY <1>1 DEF Tables

LEMMA DropsAgree ==
    ASSUME NEW x, NEW w, NEW f, Tables(x, w, f), NEW ids
    PROVE  Tables(Events!Drop(x, ids), Events!Drop(w, ids), Events!Drop(f, ids))
<1>1. PICK K : K = {r \in Ran(f) : r.id \notin ids}
  OBVIOUS
<1>2. /\ {r \in Ran(x) : r.id \notin ids} = Ran(x) \cap K
      /\ {r \in Ran(w) : r.id \notin ids} = Ran(w) \cap K
      /\ {r \in Ran(f) : r.id \notin ids} = Ran(f) \cap K
  BY <1>1, TablesApart
<1>3. x \in Seq(Regs) /\ w \in Seq(Regs) /\ f \in Seq(Regs)
      /\ Events!Ascending(x) /\ Events!Ascending(w) /\ Events!Ascending(f)
  BY DEF Tables
<1>4. PICK x2, w2, f2 :
         x2 = Events!Drop(x, ids) /\ w2 = Events!Drop(w, ids) /\ f2 = Events!Drop(f, ids)
  OBVIOUS
<1>5. x2 \in Seq(Regs) /\ Events!Ascending(x2) /\ Ran(x2) = Ran(x) \cap K
  BY <1>2, <1>3, <1>4, DropIs
<1>6. w2 \in Seq(Regs) /\ Events!Ascending(w2) /\ Ran(w2) = Ran(w) \cap K
  BY <1>2, <1>3, <1>4, DropIs
<1>7. f2 \in Seq(Regs) /\ Events!Ascending(f2) /\ Ran(f2) = Ran(f) \cap K
  BY <1>2, <1>3, <1>4, DropIs
<1>8. Tables(x2, w2, f2)
  BY <1>5, <1>6, <1>7, TablesCut
<1> QED BY <1>4, <1>8

\* An array that has none of them is not changed.
LEMMA DropOther ==
    ASSUME NEW s \in Seq(Regs), Events!Ascending(s), NEW ids, \A r \in Ran(s) : r.id \notin ids
    PROVE  Events!Drop(s, ids) = s
<1>1. PICK t : t = Events!Drop(s, ids)
  OBVIOUS
<1>2. t \in Seq(Regs) /\ Events!Ascending(t) /\ Ran(t) = {r \in Ran(s) : r.id \notin ids}
  BY <1>1, DropIs
<1>3. Ran(t) = Ran(s)
  BY <1>2
<1> QED BY <1>1, <1>2, <1>3, RegIds, OneOrder

\* The table a pattern is in has the same of its registrations as are in force.
LEMMA PatternsAgree ==
    ASSUME NEW x, NEW w, NEW f, Tables(x, w, f), NEW p
    PROVE  Events!OfPatterns(IF Events!IsWildcardPattern(p) THEN w ELSE x, {p})
             = Events!OfPatterns(f, {p})
<1>1. PICK s : s = IF Events!IsWildcardPattern(p) THEN w ELSE x
  OBVIOUS
<1>2. s \in Seq(Regs) /\ Events!Ascending(s) /\ f \in Seq(Regs) /\ Events!Ascending(f)
  BY <1>1 DEF Tables
<1>3. {r \in Ran(s) : r.pattern \in {p}} = {r \in Ran(f) : r.pattern \in {p}}
  BY <1>1 DEF Tables, Wild
<1>4. PICK a, b : a = Events!OfPatterns(s, {p}) /\ b = Events!OfPatterns(f, {p})
  OBVIOUS
<1>5. a \in Seq(Regs) /\ Events!Ascending(a) /\ Ran(a) = {r \in Ran(s) : r.pattern \in {p}}
  BY <1>2, <1>4, OfPatternsIs
<1>6. b \in Seq(Regs) /\ Events!Ascending(b) /\ Ran(b) = {r \in Ran(f) : r.pattern \in {p}}
  BY <1>2, <1>4, OfPatternsIs
<1>7. Ran(a) = Ran(b)
  BY <1>3, <1>5, <1>6
<1>8. a = b
  BY <1>5, <1>6, <1>7, RegIds, OneOrder
<1> QED BY <1>1, <1>4, <1>8

\* off(event) of a pattern loses the registrations whose numbers the pattern has.
LEMMA OffPattern ==
    ASSUME NEW f \in Seq(Regs), Events!Ascending(f), NEW p
    PROVE  Events!OfPatterns(f, Patterns \ {p})
             = Events!Drop(f, Events!IdsOf(Events!OfPatterns(f, {p})))
<1>1. PICK b : b = Events!OfPatterns(f, {p})
  OBVIOUS
<1>2. b \in Seq(Regs) /\ Ran(b) = {r \in Ran(f) : r.pattern \in {p}}
  BY <1>1, OfPatternsIs
<1>3. PICK ids : ids = Events!IdsOf(b)
  OBVIOUS
<1>4. ids = {r.id : r \in Ran(b)}
  BY <1>2, <1>3, IdsAre
<1>5. \A r \in Ran(f) : r \in Regs
  BY ElementOfSeq DEF Ran
<1>6. ASSUME NEW r \in Ran(f) PROVE r.id \notin ids <=> r.pattern \in Patterns \ {p}
  <2>1. r.pattern \in Patterns
    BY <1>5, <1>6 DEF Regs
  <2>2. CASE r.pattern = p
    <3>1. r \in Ran(b)
      BY <1>2, <1>6, <2>2
    <3> QED BY <1>4, <2>2, <3>1
  <2>3. CASE r.pattern # p
    <3>1. ASSUME NEW q \in Ran(b), q.id = r.id PROVE FALSE
      <4>1. q \in Ran(f) /\ q.pattern = p
        BY <1>2, <3>1
      <4>2. q = r
        BY <3>1, <4>1, IdsOwn
      <4> QED BY <2>3, <4>1, <4>2
    <3>2. r.id \notin ids
      BY <1>4, <3>1
    <3> QED BY <2>1, <2>3, <3>2
  <2> QED BY <2>2, <2>3
<1>7. PICK c, d : c = Events!OfPatterns(f, Patterns \ {p}) /\ d = Events!Drop(f, ids)
  OBVIOUS
<1>8. /\ c \in Seq(Regs) /\ Events!Ascending(c)
      /\ Ran(c) = {r \in Ran(f) : r.pattern \in Patterns \ {p}}
  BY <1>7, OfPatternsIs
<1>9. d \in Seq(Regs) /\ Events!Ascending(d) /\ Ran(d) = {r \in Ran(f) : r.id \notin ids}
  BY <1>7, DropIs
<1>10. Ran(c) = Ran(d)
  BY <1>6, <1>8, <1>9
<1>11. c = d
  BY <1>8, <1>9, <1>10, RegIds, OneOrder
<1> QED BY <1>1, <1>3, <1>7, <1>11

\* An edit of the table a pattern is in, for registrations of that pattern.
LEMMA EditAgrees ==
    ASSUME NEW x, NEW w, NEW f, Tables(x, w, f), NEW p, NEW ids,
           \A i \in ids : \E r \in Ran(f) : r.id = i /\ r.pattern = p
    PROVE  IF Events!IsWildcardPattern(p)
           THEN Tables(x, Events!Drop(w, ids), Events!Drop(f, ids))
           ELSE Tables(Events!Drop(x, ids), w, Events!Drop(f, ids))
<1>1. Tables(Events!Drop(x, ids), Events!Drop(w, ids), Events!Drop(f, ids))
  BY DropsAgree
<1>2. x \in Seq(Regs) /\ w \in Seq(Regs) /\ f \in Seq(Regs)
      /\ Events!Ascending(x) /\ Events!Ascending(w) /\ Events!Ascending(f)
  BY DEF Tables
<1>3. ASSUME NEW r \in Ran(f), Wild(r) # Events!IsWildcardPattern(p), r.id \in ids PROVE FALSE
  <2>1. PICK q \in Ran(f) : q.id = r.id /\ q.pattern = p
    BY <1>3
  <2>2. q = r
    BY <1>2, <2>1, IdsOwn
  <2> QED BY <1>3, <2>1, <2>2 DEF Wild
<1>4. Events!IsWildcardPattern(p) \in BOOLEAN /\ \A r : Wild(r) \in BOOLEAN
  BY DEF Wild, Events!IsWildcardPattern
<1>5. CASE Events!IsWildcardPattern(p)
  <2>1. \A r \in Ran(x) : r.id \notin ids
    BY <1>3, <1>4, <1>5, TablesApart
  <2>2. Events!Drop(x, ids) = x
    BY <1>2, <2>1, DropOther
  <2> QED BY <1>1, <1>5, <2>2
<1>6. CASE ~Events!IsWildcardPattern(p)
  <2>1. \A r \in Ran(w) : r.id \notin ids
    BY <1>3, <1>4, <1>6, TablesApart
  <2>2. Events!Drop(w, ids) = w
    BY <1>2, <2>1, DropOther
  <2> QED BY <1>1, <1>6, <2>2
<1> QED BY <1>5, <1>6

\* The first registration of a handler for a pattern is one of that pattern.
LEMMA FirstIs ==
    ASSUME NEW s \in Seq(Regs), NEW h, NEW p
    PROVE  \A i \in Events!FirstOf(s, h, p) : \E r \in Ran(s) : r.id = i /\ r.pattern = p
<1>1. PICK a : a = Events!OfPatterns(s, {p})
  OBVIOUS
<1>2. a \in Seq(Regs) /\ Ran(a) = {r \in Ran(s) : r.pattern \in {p}}
  BY <1>1, OfPatternsIs
<1>3. PICK b : b = Events!OfHandler(a, h)
  OBVIOUS
<1>4. b \in Seq(Regs) /\ Ran(b) = {r \in Ran(a) : r.handler = h}
  BY <1>2, <1>3, OfHandlerIs
<1>5. Events!FirstOf(s, h, p) = IF b = <<>> THEN {} ELSE {b[1].id}
  BY <1>1, <1>3 DEF Events!FirstOf
<1>6. ASSUME b # <<>> PROVE b[1] \in Ran(b)
  <2>1. Len(b) \in Nat /\ Len(b) # 0
    BY <1>4, <1>6, EmptySeq, LenProperties
  <2>2. 1 \in 1 .. Len(b)
    BY <2>1
  <2> QED BY <2>2 DEF Ran
<1> QED BY <1>2, <1>4, <1>5, <1>6

\* Without wildcards the array is what is in force.
LEMMA CoreOne ==
    ASSUME NEW x, NEW f, Tables(x, <<>>, f)
    PROVE  x = f
<1>1. Ran(<<>>) = {}
  BY EmptySeq DEF Ran
<1>2. Ran(x) = Ran(f)
  BY <1>1 DEF Tables
<1>3. x \in Seq(Regs) /\ f \in Seq(Regs) /\ Events!Ascending(x) /\ Events!Ascending(f)
  BY DEF Tables
<1> QED BY <1>2, <1>3, RegIds, OneOrder

LEMMA AppendIs ==
    ASSUME NEW s \in Seq(Regs), NEW reg \in Regs
    PROVE  /\ Append(s, reg) \in Seq(Regs)
           /\ Ran(Append(s, reg)) = Ran(s) \cup {reg}
           /\ Events!Ascending(s) /\ (\A r \in Ran(s) : r.id < reg.id)
                 => Events!Ascending(Append(s, reg))
<1>1. PICK n \in Nat : n = Len(s) /\ DOMAIN s = 1 .. n
  BY LenProperties
<1>2. PICK t : t = Append(s, reg)
  OBVIOUS
<1>3. t \in Seq(Regs) /\ Len(t) = n + 1 /\ t[n + 1] = reg /\ \A i \in 1 .. n : t[i] = s[i]
  BY <1>1, <1>2, AppendProperties
<1>4. DOMAIN t = 1 .. n + 1
  BY <1>3, LenProperties
<1>5. Ran(t) = Ran(s) \cup {reg}
  <2>1. \A i \in 1 .. n + 1 : i \in 1 .. n \/ i = n + 1
    OBVIOUS
  <2>2. \A i \in 1 .. n : i \in 1 .. n + 1
    OBVIOUS
  <2>3. n + 1 \in 1 .. n + 1
    OBVIOUS
  <2> QED BY <1>1, <1>3, <2>1, <2>2, <2>3 DEF Ran
<1>6. ASSUME Events!Ascending(s), \A r \in Ran(s) : r.id < reg.id
      PROVE  Events!Ascending(t)
  <2> SUFFICES ASSUME NEW i \in 1 .. n + 1, NEW j \in 1 .. n + 1, i < j PROVE t[i].id < t[j].id
    BY <1>4 DEF Events!Ascending
  <2>1. i \in 1 .. n
    OBVIOUS
  <2>2. t[i] = s[i] /\ s[i] \in Ran(s)
    BY <1>1, <1>3, <2>1 DEF Ran
  <2>3. CASE j = n + 1
    BY <1>3, <1>6, <2>2, <2>3
  <2>4. CASE j # n + 1
    <3>1. j \in 1 .. n
      BY <2>4
    <3>2. t[j] = s[j]
      BY <1>3, <3>1
    <3>3. s[i].id < s[j].id
      BY <1>1, <1>6, <2>1, <3>1 DEF Events!Ascending
    <3> QED BY <2>2, <3>2, <3>3
  <2> QED BY <2>3, <2>4
<1> QED BY <1>2, <1>3, <1>5, <1>6

\* A registration is put at the end of the table its pattern belongs to.
LEMMA OnAgrees ==
    ASSUME NEW x, NEW w, NEW f, Tables(x, w, f), NEW reg \in Regs, \A r \in Ran(f) : r.id < reg.id
    PROVE  IF Wild(reg) THEN Tables(x, Append(w, reg), Append(f, reg))
           ELSE Tables(Append(x, reg), w, Append(f, reg))
<1>1. x \in Seq(Regs) /\ w \in Seq(Regs) /\ f \in Seq(Regs)
      /\ Events!Ascending(x) /\ Events!Ascending(w) /\ Events!Ascending(f)
  BY DEF Tables
<1>2. PICK x2, w2, f2 : x2 = Append(x, reg) /\ w2 = Append(w, reg) /\ f2 = Append(f, reg)
  OBVIOUS
<1>3. f2 \in Seq(Regs) /\ Events!Ascending(f2) /\ Ran(f2) = Ran(f) \cup {reg}
  BY <1>1, <1>2, AppendIs
<1>4. (\A r \in Ran(x) : r.id < reg.id) /\ (\A r \in Ran(w) : r.id < reg.id)
  BY TablesApart
<1>5. CASE Wild(reg)
  <2>1. w2 \in Seq(Regs) /\ Events!Ascending(w2) /\ Ran(w2) = Ran(w) \cup {reg}
    BY <1>1, <1>2, <1>4, AppendIs
  <2>2. Tables(x, w2, f2)
    BY <1>1, <1>3, <1>5, <2>1 DEF Tables
  <2> QED BY <1>2, <1>5, <2>2
<1>6. CASE ~Wild(reg)
  <2>1. x2 \in Seq(Regs) /\ Events!Ascending(x2) /\ Ran(x2) = Ran(x) \cup {reg}
    BY <1>1, <1>2, <1>4, AppendIs
  <2>2. Tables(x2, w, f2)
    BY <1>1, <1>3, <1>6, <2>1 DEF Tables
  <2> QED BY <1>2, <1>6, <2>2
<1> QED BY <1>5, <1>6

LEMMA ConcatIs ==
    ASSUME NEW a \in Seq(Regs), NEW b \in Seq(Regs), Injective(a), Injective(b),
           \A r \in Ran(a) : r \notin Ran(b)
    PROVE  a \o b \in Seq(Regs) /\ Injective(a \o b) /\ Ran(a \o b) = Ran(a) \cup Ran(b)
<1>1. PICK m \in Nat : m = Len(a)
  BY LenProperties
<1>2. PICK n \in Nat : n = Len(b)
  BY LenProperties
<1>3. PICK c : c = a \o b
  OBVIOUS
<1>4. c \in Seq(Regs) /\ Len(c) = m + n
  BY <1>1, <1>2, <1>3, ConcatProperties
<1>5. \A i \in 1 .. m + n : c[i] = IF i <= m THEN a[i] ELSE b[i - m]
  BY <1>1, <1>2, <1>3, ConcatProperties
<1>6. ASSUME NEW i \in 1 .. m + n
      PROVE  \/ i \in 1 .. m /\ c[i] = a[i] /\ c[i] \in Ran(a)
             \/ i - m \in 1 .. n /\ c[i] = b[i - m] /\ c[i] \in Ran(b)
  <2>1. CASE i <= m
    <3>1. i \in 1 .. m
      BY <2>1
    <3> QED BY <1>1, <1>5, <2>1, <3>1 DEF Ran
  <2>2. CASE ~(i <= m)
    <3>1. i - m \in 1 .. n
      BY <2>2
    <3> QED BY <1>2, <1>5, <2>2, <3>1 DEF Ran
  <2> QED BY <2>1, <2>2
<1>7. Injective(c)
  <2> SUFFICES ASSUME NEW i \in 1 .. m + n, NEW j \in 1 .. m + n, c[i] = c[j] PROVE i = j
    BY <1>4 DEF Injective
  <2>1. CASE i \in 1 .. m /\ j \in 1 .. m /\ c[i] = a[i] /\ c[j] = a[j]
    BY <1>1, <2>1 DEF Injective
  <2>2. CASE i - m \in 1 .. n /\ j - m \in 1 .. n /\ c[i] = b[i - m] /\ c[j] = b[j - m]
    <3>1. i - m = j - m
      BY <1>2, <2>2 DEF Injective
    <3> QED BY <3>1
  <2> QED BY <1>6, <2>1, <2>2
<1>8. Ran(c) = Ran(a) \cup Ran(b)
  <2>1. Ran(c) \subseteq Ran(a) \cup Ran(b)
    BY <1>4, <1>6 DEF Ran
  <2>2. ASSUME NEW i \in 1 .. m PROVE a[i] \in Ran(c)
    <3>1. i \in 1 .. m + n /\ i <= m
      OBVIOUS
    <3> QED BY <1>4, <1>5, <3>1 DEF Ran
  <2>3. ASSUME NEW i \in 1 .. n PROVE b[i] \in Ran(c)
    <3>1. PICK k : k = m + i
      OBVIOUS
    <3>2. k \in 1 .. m + n /\ ~(k <= m) /\ k - m = i
      BY <3>1
    <3>3. c[k] = b[i]
      BY <1>5, <3>2
    <3> QED BY <1>4, <3>2, <3>3 DEF Ran
  <2>4. Ran(a) \subseteq Ran(c) /\ Ran(b) \subseteq Ran(c)
    BY <1>1, <1>2, <2>2, <2>3 DEF Ran
  <2> QED BY <2>1, <2>4
<1> QED BY <1>3, <1>4, <1>7, <1>8

\* getMatching() finds what is in force and fits, in the order registered.
LEMMA MatchingIs ==
    ASSUME Events!PatternsAssumption, Tables(exact, wilds, inForce)
    PROVE  Events!Matching = Events!Filtered(inForce, {reg \in Events!Range(inForce) :
                                                          Events!Covers(reg.pattern, Event)})
<1>1. /\ exact \in Seq(Regs) /\ wilds \in Seq(Regs) /\ inForce \in Seq(Regs)
      /\ Events!Ascending(exact) /\ Events!Ascending(wilds) /\ Events!Ascending(inForce)
  BY DEF Tables
<1>2. /\ Event \in Patterns /\ Patterns \subseteq Seq(STRING)
      /\ \A p \in Patterns : Events!IsWildcardPattern(p) <=> p # Event
  BY DEF Events!PatternsAssumption
<1>3. PICK W : W = {reg \in Ran(wilds) : Events!CompilePattern(reg.pattern, Event)}
  OBVIOUS
<1>4. PICK F : F = {reg \in Ran(inForce) : Events!Covers(reg.pattern, Event)}
  OBVIOUS
<1>5. PICK b : b = Events!Filtered(wilds, W)
  OBVIOUS
<1>6. b \in Seq(Regs) /\ Events!Ascending(b) /\ Ran(b) = W
  <2>1. Ran(wilds) \cap W = W
    BY <1>3
  <2> QED BY <1>1, <1>5, <2>1, FilteredIs
<1>7. PICK t : t = Events!Filtered(inForce, F)
  OBVIOUS
<1>8. t \in Seq(Regs) /\ Events!Ascending(t) /\ Ran(t) = F
  <2>1. Ran(inForce) \cap F = F
    BY <1>4
  <2> QED BY <1>1, <1>7, <2>1, FilteredIs
<1>9. PICK c : c = exact \o b
  OBVIOUS
<1>10. c \in Seq(Regs) /\ Injective(c) /\ Ran(c) = Ran(exact) \cup W
  <2>1. Injective(exact) /\ Injective(b)
    BY <1>1, <1>6, RegIds, AscendingInjective
  <2>2. \A r \in Ran(exact) : r \notin Ran(b)
    BY <1>3, <1>6, TablesApart
  <2> QED BY <1>1, <1>6, <1>9, <2>1, <2>2, ConcatIs
<1>11. Ran(exact) \cup W = F
  <2>1. ASSUME NEW r \in Ran(inForce)
        PROVE  r \in F <=> r \in Ran(exact) \/ r \in W
    <3>1. r \in Regs /\ (IF Wild(r) THEN r \in Ran(wilds) ELSE r \in Ran(exact))
      BY TablesApart
    <3>2. r.pattern \in Patterns /\ r.pattern \in Seq(STRING) /\ Event \in Seq(STRING)
      BY <1>2, <3>1 DEF Regs
    <3>3. Events!CompilePattern(r.pattern, Event) <=> Events!Covers(r.pattern, Event)
      BY <3>2, CompileIsCovers
    <3>4. CASE Wild(r)
      <4>1. r \in Ran(wilds) /\ r \notin Ran(exact)
        BY <3>1, <3>4, TablesApart
      <4> QED BY <1>3, <1>4, <2>1, <3>3, <4>1
    <3>5. CASE ~Wild(r)
      <4>1. r.pattern = Event
        BY <1>2, <3>2, <3>5 DEF Wild
      <4>2. Events!Covers(Event, Event)
        BY <3>2, <3>5, <4>1, NameCovers DEF Wild
      <4> QED BY <1>4, <2>1, <3>1, <3>5, <4>1, <4>2
    <3> QED BY <3>4, <3>5
  <2>2. \A r \in Ran(exact) : r \in Ran(inForce)
    BY TablesApart
  <2>3. \A r \in W : r \in Ran(inForce)
    BY <1>3, TablesApart
  <2> QED BY <1>4, <2>1, <2>2, <2>3
<1>12. Events!Sorted(c) = t
  BY <1>8, <1>10, <1>11, RegIds, SortedIs
<1>13. Events!Range(wilds) = Ran(wilds) /\ Events!Range(inForce) = Ran(inForce)
  BY <1>1, RangeIsRan
<1>14. Events!Matching = Events!Sorted(c)
  BY <1>3, <1>5, <1>9, <1>13 DEF Events!Matching, Events!Fitting
<1> QED BY <1>4, <1>7, <1>12, <1>13, <1>14

-----------------------------------------------------------------------------
(* Events: emissions *)

IsEmission(m) ==
    m = [phase |-> m.phase, regs |-> m.regs, next |-> m.next, async |-> m.async,
         pending |-> m.pending, once |-> m.once, array |-> m.array, shares |-> m.shares]
EmissionsTyped(f) == f = [e \in Emissions |-> f[e]] /\ \A e \in Emissions : IsEmission(f[e])

\* An emission of the core works on the array that is in the map until another takes
\* its place; what has ended has nothing to take out.
Sharing(f) ==
    \A e \in Emissions : IF f[e].phase \in {"calling", "waiting"} THEN f[e].shares
                         ELSE f[e].once = {} /\ f[e].regs = <<>> /\ ~f[e].async

EventsInv ==
    /\ EmissionsTyped(emission) /\ stack \in Seq(Emissions) /\ seq \in Nat
    /\ emitter = "core" => wilds = <<>>
    /\ emitter = "package" \/ ~overlapped =>
          Tables(exact, wilds, inForce) /\ \A r \in Ran(inForce) : r.id <= seq
    /\ emitter = "core" /\ ~overlapped => Sharing(emission)

LEMMA EventsKeep ==
    ASSUME Events!PatternsAssumption, EventsInv
    PROVE  Events!EmitsInForce
BY MatchingIs DEF EventsInv, Events!EmitsInForce

LEMMA EventsInit == Events!PatternsAssumption /\ Events!Init => EventsInv
<1> SUFFICES ASSUME Events!PatternsAssumption, Events!Init PROVE EventsInv
  OBVIOUS
<1>1. /\ exact = <<>> /\ wilds = <<>> /\ seq = 0 /\ stack = <<>> /\ inForce = <<>>
      /\ emission = [e \in Emissions |-> Events!Idle]
  BY DEF Events!Init
<1>2. <<>> \in Seq(Regs) /\ stack \in Seq(Emissions) /\ Len(<<>>) = 0 /\ Ran(<<>>) = {}
  BY <1>1, EmptySeq DEF Ran
<1>3. Events!Ascending(<<>>)
  <2>1. DOMAIN <<>> = 1 .. Len(<<>>)
    BY <1>2, LenProperties
  <2>2. DOMAIN <<>> = {}
    BY <1>2, <2>1
  <2> QED BY <2>2 DEF Events!Ascending
<1>4. Tables(exact, wilds, inForce) /\ \A r \in Ran(inForce) : r.id <= seq
  BY <1>1, <1>2, <1>3 DEF Tables
<1>5. /\ IsEmission(Events!Idle) /\ Events!Idle.phase = "idle"
      /\ Events!Idle.once = {} /\ Events!Idle.regs = <<>> /\ ~Events!Idle.async
  BY DEF IsEmission, Events!Idle
<1>6. EmissionsTyped(emission) /\ Sharing(emission)
  BY <1>1, <1>5 DEF EmissionsTyped, Sharing
<1> QED BY <1>1, <1>2, <1>4, <1>6 DEF EventsInv

\* What a change of one emission leaves.
LEMMA ShapedExcept ==
    ASSUME NEW f, EmissionsTyped(f), NEW e \in Emissions, NEW m, IsEmission(m)
    PROVE  /\ EmissionsTyped([f EXCEPT ![e] = m])
           /\ [f EXCEPT ![e] = m][e] = m
           /\ \A d \in Emissions : d # e => [f EXCEPT ![e] = m][d] = f[d]
<1>1. PICK g : g = [f EXCEPT ![e] = m]
  OBVIOUS
<1>2. g = [d \in Emissions |-> IF d = e THEN m ELSE f[d]]
  BY <1>1 DEF EmissionsTyped
<1>3. \A d \in Emissions : g[d] = IF d = e THEN m ELSE f[d]
  BY <1>2
<1>4. g = [d \in Emissions |-> g[d]]
  BY <1>2
<1>5. \A d \in Emissions : IsEmission(g[d])
  BY <1>3 DEF EmissionsTyped
<1> QED BY <1>1, <1>3, <1>4, <1>5 DEF EmissionsTyped

LEMMA SharingExcept ==
    ASSUME NEW f, EmissionsTyped(f), Sharing(f), NEW e \in Emissions, NEW m, IsEmission(m),
           IF m.phase \in {"calling", "waiting"} THEN m.shares
           ELSE m.once = {} /\ m.regs = <<>> /\ ~m.async
    PROVE  Sharing([f EXCEPT ![e] = m])
<1>1. PICK g : g = [f EXCEPT ![e] = m]
  OBVIOUS
<1>2. \A d \in Emissions : g[d] = IF d = e THEN m ELSE f[d]
  BY <1>1, ShapedExcept
<1>3. ASSUME NEW d \in Emissions
      PROVE  IF g[d].phase \in {"calling", "waiting"} THEN g[d].shares
             ELSE g[d].once = {} /\ g[d].regs = <<>> /\ ~g[d].async
  BY <1>2 DEF Sharing
<1> QED BY <1>1, <1>3 DEF Sharing

\* Another array in the map: who worked on the old one still does.
LEMMA ReplacedIs ==
    ASSUME NEW regs, NEW ended, EmissionsTyped(ended), Events!Replaced(regs, ended)
    PROVE  /\ exact' = regs /\ EmissionsTyped(emission')
           /\ ~overlapped' => ~overlapped /\ (Sharing(ended) => Sharing(emission'))
<1>1. /\ exact' = regs
      /\ emission' = [e \in Emissions |->
            IF ended[e].shares THEN [ended[e] EXCEPT !.array = exact, !.shares = FALSE]
            ELSE ended[e]]
      /\ overlapped' =
            (overlapped \/ \E e \in Emissions : ended[e].phase \in {"calling", "waiting"})
  BY DEF Events!Replaced
<1>2. PICK g : g = [e \in Emissions |->
            IF ended[e].shares THEN [ended[e] EXCEPT !.array = exact, !.shares = FALSE]
            ELSE ended[e]]
  OBVIOUS
<1>3. ASSUME NEW e \in Emissions
      PROVE  /\ IsEmission(g[e]) /\ g[e].phase = ended[e].phase
             /\ g[e].once = ended[e].once /\ g[e].regs = ended[e].regs
             /\ g[e].async = ended[e].async
  <2>1. PICK m : m = ended[e]
    OBVIOUS
  <2>2. IsEmission(m)
    BY <2>1 DEF EmissionsTyped
  <2>3. CASE m.shares
    <3>1. g[e] = [m EXCEPT !.array = exact, !.shares = FALSE]
      BY <1>2, <2>1, <2>3
    <3>2. g[e] = [phase |-> m.phase, regs |-> m.regs, next |-> m.next, async |-> m.async,
                  pending |-> m.pending, once |-> m.once, array |-> exact, shares |-> FALSE]
      BY <2>2, <3>1 DEF IsEmission
    <3> QED BY <2>1, <3>2 DEF IsEmission
  <2>4. CASE ~m.shares
    <3>1. g[e] = m
      BY <1>2, <2>1, <2>4
    <3> QED BY <2>1, <2>2, <3>1
  <2> QED BY <2>3, <2>4
<1>4. g = [e \in Emissions |-> g[e]]
  BY <1>2
<1>5. EmissionsTyped(g)
  BY <1>3, <1>4 DEF EmissionsTyped
<1>6. ASSUME ~overlapped', Sharing(ended) PROVE Sharing(g)
  <2> SUFFICES ASSUME NEW e \in Emissions
               PROVE  IF g[e].phase \in {"calling", "waiting"} THEN g[e].shares
                      ELSE g[e].once = {} /\ g[e].regs = <<>> /\ ~g[e].async
    BY DEF Sharing
  <2>1. ~(ended[e].phase \in {"calling", "waiting"})
    BY <1>1, <1>6
  <2>2. ended[e].once = {} /\ ended[e].regs = <<>> /\ ~ended[e].async
    BY <1>6, <2>1 DEF Sharing
  <2> QED BY <1>3, <2>1, <2>2
<1>7. emission' = g
  BY <1>1, <1>2
<1> QED BY <1>1, <1>5, <1>6, <1>7

LEMMA EventsOn ==
    ASSUME Events!PatternsAssumption, EventsInv, NEW h \in Handlers, NEW once \in BOOLEAN,
           NEW p \in Patterns, Events!On(h, once, p)
    PROVE  EventsInv'
<1>1. PICK reg : reg = [id |-> seq + 1, handler |-> h, once |-> once, pattern |-> p]
  OBVIOUS
<1>2. /\ inForce' = Append(inForce, reg) /\ seq' = seq + 1
      /\ wilds' = IF Events!IsWildcardPattern(p) THEN Append(wilds, reg) ELSE wilds
      /\ exact' = IF Events!IsWildcardPattern(p) THEN exact ELSE Append(exact, reg)
      /\ UNCHANGED <<emitter, emission, stack, overlapped>>
      /\ emitter = "core" => p = Event
  BY <1>1 DEF Events!On
<1>3. reg \in Regs /\ reg.id = seq + 1 /\ seq \in Nat /\ reg.pattern = p
  BY <1>1 DEF Regs, EventsInv
<1>4. ASSUME emitter = "package" \/ ~overlapped
      PROVE  Tables(exact', wilds', inForce') /\ \A r \in Ran(inForce') : r.id <= seq'
  <2>1. Tables(exact, wilds, inForce) /\ \A r \in Ran(inForce) : r.id <= seq
    BY <1>4 DEF EventsInv
  <2>2. \A r \in Ran(inForce) : r \in Regs
    BY <2>1, TablesApart
  <2>3. \A r \in Ran(inForce) : r.id \in Nat
    BY <2>2, RegIds
  <2>4. \A r \in Ran(inForce) : r.id < reg.id /\ r.id <= seq + 1
    BY <1>3, <2>1, <2>3
  <2>5. IF Wild(reg) THEN Tables(exact, Append(wilds, reg), Append(inForce, reg))
        ELSE Tables(Append(exact, reg), wilds, Append(inForce, reg))
    BY <1>3, <2>1, <2>4, OnAgrees
  <2>6. Tables(exact', wilds', inForce')
    BY <1>2, <1>3, <2>5 DEF Wild
  <2>7. Ran(inForce') = Ran(inForce) \cup {reg}
    BY <1>2, <1>3, <2>1, AppendIs DEF Tables
  <2>8. reg.id <= seq + 1
    BY <1>3
  <2> QED BY <1>2, <2>4, <2>6, <2>7, <2>8
<1>5. emitter = "core" => wilds' = <<>>
  BY <1>2 DEF EventsInv, Events!PatternsAssumption
<1>6. seq' \in Nat
  BY <1>2, <1>3
<1> QED BY <1>2, <1>4, <1>5, <1>6 DEF EventsInv

\* The core's table is what is in force.
LEMMA CoreAgrees ==
    ASSUME EventsInv, emitter = "core", ~overlapped
    PROVE  exact = inForce /\ wilds = <<>> /\ exact \in Seq(Regs) /\ Events!Ascending(exact)
<1>1. wilds = <<>> /\ Tables(exact, wilds, inForce)
  BY DEF EventsInv
<1>2. exact = inForce
  BY <1>1, CoreOne
<1> QED BY <1>1, <1>2 DEF Tables

LEMMA EventsOff ==
    ASSUME Events!PatternsAssumption, EventsInv, NEW h \in Handlers, NEW p \in Patterns,
           Events!Off(h, p)
    PROVE  EventsInv'
<1>1. CASE /\ emitter = "core"
           /\ Events!Replaced(Events!Drop(exact, Events!IdsOf(Events!OfHandler(exact, h))),
                              emission)
           /\ inForce' = Events!Drop(inForce, Events!IdsOf(Events!OfHandler(inForce, h)))
           /\ UNCHANGED wilds
  <2>1. PICK regs : regs = Events!Drop(exact, Events!IdsOf(Events!OfHandler(exact, h)))
    OBVIOUS
  <2>2. /\ exact' = regs /\ EmissionsTyped(emission')
        /\ ~overlapped' => ~overlapped /\ (Sharing(emission) => Sharing(emission'))
    BY <1>1, <2>1, ReplacedIs DEF EventsInv
  <2>3. UNCHANGED <<emitter, seq, stack>>
    BY DEF Events!Off
  <2>4. wilds' = <<>> /\ emitter' # "package"
    BY <1>1, <2>3 DEF EventsInv
  <2>5. ASSUME ~overlapped'
        PROVE  Tables(exact', wilds', inForce') /\ \A r \in Ran(inForce') : r.id <= seq'
    <3>1. ~overlapped /\ exact = inForce /\ wilds = <<>>
      BY <1>1, <2>2, <2>5, CoreAgrees
    <3>2. Tables(exact, wilds, inForce) /\ \A r \in Ran(inForce) : r.id <= seq
      BY <3>1 DEF EventsInv
    <3>3. PICK ids : ids = Events!IdsOf(Events!OfHandler(inForce, h))
      OBVIOUS
    <3>4. wilds = Events!Drop(wilds, ids)
      <4>1. wilds \in Seq(Regs) /\ Events!Ascending(wilds) /\ Ran(wilds) = {}
        BY <3>1, <3>2, EmptySeq DEF Tables, Ran
      <4> QED BY <4>1, DropOther
    <3>5. Tables(Events!Drop(exact, ids), Events!Drop(wilds, ids), Events!Drop(inForce, ids))
      BY <3>2, DropsAgree
    <3>6. /\ exact' = Events!Drop(exact, ids) /\ wilds' = Events!Drop(wilds, ids)
          /\ inForce' = Events!Drop(inForce, ids)
      BY <1>1, <2>1, <2>2, <3>1, <3>3, <3>4
    <3>7. Ran(inForce') \subseteq Ran(inForce)
      BY <3>2, <3>6, DropIs DEF Tables
    <3> QED BY <2>3, <3>2, <3>5, <3>6, <3>7
  <2>6. ~overlapped' => Sharing(emission')
    BY <1>1, <2>2 DEF EventsInv
  <2>7. stack' \in Seq(Emissions) /\ seq' \in Nat
    BY <2>3 DEF EventsInv
  <2> QED BY <2>2, <2>4, <2>5, <2>6, <2>7 DEF EventsInv
<1>2. CASE /\ emitter = "package"
           /\ Events!Edited(Events!IsWildcardPattern(p),
                Events!Drop(Events!Container(Events!IsWildcardPattern(p)),
                   Events!FirstOf(Events!Container(Events!IsWildcardPattern(p)), h, p)))
           /\ inForce' = Events!Drop(inForce, Events!FirstOf(inForce, h, p))
           /\ UNCHANGED <<emission, overlapped>>
  <2>1. UNCHANGED <<emitter, seq, stack>>
    BY DEF Events!Off
  <2>2. Tables(exact, wilds, inForce) /\ \A r \in Ran(inForce) : r.id <= seq
    BY <1>2 DEF EventsInv
  <2>3. PICK s : s = Events!Container(Events!IsWildcardPattern(p))
    OBVIOUS
  <2>4. s = IF Events!IsWildcardPattern(p) THEN wilds ELSE exact
    BY <2>3 DEF Events!Container
  <2>5. PICK ids : ids = Events!FirstOf(inForce, h, p)
    OBVIOUS
  <2>6. Events!FirstOf(s, h, p) = ids
    <3>1. Events!OfPatterns(s, {p}) = Events!OfPatterns(inForce, {p})
      BY <2>2, <2>4, PatternsAgree
    <3> QED BY <2>5, <3>1 DEF Events!FirstOf
  <2>7. \A i \in ids : \E r \in Ran(inForce) : r.id = i /\ r.pattern = p
    BY <2>2, <2>5, FirstIs DEF Tables
  <2>8. IF Events!IsWildcardPattern(p)
        THEN Tables(exact, Events!Drop(wilds, ids), Events!Drop(inForce, ids))
        ELSE Tables(Events!Drop(exact, ids), wilds, Events!Drop(inForce, ids))
    BY <2>2, <2>7, EditAgrees
  <2>9. IF Events!IsWildcardPattern(p) THEN wilds' = Events!Drop(wilds, ids) /\ exact' = exact
        ELSE exact' = Events!Drop(exact, ids) /\ wilds' = wilds
    BY <1>2, <2>3, <2>4, <2>6 DEF Events!Edited
  <2>10. Tables(exact', wilds', inForce')
    BY <1>2, <2>5, <2>8, <2>9
  <2>11. Ran(inForce') \subseteq Ran(inForce)
    BY <1>2, <2>2, DropIs DEF Tables
  <2> QED BY <1>2, <2>1, <2>2, <2>10, <2>11 DEF EventsInv
<1> QED BY <1>1, <1>2 DEF Events!Off

LEMMA EventsOffAll ==
    ASSUME Events!PatternsAssumption, EventsInv, NEW p \in Patterns, Events!OffAll(p)
    PROVE  EventsInv'
<1>1. inForce' = Events!OfPatterns(inForce, Patterns \ {p}) /\ UNCHANGED <<emitter, seq, stack>>
  BY DEF Events!OffAll
<1>2. ASSUME Tables(exact, wilds, inForce)
      PROVE  /\ inForce' = Events!Drop(inForce, Events!IdsOf(Events!OfPatterns(inForce, {p})))
             /\ Ran(inForce') \subseteq Ran(inForce)
             /\ \A i \in Events!IdsOf(Events!OfPatterns(inForce, {p})) :
                   \E r \in Ran(inForce) : r.id = i /\ r.pattern = p
  <2>1. inForce \in Seq(Regs) /\ Events!Ascending(inForce)
    BY <1>2 DEF Tables
  <2>2. inForce' = Events!Drop(inForce, Events!IdsOf(Events!OfPatterns(inForce, {p})))
    BY <1>1, <2>1, OffPattern
  <2>3. Ran(inForce') \subseteq Ran(inForce)
    BY <2>1, <2>2, DropIs
  <2>4. PICK b : b = Events!OfPatterns(inForce, {p})
    OBVIOUS
  <2>5. b \in Seq(Regs) /\ Ran(b) = {r \in Ran(inForce) : r.pattern \in {p}}
    BY <2>1, <2>4, OfPatternsIs
  <2>6. Events!IdsOf(b) = {r.id : r \in Ran(b)}
    BY <2>5, IdsAre
  <2>7. \A i \in Events!IdsOf(b) : \E r \in Ran(inForce) : r.id = i /\ r.pattern = p
    BY <2>5, <2>6
  <2> QED BY <2>2, <2>3, <2>4, <2>7
<1>3. CASE emitter = "core" /\ p = Event /\ Events!Replaced(<<>>, emission) /\ UNCHANGED wilds
  <2>1. /\ exact' = <<>> /\ EmissionsTyped(emission')
        /\ ~overlapped' => ~overlapped /\ (Sharing(emission) => Sharing(emission'))
    BY <1>3, ReplacedIs DEF EventsInv
  <2>2. wilds' = <<>> /\ emitter' # "package"
    BY <1>1, <1>3 DEF EventsInv
  <2>3. ASSUME ~overlapped'
        PROVE  Tables(exact', wilds', inForce') /\ \A r \in Ran(inForce') : r.id <= seq'
    <3>1. /\ ~overlapped /\ exact = inForce /\ wilds = <<>>
          /\ Tables(exact, wilds, inForce) /\ \A r \in Ran(inForce) : r.id <= seq
      BY <1>3, <2>1, <2>3, CoreAgrees DEF EventsInv
    <3>2. PICK ids : ids = Events!IdsOf(Events!OfPatterns(inForce, {p}))
      OBVIOUS
    <3>3. \A i \in ids : \E r \in Ran(inForce) : r.id = i /\ r.pattern = p
      BY <1>2, <3>1, <3>2
    <3>4. ~Events!IsWildcardPattern(p)
      BY <1>3 DEF Events!PatternsAssumption
    <3>5. Tables(Events!Drop(exact, ids), wilds, Events!Drop(inForce, ids))
      BY <3>1, <3>3, <3>4, EditAgrees
    <3>6. inForce' = Events!Drop(inForce, ids)
      BY <1>2, <3>1, <3>2
    <3>7. inForce' = <<>>
      <4>1. /\ inForce' \in Seq(Regs)
            /\ Ran(inForce') = {r \in Ran(inForce) : r.pattern \in Patterns \ {p}}
        BY <1>1, <3>1, OfPatternsIs DEF Tables
      <4>2. \A r \in Ran(inForce) : r \in Regs /\ ~Wild(r)
        BY <3>1, TablesApart
      <4>3. \A r \in Ran(inForce) : r.pattern = Event
        BY <4>2 DEF Regs, Wild, Events!PatternsAssumption
      <4>4. Ran(inForce') = {}
        BY <1>3, <4>1, <4>3
      <4>5. Len(inForce') \in Nat /\ (Len(inForce') # 0 => inForce'[1] \in Ran(inForce'))
        BY <4>1, LenProperties DEF Ran
      <4>6. Len(inForce') = 0
        BY <4>4, <4>5
      <4> QED BY <4>1, <4>6, EmptySeq
    <3>8. Events!Drop(exact, ids) = <<>>
      BY <3>1, <3>6, <3>7
    <3> QED BY <1>1, <1>2, <1>3, <2>1, <3>1, <3>5, <3>6, <3>8
  <2>4. ~overlapped' => Sharing(emission')
    BY <1>3, <2>1 DEF EventsInv
  <2>5. stack' \in Seq(Emissions) /\ seq' \in Nat
    BY <1>1 DEF EventsInv
  <2> QED BY <2>1, <2>2, <2>3, <2>4, <2>5 DEF EventsInv
<1>4. CASE /\ emitter = "package"
           /\ Events!Edited(Events!IsWildcardPattern(p),
                Events!Drop(Events!Container(Events!IsWildcardPattern(p)),
                   Events!IdsOf(Events!OfPatterns(
                      Events!Container(Events!IsWildcardPattern(p)), {p}))))
           /\ UNCHANGED <<emission, overlapped>>
  <2>1. Tables(exact, wilds, inForce) /\ \A r \in Ran(inForce) : r.id <= seq
    BY <1>4 DEF EventsInv
  <2>2. PICK s : s = Events!Container(Events!IsWildcardPattern(p))
    OBVIOUS
  <2>3. s = IF Events!IsWildcardPattern(p) THEN wilds ELSE exact
    BY <2>2 DEF Events!Container
  <2>4. PICK ids : ids = Events!IdsOf(Events!OfPatterns(inForce, {p}))
    OBVIOUS
  <2>5. Events!OfPatterns(s, {p}) = Events!OfPatterns(inForce, {p})
    BY <2>1, <2>3, PatternsAgree
  <2>6. IF Events!IsWildcardPattern(p)
        THEN Tables(exact, Events!Drop(wilds, ids), Events!Drop(inForce, ids))
        ELSE Tables(Events!Drop(exact, ids), wilds, Events!Drop(inForce, ids))
    BY <1>2, <2>1, <2>4, EditAgrees
  <2>7. IF Events!IsWildcardPattern(p) THEN wilds' = Events!Drop(wilds, ids) /\ exact' = exact
        ELSE exact' = Events!Drop(exact, ids) /\ wilds' = wilds
    BY <1>4, <2>2, <2>3, <2>4, <2>5 DEF Events!Edited
  <2>8. Tables(exact', wilds', inForce') /\ Ran(inForce') \subseteq Ran(inForce)
    BY <1>2, <2>1, <2>4, <2>6, <2>7
  <2> QED BY <1>1, <1>4, <2>1, <2>8 DEF EventsInv
<1> QED BY <1>3, <1>4 DEF Events!OffAll

LEMMA EventsEmit ==
    ASSUME EventsInv, NEW e \in Emissions, NEW async \in BOOLEAN, Events!Emit(e, async)
    PROVE  EventsInv'
<1>1. PICK m : m = [Events!Idle EXCEPT !.phase = "calling", !.regs = Events!Matching,
                                       !.async = async, !.shares = (emitter = "core")]
  OBVIOUS
<1>2. /\ emission' = [emission EXCEPT ![e] = m] /\ stack' = Append(stack, e)
      /\ UNCHANGED <<emitter, exact, wilds, seq, inForce, overlapped>>
  BY <1>1 DEF Events!Emit
<1>3. IsEmission(m) /\ m.phase = "calling" /\ m.shares = (emitter = "core")
  BY <1>1 DEF IsEmission, Events!Idle
<1>4. EmissionsTyped(emission')
  BY <1>2, <1>3, ShapedExcept DEF EventsInv
<1>5. emitter = "core" /\ ~overlapped => Sharing(emission')
  BY <1>2, <1>3, SharingExcept DEF EventsInv
<1>6. stack' \in Seq(Emissions)
  BY <1>2, AppendProperties DEF EventsInv
<1> QED BY <1>2, <1>4, <1>5, <1>6 DEF EventsInv

LEMMA LastIs ==
    ASSUME NEW T, NEW s \in Seq(T), s # <<>>
    PROVE  Events!Last(s) \in T /\ Events!Front(s) \in Seq(T)
<1>1. Len(s) \in Nat /\ Len(s) # 0
  BY EmptySeq, LenProperties
<1>2. Len(s) \in 1 .. Len(s)
  BY <1>1
<1>3. Events!Last(s) \in T
  BY <1>2, ElementOfSeq DEF Events!Last
<1>4. Events!Front(s) \in Seq(T)
  <2>1. 1 \in 1 .. Len(s) + 1 /\ Len(s) - 1 \in 1 - 1 .. Len(s)
    BY <1>1
  <2> QED BY <2>1, SubSeqProperties DEF Events!Front
<1> QED BY <1>3, <1>4

\* What stays as it is when only emissions and the stack change.
LEMMA EmissionsOnly ==
    ASSUME EventsInv, UNCHANGED <<emitter, exact, wilds, seq, inForce, overlapped>>,
           EmissionsTyped(emission'), stack' \in Seq(Emissions),
           emitter = "core" /\ ~overlapped => Sharing(emission')
    PROVE  EventsInv'
BY DEF EventsInv

LEMMA EventsCall ==
    ASSUME EventsInv, Events!Call
    PROVE  EventsInv'
<1>1. PICK e : e = Events!Last(stack)
  OBVIOUS
<1>2. e \in Emissions
  BY <1>1, LastIs DEF EventsInv, Events!Call
<1>3. PICK m : m = emission[e]
  OBVIOUS
<1>4. IsEmission(m)
  BY <1>2, <1>3 DEF EventsInv, EmissionsTyped
<1>5. PICK a : a = [m EXCEPT !.next = @ + 1,
                             !.pending = IF m.async THEN @ \union {m.next} ELSE @,
                             !.once = IF ~m.async /\ m.regs[m.next].once
                                      THEN @ \union {m.regs[m.next].id} ELSE @]
  OBVIOUS
<1>6. emission' = [emission EXCEPT ![e] = a]
  BY <1>1, <1>2, <1>3, <1>5 DEF Events!Call, EventsInv, EmissionsTyped
<1>7. /\ IsEmission(a) /\ a.phase = m.phase /\ a.shares = m.shares
      /\ a.regs = m.regs
  BY <1>4, <1>5 DEF IsEmission
<1>8. EmissionsTyped(emission')
  BY <1>2, <1>6, <1>7, ShapedExcept DEF EventsInv
<1>9. ASSUME emitter = "core", ~overlapped PROVE Sharing(emission')
  <2>1. Sharing(emission)
    BY <1>9 DEF EventsInv
  <2>2. m.regs # <<>>
    <3>1. m.next \in DOMAIN m.regs
      BY <1>1, <1>3 DEF Events!Call
    <3>2. Len(<<>>) = 0 /\ DOMAIN <<>> = 1 .. Len(<<>>)
      BY EmptySeq, LenProperties
    <3>3. DOMAIN <<>> = {}
      BY <3>2
    <3> QED BY <3>1, <3>3
  <2>3. a.phase \in {"calling", "waiting"} /\ a.shares
    BY <1>2, <1>3, <1>7, <2>1, <2>2 DEF Sharing
  <2> QED BY <1>2, <1>6, <1>7, <2>1, <2>3, SharingExcept DEF EventsInv
<1> QED BY <1>8, <1>9, EmissionsOnly DEF Events!Call, EventsInv

\* The end of an emission takes its registrations out of the tables.
LEMMA EventsEnd ==
    ASSUME EventsInv, NEW e \in Emissions, NEW ids, Events!Ends(e, ids),
           emission[e].phase \in {"calling", "waiting"} \/ ids = emission[e].once,
           UNCHANGED <<emitter, seq>>, stack' \in Seq(Emissions)
    PROVE  EventsInv'
<1>1. PICK done : done = [Events!Idle EXCEPT !.phase = "done"]
  OBVIOUS
<1>2. PICK ended : ended = [emission EXCEPT ![e] = done]
  OBVIOUS
<1>3. /\ IsEmission(done) /\ ~(done.phase \in {"calling", "waiting"})
      /\ done.once = {} /\ done.regs = <<>> /\ ~done.async
  BY <1>1 DEF IsEmission, Events!Idle
<1>4. EmissionsTyped(ended)
  BY <1>2, <1>3, ShapedExcept DEF EventsInv
<1>5. emitter = "core" /\ ~overlapped => Sharing(ended)
  BY <1>2, <1>3, SharingExcept DEF EventsInv
<1>6. inForce' = Events!Drop(inForce, ids)
  BY DEF Events!Ends
<1>7. ASSUME Tables(exact, wilds, inForce)
      PROVE  /\ Tables(Events!Drop(exact, ids), Events!Drop(wilds, ids), inForce')
             /\ Ran(inForce') \subseteq Ran(inForce)
             /\ ids = {} => /\ Events!Drop(exact, ids) = exact /\ Events!Drop(wilds, ids) = wilds
  <2>1. Tables(Events!Drop(exact, ids), Events!Drop(wilds, ids), inForce')
    BY <1>6, <1>7, DropsAgree
  <2>2. Ran(inForce') \subseteq Ran(inForce)
    BY <1>6, <1>7, DropIs DEF Tables
  <2>3. ids = {} => /\ Events!Drop(exact, ids) = exact /\ Events!Drop(wilds, ids) = wilds
    BY <1>7, DropOther DEF Tables
  <2> QED BY <2>1, <2>2, <2>3
<1>8. CASE ids = {} /\ emission' = ended /\ UNCHANGED <<exact, wilds, overlapped>>
  <2>1. ASSUME emitter' = "package" \/ ~overlapped'
        PROVE  Tables(exact', wilds', inForce') /\ \A r \in Ran(inForce') : r.id <= seq'
    BY <1>7, <1>8, <2>1 DEF EventsInv
  <2> QED BY <1>4, <1>5, <1>8, <2>1 DEF EventsInv
<1>9. CASE /\ ids # {} /\ emitter = "core"
           /\ Events!Replaced(Events!Drop(IF emission[e].shares THEN exact ELSE emission[e].array,
                                          ids), ended)
           /\ UNCHANGED wilds
  <2>1. PICK regs : regs = Events!Drop(IF emission[e].shares THEN exact ELSE emission[e].array, ids)
    OBVIOUS
  <2>2. /\ exact' = regs /\ EmissionsTyped(emission')
        /\ ~overlapped' => ~overlapped /\ (Sharing(ended) => Sharing(emission'))
    BY <1>4, <1>9, <2>1, ReplacedIs
  <2>3. ASSUME ~overlapped'
        PROVE  /\ Tables(exact', wilds', inForce') /\ \A r \in Ran(inForce') : r.id <= seq'
               /\ Sharing(emission')
    <3>1. ~overlapped /\ Sharing(ended) /\ Sharing(emission)
      BY <1>5, <1>9, <2>2, <2>3 DEF EventsInv
    <3>2. emission[e].shares
      BY <1>9, <3>1 DEF Sharing
    <3>3. exact' = Events!Drop(exact, ids)
      BY <2>1, <2>2, <3>2
    <3>4. /\ wilds = <<>> /\ Tables(exact, wilds, inForce)
          /\ \A r \in Ran(inForce) : r.id <= seq
      BY <1>9, <3>1 DEF EventsInv
    <3>5. wilds' = Events!Drop(wilds, ids)
      <4>1. wilds \in Seq(Regs) /\ Events!Ascending(wilds) /\ Ran(wilds) = {}
        BY <3>4, EmptySeq DEF Tables, Ran
      <4> QED BY <1>9, <4>1, DropOther
    <3> QED BY <1>7, <2>2, <2>3, <3>1, <3>3, <3>4, <3>5
  <2>4. wilds' = <<>> /\ emitter' # "package"
    BY <1>9 DEF EventsInv
  <2> QED BY <2>2, <2>3, <2>4 DEF EventsInv
<1>10. CASE /\ ids # {} /\ emitter = "package"
            /\ exact' = Events!Drop(exact, ids) /\ wilds' = Events!Drop(wilds, ids)
            /\ emission' = ended /\ UNCHANGED overlapped
  <2>1. Tables(exact', wilds', inForce') /\ \A r \in Ran(inForce') : r.id <= seq'
    BY <1>7, <1>10 DEF EventsInv
  <2> QED BY <1>4, <1>10, <2>1 DEF EventsInv
<1> QED BY <1>1, <1>2, <1>8, <1>9, <1>10 DEF Events!Ends

LEMMA EventsReturn ==
    ASSUME EventsInv, Events!Returns
    PROVE  EventsInv'
<1>1. PICK e : e = Events!Last(stack)
  OBVIOUS
<1>2. e \in Emissions /\ stack' \in Seq(Emissions) /\ UNCHANGED <<emitter, seq>>
  BY <1>1, LastIs DEF EventsInv, Events!Returns
<1>3. CASE ~emission[e].async /\ Events!Ends(e, emission[e].once)
  BY <1>2, <1>3, EventsEnd
<1>4. CASE /\ emission[e].async
           /\ emission' = [emission EXCEPT ![e].phase = "waiting"]
           /\ UNCHANGED <<exact, wilds, inForce, overlapped>>
  <2>1. PICK m : m = emission[e]
    OBVIOUS
  <2>2. PICK a : a = [m EXCEPT !.phase = "waiting"]
    OBVIOUS
  <2>3. IsEmission(m)
    BY <1>2, <2>1 DEF EventsInv, EmissionsTyped
  <2>4. emission' = [emission EXCEPT ![e] = a]
    BY <1>2, <1>4, <2>1, <2>2 DEF EventsInv, EmissionsTyped
  <2>5. IsEmission(a) /\ a.phase = "waiting" /\ a.shares = m.shares
    BY <2>2, <2>3 DEF IsEmission
  <2>6. EmissionsTyped(emission')
    BY <1>2, <2>4, <2>5, ShapedExcept DEF EventsInv
  <2>7. ASSUME emitter = "core", ~overlapped PROVE Sharing(emission')
    <3>1. Sharing(emission)
      BY <2>7 DEF EventsInv
    <3>2. a.shares
      BY <1>2, <1>4, <2>1, <2>5, <3>1 DEF Sharing
    <3> QED BY <1>2, <2>4, <2>5, <3>1, <3>2, SharingExcept DEF EventsInv
  <2> QED BY <1>2, <1>4, <2>6, <2>7, EmissionsOnly
<1> QED BY <1>1, <1>3, <1>4 DEF Events!Returns

LEMMA EventsSettle ==
    ASSUME EventsInv, NEW e \in Emissions, NEW i, NEW fails \in BOOLEAN,
           Events!Settles(e, i, fails)
    PROVE  EventsInv'
<1>1. PICK once : once = emission[e].once \union {id \in {emission[e].regs[i].id} :
                                                     emission[e].regs[i].once /\ ~fails}
  OBVIOUS
<1>2. emission[e].phase = "waiting" /\ UNCHANGED <<emitter, seq, stack>>
  BY DEF Events!Settles
<1>3. stack' \in Seq(Emissions)
  BY <1>2 DEF EventsInv
<1>4. CASE Events!Ends(e, once)
  BY <1>2, <1>3, <1>4, EventsEnd
<1>5. CASE /\ emission' = [emission EXCEPT ![e].pending = @ \ {i}, ![e].once = once]
           /\ UNCHANGED <<exact, wilds, inForce, overlapped>>
  <2>1. PICK m : m = emission[e]
    OBVIOUS
  <2>2. PICK a : a = [m EXCEPT !.pending = @ \ {i}, !.once = once]
    OBVIOUS
  <2>3. IsEmission(m)
    BY <2>1 DEF EventsInv, EmissionsTyped
  <2>4. emission' = [emission EXCEPT ![e] = a]
    BY <1>5, <2>1, <2>2 DEF EventsInv, EmissionsTyped
  <2>5. IsEmission(a) /\ a.phase = "waiting" /\ a.shares = m.shares
    BY <1>2, <2>1, <2>2, <2>3 DEF IsEmission
  <2>6. EmissionsTyped(emission')
    BY <2>4, <2>5, ShapedExcept DEF EventsInv
  <2>7. ASSUME emitter = "core", ~overlapped PROVE Sharing(emission')
    <3>1. Sharing(emission)
      BY <2>7 DEF EventsInv
    <3>2. a.shares
      BY <1>2, <2>1, <2>5, <3>1 DEF Sharing
    <3> QED BY <2>4, <2>5, <3>1, <3>2, SharingExcept DEF EventsInv
  <2> QED BY <1>2, <1>3, <1>5, <2>6, <2>7, EmissionsOnly
<1> QED BY <1>1, <1>4, <1>5 DEF Events!Settles

LEMMA EventsStep == EventsInv /\ Events!PatternsAssumption /\ Events!Next => EventsInv'
<1> SUFFICES ASSUME EventsInv, Events!PatternsAssumption, Events!Next PROVE EventsInv'
  OBVIOUS
<1>1. CASE \E h \in Handlers, once \in BOOLEAN, p \in Patterns : Events!On(h, once, p)
  BY <1>1, EventsOn
<1>2. CASE \E h \in Handlers, p \in Patterns : Events!Off(h, p)
  BY <1>2, EventsOff
<1>3. CASE \E p \in Patterns : Events!OffAll(p)
  BY <1>3, EventsOffAll
<1>4. CASE \E e \in Emissions, async \in BOOLEAN : Events!Emit(e, async)
  BY <1>4, EventsEmit
<1>5. CASE Events!EmitterProgress
  <2>1. CASE Events!Call
    BY <2>1, EventsCall
  <2>2. CASE Events!Returns
    BY <2>2, EventsReturn
  <2>3. CASE \E e \in Emissions, fails \in BOOLEAN :
                \E i \in emission[e].pending : Events!Settles(e, i, fails)
    BY <2>3, EventsSettle
  <2> QED BY <1>5, <2>1, <2>2, <2>3 DEF Events!EmitterProgress
<1> QED BY <1>1, <1>2, <1>3, <1>4, <1>5 DEF Events!Next

LEMMA EventsRest == ASSUME EventsInv, UNCHANGED events PROVE EventsInv'
BY DEF events, EventsInv

-----------------------------------------------------------------------------
(* Logs: what is handed on *)

\* The first n messages are handed on in order, or given up.
GivenUpTo(h, f, n) ==
    /\ h \in Seq(Nat) /\ f \subseteq 1 .. n
    /\ \A i, j \in 1 .. Len(h) : i < j => h[i] < h[j]
    /\ \A i \in 1 .. Len(h) : h[i] \in 1 .. n
    /\ \A k \in 1 .. n : k \in f \/ \E i \in 1 .. Len(h) : h[i] = k

GivenInv ==
    /\ entry \in Entries
    /\ ~broken => GivenUpTo(handed, forgotten, sent - Len(logBuffer))
    /\ Logs!Threshold

LEMMA GivenInit == Logs!LoggingAssumption /\ Logs!Init => GivenInv
<1> SUFFICES ASSUME Logs!Init PROVE GivenInv
  OBVIOUS
<1>1. /\ logBuffer = <<>> /\ sent = 0 /\ handed = <<>> /\ forgotten = {} /\ shown = {}
      /\ entry \in Entries
  BY DEF Logs!Init
<1>2. Len(<<>>) = 0 /\ <<>> \in Seq(Nat)
  BY EmptySeq
<1>3. 1 .. Len(handed) = {} /\ 1 .. sent - Len(logBuffer) = {}
  BY <1>1, <1>2
<1>4. GivenUpTo(handed, forgotten, sent - Len(logBuffer))
  BY <1>1, <1>2, <1>3 DEF GivenUpTo
<1>5. Logs!Threshold
  BY <1>1 DEF Logs!Threshold
<1> QED BY <1>1, <1>4, <1>5 DEF GivenInv

LEMMA GivenKeep ==
    ASSUME LogsInv, GivenInv
    PROVE  Logs!HandedOnce /\ Logs!Threshold
<1>1. ASSUME ~broken PROVE Logs!HandedOnce
  <2>1. PICK n \in Nat : n = Len(logBuffer) /\ DOMAIN logBuffer = 1 .. n
    BY LenProperties DEF LogsInv
  <2>2. sent \in Nat /\ n <= sent /\ \A i \in 1 .. n : logBuffer[i].id = sent - n + i
    BY <1>1, <2>1 DEF LogsInv
  <2>3. PICK N : N = sent - n
    OBVIOUS
  <2>4. N \in Nat /\ N + n = sent
    BY <2>2, <2>3
  <2>5. GivenUpTo(handed, forgotten, N)
    BY <1>1, <2>1, <2>3 DEF GivenInv
  <2>6. DOMAIN handed = 1 .. Len(handed)
    BY <2>5, LenProperties DEF GivenUpTo
  <2>7. \A i, j \in DOMAIN handed : i < j => handed[i] < handed[j]
    BY <2>5, <2>6 DEF GivenUpTo
  <2>8. PICK A, B : A = {handed[i] : i \in DOMAIN handed}
                    /\ B = {logBuffer[i].id : i \in DOMAIN logBuffer}
    OBVIOUS
  <2>9. ASSUME NEW k \in 1 .. sent PROVE k \in A \/ k \in B \/ k \in forgotten
    <3>1. CASE k <= N
      <4>1. k \in 1 .. N
        BY <2>4, <3>1
      <4> QED BY <2>5, <2>6, <2>8, <4>1 DEF GivenUpTo
    <3>2. CASE ~(k <= N)
      <4>1. k - N \in 1 .. n /\ N + (k - N) = k
        BY <2>4, <3>2
      <4>2. logBuffer[k - N].id = k
        BY <2>2, <2>3, <4>1
      <4> QED BY <2>1, <2>8, <4>1, <4>2
    <3> QED BY <3>1, <3>2
  <2>10. \A k \in 1 .. N : k \in 1 .. sent
    BY <2>2, <2>4
  <2>11. \A i \in 1 .. n : N + i \in 1 .. sent
    BY <2>4
  <2>12. A \subseteq 1 .. sent /\ forgotten \subseteq 1 .. sent
    BY <2>5, <2>6, <2>8, <2>10 DEF GivenUpTo
  <2>13. B \subseteq 1 .. sent
    BY <2>1, <2>2, <2>3, <2>8, <2>11
  <2>14. 1 .. sent = A \cup B \cup forgotten
    BY <2>9, <2>12, <2>13
  <2> QED BY <2>7, <2>8, <2>14 DEF Logs!HandedOnce
<1> QED BY <1>1 DEF GivenInv, Logs!HandedOnce

\* Messages that follow the ones before are handed on.
LEMMA HandsOn ==
    ASSUME NEW h, NEW f, NEW n \in Nat, GivenUpTo(h, f, n), NEW records \in Seq(Records), NEW m \in Nat,
           m = Len(records), \A i \in 1 .. m : records[i].id = n + i
    PROVE  GivenUpTo(h \o [i \in DOMAIN records |-> records[i].id], f, n + m)
<1>1. DOMAIN records = 1 .. m
  BY LenProperties
<1>2. PICK d : d = [i \in 1 .. m |-> n + i]
  OBVIOUS
<1>3. d \in [1 .. m -> Nat]
  BY <1>2
<1>4. d \in Seq(Nat) /\ Len(d) = m /\ \A i \in 1 .. m : d[i] = n + i
  BY <1>2, <1>3, IsASeq
<1>5. [i \in DOMAIN records |-> records[i].id] = d
  BY <1>1, <1>2
<1>6. PICK l \in Nat : l = Len(h)
  BY LenProperties DEF GivenUpTo
<1>7. PICK g : g = h \o d
  OBVIOUS
<1>8. h \in Seq(Nat)
  BY DEF GivenUpTo
<1>9. g \in Seq(Nat) /\ Len(g) = l + m
  <2>1. d \in Seq(Nat)
    BY <1>4
  <2>2. h \o d \in Seq(Nat) /\ Len(h \o d) = Len(h) + Len(d)
    BY <1>8, <2>1, ConcatProperties
  <2>3. Len(h) = l /\ Len(d) = m
    BY <1>4, <1>6
  <2> QED BY <1>7, <2>2, <2>3
<1>10. \A i \in 1 .. l + m : g[i] = IF i <= l THEN h[i] ELSE d[i - l]
  <2>1. \A i \in 1 .. Len(h) + Len(d) : (h \o d)[i] = IF i <= Len(h) THEN h[i] ELSE d[i - Len(h)]
    BY <1>4, <1>8, ConcatProperties
  <2>2. Len(h) = l /\ Len(d) = m
    BY <1>4, <1>6
  <2> QED BY <1>7, <2>1, <2>2
<1>11. \A i \in 1 .. l : g[i] = h[i] /\ h[i] \in 1 .. n /\ g[i] \in 1 .. n
  <2>1. \A i \in 1 .. l : i \in 1 .. l + m /\ i <= l
    OBVIOUS
  <2> QED BY <1>6, <1>10, <2>1 DEF GivenUpTo
<1>12. ASSUME NEW i \in l + 1 .. l + m PROVE i - l \in 1 .. m /\ g[i] = n + (i - l)
  <2>1. i \in 1 .. l + m /\ ~(i <= l) /\ i - l \in 1 .. m
    OBVIOUS
  <2> QED BY <1>4, <1>10, <2>1
<1>13. \A i \in 1 .. l + m : i \in 1 .. l \/ i \in l + 1 .. l + m
  OBVIOUS
<1>14. ASSUME NEW i \in 1 .. l + m, NEW j \in 1 .. l + m, i < j PROVE g[i] < g[j]
  <2>1. CASE j \in 1 .. l
    <3>1. i \in 1 .. l
      BY <1>14, <2>1
    <3>2. h[i] < h[j]
      BY <1>6, <1>14, <2>1, <3>1 DEF GivenUpTo
    <3> QED BY <1>11, <2>1, <3>1, <3>2
  <2>2. CASE i \in 1 .. l /\ j \in l + 1 .. l + m
    BY <1>11, <1>12, <2>2
  <2>3. CASE i \in l + 1 .. l + m /\ j \in l + 1 .. l + m
    BY <1>12, <1>14, <2>3
  <2>4. ~(i \in l + 1 .. l + m /\ j \in 1 .. l)
    BY <1>14
  <2> QED BY <1>13, <2>1, <2>2, <2>3, <2>4
<1>15. ASSUME NEW i \in 1 .. l + m PROVE g[i] \in 1 .. n + m
  <2>1. CASE i \in 1 .. l
    BY <1>11, <2>1
  <2>2. CASE i \in l + 1 .. l + m
    BY <1>12, <2>2
  <2> QED BY <1>13, <2>1, <2>2
<1>16. ASSUME NEW k \in 1 .. n + m PROVE k \in f \/ \E i \in 1 .. l + m : g[i] = k
  <2>1. CASE k <= n
    <3>1. k \in 1 .. n
      BY <2>1
    <3>2. k \in f \/ \E i \in 1 .. l : h[i] = k
      BY <1>6, <3>1 DEF GivenUpTo
    <3>3. \A i \in 1 .. l : i \in 1 .. l + m
      OBVIOUS
    <3> QED BY <1>11, <3>2, <3>3
  <2>2. CASE ~(k <= n)
    <3>1. PICK i : i = k - n + l
      OBVIOUS
    <3>2. i \in l + 1 .. l + m /\ i \in 1 .. l + m /\ n + (i - l) = k
      BY <2>2, <3>1
    <3> QED BY <1>12, <3>2
  <2> QED BY <2>1, <2>2
<1>17. f \subseteq 1 .. n + m
  <2>1. \A k \in 1 .. n : k \in 1 .. n + m
    OBVIOUS
  <2> QED BY <2>1 DEF GivenUpTo
<1>18. GivenUpTo(g, f, n + m)
  BY <1>9, <1>14, <1>15, <1>16, <1>17 DEF GivenUpTo
<1> QED BY <1>5, <1>7, <1>18

\* Messages are given up in the order they came.
LEMMA GivesUp ==
    ASSUME NEW h, NEW f, NEW n \in Nat, GivenUpTo(h, f, n), NEW m \in Nat, NEW g,
           g = f \cup n + 1 .. n + m
    PROVE  GivenUpTo(h, g, n + m)
<1>1. \A k \in 1 .. n + m : k \in 1 .. n \/ k \in n + 1 .. n + m
  OBVIOUS
<1>2. \A k \in 1 .. n : k \in 1 .. n + m
  OBVIOUS
<1>3. \A k \in n + 1 .. n + m : k \in 1 .. n + m
  OBVIOUS
<1> QED BY <1>1, <1>2, <1>3 DEF GivenUpTo

\* A text in the last place of several is the context.
HasContext(w) == Contexts[w] # ""
Arguments == {"text", "error", "data", "undefined", "context"}

LEMMA SplitIs ==
    ASSUME NEW a \in Seq(Arguments), Len(a) > 1, a[Len(a)] = "context"
    PROVE  Logs!Split(a).context = "context"
<1>1. Logs!IsText(a[Len(a)])
  BY DEF Logs!IsText
<1>2. Logs!Split(a) = [lines |-> Logs!Front(a), context |-> a[Len(a)]]
  BY <1>1 DEF Logs!Split
<1> QED BY <1>2

LEMMA PassedIs ==
    ASSUME Logs!LoggingAssumption, NEW e \in Entries, NEW w, HasContext(w)
    PROVE  /\ Logs!Passed(w, e) \in Seq(Arguments) /\ Len(Logs!Passed(w, e)) > 1
           /\ Logs!Passed(w, e)[Len(Logs!Passed(w, e))] = "context"
<1>0. "undefined" \in Arguments /\ "context" \in Arguments
  BY DEF Arguments
<1>1. e.args \in Seq(Arguments) /\ e.args # <<>>
  <2>1. e.args \in Seq({"text", "error", "data"}) /\ e.args # <<>>
    BY DEF Logs!LoggingAssumption
  <2>2. {"text", "error", "data"} \subseteq Arguments
    BY DEF Arguments
  <2> QED BY <2>1, <2>2, SeqMonotonic
<1>2. PICK a : a = IF e.level = "error" /\ Len(e.args) = 1 THEN Append(e.args, "undefined")
                   ELSE e.args
  OBVIOUS
<1>3. a \in Seq(Arguments) /\ Len(a) \in Nat /\ Len(a) # 0
  <2>1. Len(e.args) \in Nat /\ Len(e.args) # 0
    BY <1>1, EmptySeq, LenProperties
  <2>2. PICK b : b = Append(e.args, "undefined")
    OBVIOUS
  <2>3. b \in Seq(Arguments) /\ Len(b) = Len(e.args) + 1
    BY <1>0, <1>1, <2>2, AppendProperties
  <2>4. Len(b) \in Nat /\ Len(b) # 0
    BY <2>1, <2>3
  <2>5. a = b \/ a = e.args
    BY <1>2, <2>2
  <2> QED BY <1>1, <2>1, <2>3, <2>4, <2>5
<1>4. PICK n \in Nat : n = Len(a) /\ n # 0
  BY <1>3
<1>5. PICK c : c = <<"context">>
  OBVIOUS
<1>6. c \in Seq(Arguments) /\ Len(c) = 1 /\ c[1] = "context"
  BY <1>0, <1>5
<1>7. PICK p : p = a \o c
  OBVIOUS
<1>8. p \in Seq(Arguments) /\ Len(p) = n + 1
  <2>1. a \o c \in Seq(Arguments) /\ Len(a \o c) = Len(a) + Len(c)
    BY <1>3, <1>6, ConcatProperties
  <2> QED BY <1>4, <1>6, <1>7, <2>1
<1>9. p[n + 1] = "context"
  <2>1. \A i \in 1 .. Len(a) + Len(c) : (a \o c)[i] = IF i <= Len(a) THEN a[i] ELSE c[i - Len(a)]
    BY <1>3, <1>6, ConcatProperties
  <2>2. \A i \in 1 .. n + 1 : p[i] = IF i <= n THEN a[i] ELSE c[i - n]
    BY <1>4, <1>6, <1>7, <2>1
  <2>3. n + 1 \in 1 .. n + 1 /\ ~(n + 1 <= n) /\ n + 1 - n = 1
    OBVIOUS
  <2>4. p[n + 1] = c[1]
    BY <2>2, <2>3
  <2> QED BY <1>6, <2>4
<1>10. n + 1 > 1
  BY <1>4
<1>11. Logs!Passed(w, e) = p
  BY <1>2, <1>5, <1>7 DEF Logs!Passed, HasContext
<1> QED BY <1>8, <1>9, <1>10, <1>11

LEMMA PrintedIs ==
    ASSUME Logs!LoggingAssumption, NEW e \in Entries, NEW w, HasContext(w)
    PROVE  Logs!Printed(w, e).context = "context"
<1>1. PICK p : p = Logs!Passed(w, e)
  OBVIOUS
<1>2. PICK s : s = Logs!Split(p)
  OBVIOUS
<1>3. s.context = "context"
  BY <1>1, <1>2, PassedIs, SplitIs
<1>4. Logs!SplitStack(p).context = s.context
  BY <1>2 DEF Logs!SplitStack
<1>5. CASE e.level \in {"error", "fatal"}
  BY <1>1, <1>3, <1>4, <1>5 DEF Logs!Printed
<1>6. CASE ~(e.level \in {"error", "fatal"})
  BY <1>1, <1>2, <1>3, <1>6 DEF Logs!Printed
<1> QED BY <1>5, <1>6

\* Whatever is handed on is printed under the levels its console was made with.
LEMMA ShownIs ==
    ASSUME Logs!LoggingAssumption, entry \in Entries, entry' = entry,
           NEW records \in Seq(Records), Logs!HandOn(records)
    PROVE  Logs!Threshold'
<1>1. PICK W : W = {records[i].by : i \in DOMAIN records}
  OBVIOUS
<1>2. shown' = {[by |-> w, new |-> Logs!OwnConsole(w) /\ ~consoles[w].made, levels |-> logLevels,
                 print |-> Logs!Printed(w, entry)] : w \in {v \in W : Logs!Prints(v)}}
  BY <1>1 DEF Logs!HandOn
<1>3. ASSUME NEW w \in W PROVE w \in Writers
  <2>1. DOMAIN records = 1 .. Len(records)
    BY LenProperties
  <2>2. PICK i \in 1 .. Len(records) : w = records[i].by
    BY <1>1, <2>1
  <2>3. records[i] \in Records
    BY ElementOfSeq
  <2> QED BY <2>2, <2>3 DEF Records
<1>4. ASSUME NEW s \in shown'
      PROVE  /\ s.new => Logs!Enabled(entry.level, s.levels)
             /\ HasContext(s.by) => s.print.context = "context"
  <2>1. PICK w \in W : /\ Logs!Prints(w)
                       /\ s = [by |-> w, new |-> Logs!OwnConsole(w) /\ ~consoles[w].made,
                               levels |-> logLevels, print |-> Logs!Printed(w, entry)]
    BY <1>2
  <2>2. ASSUME s.new PROVE Logs!Enabled(entry.level, s.levels)
    <3>1. Logs!OwnConsole(w) /\ ~consoles[w].made /\ s.levels = logLevels /\ w \in Writers
      BY <1>3, <2>1, <2>2
    <3>2. Logs!Consoles({w})[w] = [made |-> TRUE, levels |-> logLevels]
      BY <3>1 DEF Logs!Consoles
    <3>3. Logs!LevelsOf(w) = logLevels
      BY <3>1, <3>2 DEF Logs!LevelsOf
    <3> QED BY <2>1, <3>1, <3>3 DEF Logs!Prints
  <2>3. ASSUME HasContext(s.by) PROVE s.print.context = "context"
    <3>1. s.by = w /\ s.print = Logs!Printed(w, entry)
      BY <2>1
    <3> QED BY <2>3, <3>1, PrintedIs
  <2> QED BY <2>2, <2>3
<1>5. \A s \in shown' : /\ s.new => Logs!Enabled(entry'.level, s.levels)
                        /\ HasContext(s.by) => s.print.context = "context"
  BY <1>4
<1> QED BY <1>5 DEF Logs!Threshold, Logs!Enabled, HasContext

LEMMA GivenLog ==
    ASSUME Logs!LoggingAssumption, LogsInv, GivenInv, NEW w \in Writers, Logs!Log(w)
    PROVE  GivenInv'
<1>1. PICK r : r = [id |-> sent + 1, by |-> w]
  OBVIOUS
<1>2. sent' = sent + 1 /\ UNCHANGED <<entry, attached, logLevels, broken>>
  BY DEF Logs!Log
<1>3. PICK n \in Nat : n = Len(logBuffer)
  BY LenProperties DEF LogsInv
<1>4. sent \in Nat /\ logBuffer \in Seq(Records) /\ r \in Records /\ r.id = sent + 1
      /\ entry \in Entries /\ Logs!Threshold
  BY <1>1 DEF LogsInv, Records, GivenInv
<1>5. ASSUME ~broken
      PROVE  /\ n <= sent /\ sent - n \in Nat /\ GivenUpTo(handed, forgotten, sent - n)
             /\ \A i \in 1 .. n : logBuffer[i].id = sent - n + i
             /\ ~attached => logBuffer = <<>> /\ n = 0
  <2>1. n <= sent /\ \A i \in 1 .. n : logBuffer[i].id = sent - n + i
    BY <1>3, <1>5 DEF LogsInv
  <2>2. ~attached => logBuffer = <<>> /\ n = 0
    BY <1>3, <1>5, EmptySeq DEF LogsInv
  <2>3. sent - n \in Nat
    BY <1>3, <1>4, <2>1
  <2>4. GivenUpTo(handed, forgotten, sent - n)
    BY <1>3, <1>5 DEF GivenInv
  <2> QED BY <2>1, <2>2, <2>3, <2>4
<1>6. CASE /\ attached /\ logBuffer' = Logs!Buffered(r)
           /\ forgotten' = IF Logs!Full THEN forgotten \cup {logBuffer[1].id} ELSE forgotten
           /\ UNCHANGED <<consoles, handed, shown>>
  <2>1. Logs!Threshold'
    BY <1>2, <1>4, <1>6 DEF Logs!Threshold, Logs!Enabled
  <2>2. ASSUME ~broken' PROVE GivenUpTo(handed', forgotten', sent' - Len(logBuffer'))
    <3>1. ~broken
      BY <1>2, <2>2
    <3>2. CASE n >= MaxBuffer
      <4>1. n # 0 /\ logBuffer # <<>>
        BY <1>3, <3>2, EmptySeq DEF Logs!LoggingAssumption
      <4>2. Tail(logBuffer) \in Seq(Records) /\ Len(Tail(logBuffer)) = n - 1
        BY <1>3, <1>4, <4>1, HeadTailProperties
      <4>3. logBuffer' = Append(Tail(logBuffer), r)
        BY <1>3, <1>6, <3>2 DEF Logs!Buffered, Logs!Full
      <4>4. Len(logBuffer') = n - 1 + 1
        BY <1>4, <4>2, <4>3, AppendProperties
      <4>5. sent' - Len(logBuffer') = (sent - n) + 1
        BY <1>2, <1>3, <1>4, <4>4
      <4>6. forgotten' = forgotten \cup {logBuffer[1].id}
        BY <1>3, <1>6, <3>2 DEF Logs!Full
      <4>7. PICK N \in Nat : N = sent - n
        BY <1>5, <3>1
      <4>8. 1 \in 1 .. n
        BY <1>3, <4>1
      <4>9. logBuffer[1].id = N + 1
        BY <1>5, <3>1, <4>7, <4>8
      <4>10. {N + 1} = N + 1 .. N + 1
        BY <4>7
      <4>11. forgotten' = forgotten \cup N + 1 .. N + 1
        BY <4>6, <4>9, <4>10
      <4>12. GivenUpTo(handed, forgotten, N)
        BY <1>5, <3>1, <4>7
      <4>13. GivenUpTo(handed, forgotten', N + 1)
        BY <4>7, <4>11, <4>12, GivesUp
      <4> QED BY <1>6, <4>5, <4>7, <4>13
    <3>3. CASE ~(n >= MaxBuffer)
      <4>1. logBuffer' = Append(logBuffer, r) /\ forgotten' = forgotten
        BY <1>3, <1>6, <3>3 DEF Logs!Buffered, Logs!Full
      <4>2. Len(logBuffer') = n + 1
        BY <1>3, <1>4, <4>1, AppendProperties
      <4>3. sent' - Len(logBuffer') = sent - n
        BY <1>2, <1>3, <1>4, <4>2
      <4> QED BY <1>5, <1>6, <3>1, <4>1, <4>3
    <3> QED BY <3>2, <3>3
  <2> QED BY <1>2, <1>4, <2>1, <2>2 DEF GivenInv
<1>7. CASE ~attached /\ Logs!HandOn(<<r>>) /\ UNCHANGED <<logBuffer, forgotten>>
  <2>1. PICK s : s = <<r>>
    OBVIOUS
  <2>2. s \in Seq(Records) /\ Len(s) = 1 /\ s[1] = r
    BY <1>4, <2>1
  <2>3. Logs!Threshold'
    BY <1>2, <1>4, <1>7, <2>1, <2>2, ShownIs
  <2>4. ASSUME ~broken' PROVE GivenUpTo(handed', forgotten', sent' - Len(logBuffer'))
    <3>1. ~broken /\ n = 0 /\ GivenUpTo(handed, forgotten, sent - n)
      BY <1>2, <1>5, <1>7, <2>4
    <3>2. sent - n = sent /\ sent' - Len(logBuffer') = sent + 1
      BY <1>2, <1>3, <1>4, <1>7, <3>1
    <3>3. \A i \in 1 .. 1 : s[i].id = sent + i
      BY <1>4, <2>2
    <3>4. GivenUpTo(handed, forgotten, sent)
      BY <3>1, <3>2
    <3>5. GivenUpTo(handed \o [i \in DOMAIN s |-> s[i].id], forgotten, sent + 1)
      BY <1>4, <2>2, <3>3, <3>4, HandsOn
    <3>6. handed' = handed \o [i \in DOMAIN s |-> s[i].id] /\ forgotten' = forgotten
      BY <1>7, <2>1 DEF Logs!HandOn
    <3> QED BY <3>2, <3>5, <3>6
  <2> QED BY <1>2, <1>4, <2>3, <2>4 DEF GivenInv
<1> QED BY <1>1, <1>2, <1>6, <1>7 DEF Logs!Log

\* The buffer is emptied: its messages are the last ones logged.
LEMMA GivenDetach ==
    ASSUME LogsInv, GivenInv, Logs!DetachBuffer
    PROVE  GivenInv'
<1>1. /\ logBuffer' = <<>>
      /\ forgotten' = forgotten \cup {logBuffer[i].id : i \in DOMAIN logBuffer}
      /\ UNCHANGED <<entry, handed, sent, shown, broken>>
  BY DEF Logs!DetachBuffer
<1>2. Logs!Threshold' /\ entry' \in Entries
  BY <1>1 DEF GivenInv, Logs!Threshold, Logs!Enabled
<1>3. ASSUME ~broken' PROVE GivenUpTo(handed', forgotten', sent' - Len(logBuffer'))
  <2>1. PICK n \in Nat : n = Len(logBuffer) /\ DOMAIN logBuffer = 1 .. n
    BY LenProperties DEF LogsInv
  <2>2. sent \in Nat /\ n <= sent /\ \A i \in 1 .. n : logBuffer[i].id = sent - n + i
    BY <1>1, <1>3, <2>1 DEF LogsInv
  <2>3. PICK N \in Nat : N = sent - n
    BY <2>2
  <2>4. GivenUpTo(handed, forgotten, N)
    BY <1>1, <1>3, <2>1, <2>3 DEF GivenInv
  <2>5. PICK B : B = {logBuffer[i].id : i \in DOMAIN logBuffer}
    OBVIOUS
  <2>6. B = N + 1 .. N + n
    <3>1. \A i \in 1 .. n : logBuffer[i].id = N + i /\ N + i \in N + 1 .. N + n
      BY <2>2, <2>3
    <3>2. B \subseteq N + 1 .. N + n
      BY <2>1, <2>5, <3>1
    <3>3. ASSUME NEW k \in N + 1 .. N + n PROVE k \in B
      <4>1. k - N \in 1 .. n /\ N + (k - N) = k
        BY <2>3, <3>3
      <4>2. logBuffer[k - N].id = k
        BY <3>1, <4>1
      <4> QED BY <2>1, <2>5, <4>1, <4>2
    <3> QED BY <3>2, <3>3
  <2>7. forgotten' = forgotten \cup N + 1 .. N + n
    BY <1>1, <2>5, <2>6
  <2>8. GivenUpTo(handed, forgotten', N + n)
    BY <2>4, <2>7, GivesUp
  <2>9. sent' - Len(logBuffer') = N + n
    <3>1. Len(logBuffer') = 0
      BY <1>1, EmptySeq
    <3> QED BY <1>1, <2>2, <2>3, <3>1
  <2> QED BY <1>1, <2>8, <2>9
<1> QED BY <1>2, <1>3 DEF GivenInv

LEMMA GivenFlush ==
    ASSUME Logs!LoggingAssumption, LogsInv, GivenInv, Logs!Flush
    PROVE  GivenInv'
<1>1. /\ logBuffer' = <<>> /\ Logs!HandOn(logBuffer)
      /\ UNCHANGED <<entry, sent, forgotten, broken>>
  BY DEF Logs!Flush
<1>2. logBuffer \in Seq(Records) /\ entry \in Entries
  BY DEF LogsInv, GivenInv
<1>3. Logs!Threshold' /\ entry' \in Entries
  BY <1>1, <1>2, ShownIs
<1>4. ASSUME ~broken' PROVE GivenUpTo(handed', forgotten', sent' - Len(logBuffer'))
  <2>1. PICK n \in Nat : n = Len(logBuffer)
    BY <1>2, LenProperties
  <2>2. sent \in Nat /\ n <= sent /\ \A i \in 1 .. n : logBuffer[i].id = sent - n + i
    BY <1>1, <1>4, <2>1 DEF LogsInv
  <2>3. PICK N \in Nat : N = sent - n
    BY <2>2
  <2>4. GivenUpTo(handed, forgotten, N)
    BY <1>1, <1>4, <2>1, <2>3 DEF GivenInv
  <2>5. \A i \in 1 .. n : logBuffer[i].id = N + i
    BY <2>2, <2>3
  <2>6. GivenUpTo(handed \o [i \in DOMAIN logBuffer |-> logBuffer[i].id], forgotten, N + n)
    BY <1>2, <2>1, <2>4, <2>5, HandsOn
  <2>7. handed' = handed \o [i \in DOMAIN logBuffer |-> logBuffer[i].id]
    BY <1>1 DEF Logs!HandOn
  <2>8. sent' - Len(logBuffer') = N + n
    <3>1. Len(logBuffer') = 0
      BY <1>1, EmptySeq
    <3> QED BY <1>1, <2>2, <2>3, <3>1
  <2> QED BY <1>1, <2>6, <2>7, <2>8
<1> QED BY <1>3, <1>4 DEF GivenInv

LEMMA GivenThrows ==
    ASSUME Logs!LoggingAssumption, LogsInv, GivenInv, NEW k \in 1 .. MaxBuffer, Logs!FlushThrows(k)
    PROVE  GivenInv'
<1>1. /\ k \in DOMAIN logBuffer /\ broken' = TRUE /\ Logs!HandOn(SubSeq(logBuffer, 1, k))
      /\ UNCHANGED entry
  BY DEF Logs!FlushThrows
<1>2. logBuffer \in Seq(Records) /\ entry \in Entries
  BY DEF LogsInv, GivenInv
<1>3. SubSeq(logBuffer, 1, k) \in Seq(Records)
  <2>1. Len(logBuffer) \in Nat /\ k \in 1 .. Len(logBuffer)
    BY <1>1, <1>2, LenProperties
  <2>2. 1 \in 1 .. Len(logBuffer) + 1 /\ k \in 1 - 1 .. Len(logBuffer)
    BY <2>1
  <2> QED BY <1>2, <2>2, SubSeqProperties
<1>4. Logs!Threshold'
  BY <1>1, <1>2, <1>3, ShownIs
<1> QED BY <1>1, <1>2, <1>4 DEF GivenInv

\* What is logged and handed on is as it was.
LEMMA GivenRest ==
    ASSUME GivenInv, UNCHANGED <<entry, logBuffer, handed, forgotten, sent, shown, broken>>
    PROVE  GivenInv'
<1>1. Logs!Threshold'
  BY DEF GivenInv, Logs!Threshold, Logs!Enabled
<1> QED BY <1>1 DEF GivenInv

LEMMA GivenStep ==
    ASSUME Logs!LoggingAssumption, LogsInv, GivenInv, Logs!Next
    PROVE  GivenInv'
<1>1. CASE \E w \in Writers : Logs!Log(w)
  BY <1>1, GivenLog
<1>2. CASE Logs!AttachBuffer
  BY <1>2, GivenRest DEF Logs!AttachBuffer
<1>3. CASE Logs!DetachBuffer
  BY <1>3, GivenDetach
<1>4. CASE Logs!Flush
  BY <1>4, GivenFlush
<1>5. CASE \E k \in 1 .. MaxBuffer : Logs!FlushThrows(k)
  BY <1>5, GivenThrows
<1>6. CASE \E r \in Replacements : Logs!OverrideLogger(r)
  BY <1>6, GivenRest DEF Logs!OverrideLogger
<1> QED BY <1>1, <1>2, <1>3, <1>4, <1>5, <1>6 DEF Logs!Next

-----------------------------------------------------------------------------
\* However handlers come and go, overlapping emissions call what is in force, in order;
\* the core's until its array is replaced under one of them.  Every message is handed on
\* once and in order, is held, or was given up, and what an instance prints is its own
\* (event-emitter.service.ts 265-331, event-emitter.ts 64-103, logger.service.ts 44-56, 150-156).
THEOREM EmissionsReach == Spec => []EmitsInForce
<1>1. /\ Events!PatternsAssumption /\ Logs!LoggingAssumption
  BY RuntimeAssumption DEF RuntimeAssumption
<1>2. Init => EventsInv /\ GivenInv
  BY <1>1, EventsInit, GivenInit DEF Init
<1>3. RuntimeInv /\ EventsInv /\ GivenInv /\ [Next]_vars => (EventsInv /\ GivenInv)'
  <2> SUFFICES ASSUME RuntimeInv, EventsInv, GivenInv, [Next]_vars PROVE (EventsInv /\ GivenInv)'
    OBVIOUS
  <2>1. /\ Events!Next \/ UNCHANGED events
        /\ Logs!Next \/ UNCHANGED logs
    BY DEF Next, Answers, Delivers, Ticks, Caches, Enqueues, Admits, Writes, vars
  <2>2. EventsInv'
    BY <1>1, <2>1, EventsStep, EventsRest
  <2>3. UNCHANGED logs => GivenInv'
    BY GivenRest DEF logs
  <2>4. Logs!Next => GivenInv'
    BY <1>1, GivenStep DEF RuntimeInv
  <2> QED BY <2>1, <2>2, <2>3, <2>4
<1>4. RuntimeInv /\ EventsInv /\ GivenInv => EmitsInForce
  BY <1>1, EventsKeep, GivenKeep DEF RuntimeInv, EmitsInForce
<1> QED BY <1>2, <1>3, <1>4, RuntimeAlways, PTL DEF Spec

=============================================================================
