------------------------------ MODULE Scheduler ------------------------------
(***************************************************************************)
(* The scheduling core of relayScheduler: the tick that fires due tasks,   *)
(* the HTTP handlers that edit them, the runs the two start, and the task  *)
(* file they all share (scheduler.go, api.go, store.go).                   *)
(*                                                                         *)
(* Two mutexes guard the data: Scheduler.mu the schedule and the set of    *)
(* running tasks, TaskStore.mu the file.  No code holds one lock across    *)
(* the other's critical sections except the tick, so a handler or a run    *)
(* that touches both does it in two steps, and anything may happen between *)
(* them.  One step of this module is one such critical section.            *)
(*                                                                         *)
(* Time is abstract.  A scheduled entry is "early" (its next run lies      *)
(* ahead), "due", or "missed" (later than missedThreshold).                *)
(*                                                                         *)
(* A definition named Bug... is not part of the model: it is a plausible   *)
(* slip in the definition after it, there to show what would catch it.     *)
(***************************************************************************)
EXTENDS Naturals, FiniteSets

CONSTANTS
    Tasks,          \* task ids generateID may return
    Gens,           \* distinguishes the runs of one task that are live at once
    Clients,        \* concurrent HTTP clients, one request each
    Projects,       \* project ids
    Instants,       \* the wall-clock times a "once" schedule may name
    Definitions,    \* the task definitions that clients send
    Carried,        \* the lastStatus that clients send along; "none" if left empty
    Ops,            \* the requests that clients send
    Faults,         \* what may go wrong: "io", "stop", "crash"
    InitialStores   \* contents of tasks.json when the program first starts

Kinds    == {"recurring", "once", "on_demand"}
Phases   == {"early", "due", "missed"}
Outcomes == {"success", "error", "timeout"}
Statuses == {"none", "running"} \cup Outcomes

\* The fields of Task that decide when and whether it runs.  "at" only matters
\* to a once task.  "valid": CalculateNextRun finds no error in the schedule, which
\* only a file edited by hand can hold.
Definition == [enabled : BOOLEAN, kind : Kinds, valid : BOOLEAN, at : Instants,
               catchUp : BOOLEAN, project : Projects]

Stored == [def : Definition, status : Statuses]
Entry  == [def : Definition, phase : Phases]

\* A run's place in executeTask: the next thing it does to shared state.
Stages == {"mark", "body", "final", "reread", "disable", "drop", "rearm",
           "release"}
Run    == [stage : Stages, def : Definition, trigger : {"schedule", "run_now"},
           outcome : Outcomes]

\* The half of a request that is still to come.
Request == [op : {"schedule", "run"}, task : Tasks, def : Definition]
             \cup [op : {"delete"}, task : Tasks]
             \cup [op : {"deleteProject"}, project : Projects]

\* f is a value of the Go type map[S]T.
IsMap(f, S, T) == DOMAIN f \subseteq S /\ f \in [DOMAIN f -> T]

ASSUME OpsAssumption == Ops \subseteq {"post", "put", "delete", "run",
                                       "deleteProject"}
ASSUME FaultsAssumption == Faults \subseteq {"io", "stop", "crash"}
ASSUME DefinitionsAssumption == Definitions \subseteq Definition
ASSUME CarriedAssumption == Carried \subseteq Statuses
ASSUME InitialStoresAssumption == 
    \A s \in InitialStores : IsMap(s, Tasks, Stored)

VARIABLES
    store,      \* tasks.json: what a restart finds again
    born,       \* every id that ever named a task; an id is not used twice
    schedule,   \* Scheduler.tasks
    running,    \* Scheduler.running
    runs,       \* the executeTask goroutines, by <<task, generation>>
    requests,   \* the handlers that are between their two steps
    instant,    \* how each once time compares with the clock
    proc,       \* the process: "down", "up", "stopped" (Stop was called)
    onceFired,  \* observation: the once runs that the tick has fired
    unsure      \* observation: the tasks whose status in the file a client has sent,
                \* or could not be written, since the scheduler last wrote it

vars == <<store, born, schedule, running, runs, requests, instant, proc,
          onceFired, unsure>>

-----------------------------------------------------------------------------
(* Maps.                                                                   *)

Put(f, k, v) == [x \in DOMAIN f \cup {k} |-> IF x = k THEN v ELSE f[x]]
Without(f, ks) == [x \in DOMAIN f \ ks |-> f[x]]
NoMap == [x \in {} |-> x]

-----------------------------------------------------------------------------
(* The task store.  A write of run state that fails is logged and ignored. *)

\* Whether a file access may fail: the values that "it failed" may take.
MayFail == IF "io" \in Faults THEN BOOLEAN ELSE {FALSE}

\* Bug: an upsert, which brings a task deleted during its run back as a stub.
BugUpsertLastRun(s, t, status) ==
    IF t \in DOMAIN s THEN [s EXCEPT ![t].status = status]
    ELSE Put(s, t, [status |-> status])

\* updateTask does nothing to a task that is not in the file.
SetLastRun(s, t, status) ==
    IF t \in DOMAIN s THEN [s EXCEPT ![t].status = status] ELSE s

SetEnabled(s, ts) ==
    [t \in DOMAIN s |-> IF t \in ts THEN [s[t] EXCEPT !.def.enabled = FALSE]
                                    ELSE s[t]]

\* A run's write of its status.
Record(t, status) ==
    \E failed \in MayFail :
       /\ store' = IF failed THEN store ELSE SetLastRun(store, t, status)
       /\ unsure' = IF failed THEN unsure \cup ({t} \cap DOMAIN store)
                              ELSE unsure \ {t}

\* The tasks that the last process left "running".
Stale == {t \in DOMAIN store : store[t].status = "running"}

\* Bug: a run that died with the last process stays "running".
BugResetNothing(s, ts) == s

\* The correction of LoadAllTasks.
ResetStale(s, ts) ==
    [t \in DOMAIN s |-> IF t \in ts THEN [s[t] EXCEPT !.status = "error"] ELSE s[t]]

\* validateTask: a once time has to lie in the future.
ValidSchedule(def) == def.valid /\ (def.kind = "once" => instant[def.at] = "early")

-----------------------------------------------------------------------------
(* The schedule.                                                           *)

\* Whether the definition has a next run at all.
HasNextRun(def) == def.kind # "on_demand" /\ def.valid

\* scheduleTaskLocked: CalculateNextRun of a recurring schedule lies ahead; that
\* of a once schedule is its time, whether or not it has passed.
ScheduleTaskLocked(sch, t, def) ==
    IF HasNextRun(def) THEN Put(sch, t, [def |-> def, phase |-> "early"]) ELSE sch

Phase(t) == IF schedule[t].def.kind = "once"
            THEN instant[schedule[t].def.at]
            ELSE schedule[t].phase

\* Bug: the tick does not look whether the task is running already.
BugDueThoughRunning == {t \in DOMAIN schedule : Phase(t) # "early"}

Due == {t \in DOMAIN schedule : Phase(t) # "early" /\ t \notin running}

\* The two lists of checkAndFireTasks.
ToSkip == {t \in Due : ~schedule[t].def.catchUp /\ Phase(t) = "missed"}
ToFire == Due \ ToSkip

-----------------------------------------------------------------------------
(* Runs.                                                                   *)

Free(t) == {g \in Gens : <<t, g>> \notin DOMAIN runs}
NewRun(t) == <<t, CHOOSE g \in Gens : g \in Free(t)>>

Starting(def, trigger) ==
    [stage |-> "mark", def |-> def, trigger |-> trigger, outcome |-> "error"]

Live(t) == {r \in DOMAIN runs : r[1] = t}
Alive   == proc # "down"

-----------------------------------------------------------------------------
(* The clock.  It moves on while the process is down, too.                 *)

Later(phase) == IF phase = "early" THEN "due" ELSE "missed"

InstantPasses(i) ==
    /\ instant[i] # "missed"
    /\ instant' = [instant EXCEPT ![i] = Later(@)]
    /\ UNCHANGED <<store, born, schedule, running, runs, requests, proc,
                   onceFired, unsure>>

EntryAges(t) ==
    /\ t \in DOMAIN schedule
    /\ schedule[t].def.kind = "recurring"
    /\ schedule[t].phase # "missed"
    /\ schedule' = [schedule EXCEPT ![t].phase = Later(@)]
    /\ UNCHANGED <<store, born, running, runs, requests, instant, proc,
                   onceFired, unsure>>

-----------------------------------------------------------------------------
(* The tick.                                                               *)

\* checkAndFireTasks, all of it under Scheduler.mu.  A fired task leaves the
\* map, a skipped one is scheduled anew from the copy of it in the map, and a
\* skipped once task is disabled in the file instead.
CheckAndFireTasks ==
    LET finished == {t \in ToSkip : schedule[t].def.kind = "once"}
        started  == {NewRun(t) : t \in ToFire}
    IN
    /\ Alive
    /\ Due # {}
    /\ \A t \in ToFire : Free(t) # {}
    /\ \E failed \in MayFail :
          store' = IF failed THEN store ELSE SetEnabled(store, finished)
    /\ schedule' = [t \in DOMAIN schedule \ (ToFire \cup finished) |->
                       IF t \in ToSkip THEN [schedule[t] EXCEPT !.phase = "early"]
                                       ELSE schedule[t]]
    /\ running' = running \cup ToFire
    /\ runs' = [r \in DOMAIN runs \cup started |->
                  IF r \in started
                  THEN Starting(schedule[r[1]].def, "schedule")
                  ELSE runs[r]]
    /\ onceFired' = onceFired \cup
          {<<t, schedule[t].def.at>> :
             t \in {u \in ToFire : schedule[u].def.kind = "once"}}
    /\ UNCHANGED <<born, requests, instant, proc, unsure>>

-----------------------------------------------------------------------------
(* The HTTP handlers.  Each is two critical sections; the first records in *)
(* requests what the second still has to do.  Requests that fail before    *)
(* they change anything (400, 404, 409, a failing read) leave no trace.    *)

Begin(c, request) == requests' = Put(requests, c, request)
End(c)            == requests' = Without(requests, {c})
Idle(c)           == proc = "up" /\ c \notin DOMAIN requests
Pending(c, op)    == Alive /\ c \in DOMAIN requests /\ requests[c].op = op

\* POST /api/tasks: TaskStore.Create, which stores the run state that was sent,
\* then Scheduler.ScheduleTask.
Create(c, t, def, status) ==
    /\ "post" \in Ops
    /\ Idle(c)
    /\ t \notin born
    /\ ValidSchedule(def)
    /\ store' = Put(store, t, [def |-> def, status |-> status])
    /\ unsure' = unsure \cup (IF status = "none" THEN {} ELSE {t})
    /\ born' = born \cup {t}
    /\ Begin(c, [op |-> "schedule", task |-> t, def |-> def])
    /\ UNCHANGED <<schedule, running, runs, instant, proc, onceFired>>

\* Bug: the run state in the file goes even where the request leaves it empty.
BugUpdateForgetsStatus(c, t, def, status) ==
    /\ "put" \in Ops
    /\ Idle(c)
    /\ t \in DOMAIN store
    /\ ValidSchedule(def)
    /\ store' = [store EXCEPT ![t] = [def |-> def, status |-> status]]
    /\ unsure' = unsure \cup (IF status = "none" THEN {} ELSE {t})
    /\ Begin(c, [op |-> "schedule", task |-> t, def |-> def])
    /\ UNCHANGED <<born, schedule, running, runs, instant, proc, onceFired>>

\* PUT /api/tasks/{id}: TaskStore.Update keeps the run state where the request
\* leaves it empty, then Scheduler.ScheduleTask.
Update(c, t, def, status) ==
    /\ "put" \in Ops
    /\ Idle(c)
    /\ t \in DOMAIN store
    /\ ValidSchedule(def)
    /\ store' = [store EXCEPT ![t] =
                    [def |-> def, status |-> IF status = "none" THEN @.status ELSE status]]
    /\ unsure' = unsure \cup (IF status = "none" THEN {} ELSE {t})
    /\ Begin(c, [op |-> "schedule", task |-> t, def |-> def])
    /\ UNCHANGED <<born, schedule, running, runs, instant, proc, onceFired>>

\* ScheduleTask replaces or removes the entry.  It works after Stop, too.
ScheduleTask(c) ==
    /\ Pending(c, "schedule")
    /\ LET t   == requests[c].task
           def == requests[c].def
           cleared == Without(schedule, {t})
       IN schedule' = IF def.enabled THEN ScheduleTaskLocked(cleared, t, def)
                                     ELSE cleared
    /\ End(c)
    /\ UNCHANGED <<store, born, running, runs, instant, proc, onceFired, unsure>>

\* DELETE /api/tasks/{id}: Scheduler.UnscheduleTask, then TaskStore.Delete.
Unschedule(c, t) ==
    /\ "delete" \in Ops
    /\ Idle(c)
    /\ t \in DOMAIN store \cup DOMAIN schedule
    /\ schedule' = Without(schedule, {t})
    /\ Begin(c, [op |-> "delete", task |-> t])
    /\ UNCHANGED <<store, born, running, runs, instant, proc, onceFired, unsure>>

Delete(c) ==
    /\ Pending(c, "delete")
    /\ \E failed \in MayFail :
          store' = IF failed THEN store ELSE Without(store, {requests[c].task})
    /\ unsure' = unsure \cap DOMAIN store'
    /\ End(c)
    /\ UNCHANGED <<born, schedule, running, runs, instant, proc, onceFired>>

\* DELETE /api/tasks/by-project/{projectId}: UnscheduleByProject goes by the
\* copies in the map, TaskStore.DeleteByProject by the file.
UnscheduleByProject(c, p) ==
    /\ "deleteProject" \in Ops
    /\ Idle(c)
    /\ schedule' = Without(schedule,
                           {t \in DOMAIN schedule : schedule[t].def.project = p})
    /\ Begin(c, [op |-> "deleteProject", project |-> p])
    /\ UNCHANGED <<store, born, running, runs, instant, proc, onceFired, unsure>>

DeleteByProject(c) ==
    /\ Pending(c, "deleteProject")
    /\ LET gone == {t \in DOMAIN store : store[t].def.project = requests[c].project}
       IN \E failed \in MayFail :
            store' = IF failed THEN store ELSE Without(store, gone)
    /\ unsure' = unsure \cap DOMAIN store'
    /\ End(c)
    /\ UNCHANGED <<born, schedule, running, runs, instant, proc, onceFired>>

\* POST /api/tasks/{id}/run: RunTaskNow reads the task, then claims it unless it
\* is running already (409).
ReadForRun(c, t) ==
    /\ "run" \in Ops
    /\ Idle(c)
    /\ t \in DOMAIN store
    /\ Begin(c, [op |-> "run", task |-> t, def |-> store[t].def])
    /\ UNCHANGED <<store, born, schedule, running, runs, instant, proc, onceFired, unsure>>

Claim(c) ==
    /\ Pending(c, "run")
    /\ LET t == requests[c].task IN
       IF t \in running THEN UNCHANGED <<running, runs>>
       ELSE /\ Free(t) # {}
            /\ running' = running \cup {t}
            /\ runs' = Put(runs, NewRun(t), Starting(requests[c].def, "run_now"))
    /\ End(c)
    /\ UNCHANGED <<store, born, schedule, instant, proc, onceFired, unsure>>

-----------------------------------------------------------------------------
(* A run, from executeTask to rescheduleOrDisable.                         *)

At(r, stage)   == Alive /\ r \in DOMAIN runs /\ runs[r].stage = stage
Goto(r, stage) == runs' = [runs EXCEPT ![r].stage = stage]

\* SetLastRun(task.ID, "running").
MarkRunning(r) ==
    /\ At(r, "mark")
    /\ Record(r[1], "running")
    /\ Goto(r, "body")
    /\ UNCHANGED <<born, schedule, running, requests, instant, proc, onceFired>>

\* The chat or the terminal, or the failure to start one: TaskRun details it.
RunBody(r) ==
    /\ At(r, "body")
    /\ \E outcome \in Outcomes :
          runs' = [runs EXCEPT ![r].stage = "final", ![r].outcome = outcome]
    /\ UNCHANGED <<store, born, schedule, running, requests, instant, proc,
                   onceFired, unsure>>

\* SetLastRun(task.ID, exec.Status).
RecordOutcome(r) ==
    /\ At(r, "final")
    /\ Record(r[1], runs[r].outcome)
    /\ Goto(r, "reread")
    /\ UNCHANGED <<born, schedule, running, requests, instant, proc, onceFired>>

\* Bugs: what a run could wrongly do next.  It takes care of once tasks only; it
\* re-arms a task that is gone; it re-arms a once task; it leaves it enabled.
BugNoRearm(t) ==
    IF t \in DOMAIN store /\ store[t].def.enabled /\ store[t].def.kind = "once"
    THEN "disable" ELSE "release"
BugRearmsDeleted(t) ==
    IF t \notin DOMAIN store THEN "rearm"
    ELSE IF store[t].def.enabled /\ store[t].def.kind = "recurring" THEN "rearm"
    ELSE "release"
BugRearmsOnce(t) ==
    IF t \in DOMAIN store /\ store[t].def.enabled /\ store[t].def.kind # "on_demand"
    THEN "rearm" ELSE "release"
BugOnceStaysEnabled(t) ==
    IF t \in DOMAIN store /\ store[t].def.enabled /\ store[t].def.kind = "recurring"
    THEN "rearm" ELSE "release"

\* rescheduleOrDisable reads the task again and decides from that copy.
NextStage(t) ==
    IF t \notin DOMAIN store \/ ~store[t].def.enabled THEN "release"
    ELSE [once |-> "disable", on_demand |-> "release", recurring |-> "rearm"]
            [store[t].def.kind]

Reread(r) ==
    LET t == r[1] IN
    /\ At(r, "reread")
    /\ \E failed \in MayFail :
         IF failed THEN Goto(r, "release")
         ELSE runs' = [runs EXCEPT
                         ![r].stage = NextStage(t),
                         ![r].def = IF t \in DOMAIN store THEN store[t].def
                                                          ELSE @]
    /\ UNCHANGED <<store, born, schedule, running, requests, instant, proc,
                   onceFired, unsure>>

DisableOnce(r) ==
    /\ At(r, "disable")
    /\ \E failed \in MayFail :
          store' = IF failed THEN store ELSE SetEnabled(store, {r[1]})
    /\ Goto(r, "drop")
    /\ UNCHANGED <<born, schedule, running, requests, instant, proc, onceFired, unsure>>

DropOnce(r) ==
    /\ At(r, "drop")
    /\ schedule' = Without(schedule, {r[1]})
    /\ Goto(r, "release")
    /\ UNCHANGED <<store, born, running, requests, instant, proc, onceFired, unsure>>

\* Bug: the run takes its own claim for somebody else's.
BugRearmUnlessRunning(r) ==
    /\ At(r, "rearm")
    /\ schedule' = IF r[1] \in running THEN schedule
                   ELSE ScheduleTaskLocked(schedule, r[1], runs[r].def)
    /\ Goto(r, "release")
    /\ UNCHANGED <<store, born, running, requests, instant, proc, onceFired, unsure>>

Rearm(r) ==
    /\ At(r, "rearm")
    /\ schedule' = IF proc = "stopped" THEN schedule
                   ELSE ScheduleTaskLocked(schedule, r[1], runs[r].def)
    /\ Goto(r, "release")
    /\ UNCHANGED <<store, born, running, requests, instant, proc, onceFired, unsure>>

\* Bug: a run ends without giving its claim back.
BugKeepsClaim(r) ==
    /\ At(r, "release")
    /\ runs' = Without(runs, {r})
    /\ UNCHANGED <<store, born, schedule, running, requests, instant, proc, onceFired, unsure>>

\* The deferred delete of executeTask; the goroutine ends.
Release(r) ==
    /\ At(r, "release")
    /\ running' = running \ {r[1]}
    /\ runs' = Without(runs, {r})
    /\ UNCHANGED <<store, born, schedule, requests, instant, proc, onceFired, unsure>>

-----------------------------------------------------------------------------
(* The process.                                                            *)

\* LoadAllTasks at start-up: a task still marked running died with the last
\* process.  main goes on with an empty schedule when the file cannot be read.
LoadAllTasks ==
    LET loaded == {t \in DOMAIN store : store[t].def.enabled /\ HasNextRun(store[t].def)}
    IN
    /\ proc = "down"
    /\ proc' = "up"
    /\ \/ /\ "io" \in Faults
          /\ unsure' = Stale
          /\ UNCHANGED <<store, schedule>>
       \/ /\ schedule' = [t \in loaded |-> [def |-> store[t].def, phase |-> "early"]]
          /\ \E written \in IF "io" \in Faults THEN SUBSET Stale ELSE {Stale} :
               /\ store' = ResetStale(store, written)
               /\ unsure' = Stale \ written
    /\ UNCHANGED <<born, running, runs, requests, instant, onceFired>>

\* SIGTERM: main stops the server, then calls Stop and returns.  A handler that
\* outlives the five seconds of server.Shutdown may still be running.
Stop ==
    /\ "stop" \in Faults
    /\ proc = "up"
    /\ proc' = "stopped"
    /\ schedule' = NoMap
    /\ running' = {}
    /\ UNCHANGED <<store, born, runs, requests, instant, onceFired, unsure>>

\* The process dies, or main returns after Stop: only the file is left.
Exit ==
    /\ \/ "crash" \in Faults /\ proc = "up"
       \/ proc = "stopped"
    /\ proc' = "down"
    /\ schedule' = NoMap
    /\ running' = {}
    /\ runs' = NoMap
    /\ requests' = NoMap
    /\ UNCHANGED <<store, born, instant, onceFired, unsure>>

-----------------------------------------------------------------------------
Init ==
    /\ store \in InitialStores
    /\ born = DOMAIN store
    /\ schedule = NoMap
    /\ running = {}
    /\ runs = NoMap
    /\ requests = NoMap
    /\ instant = [i \in Instants |-> "early"]
    /\ proc = "down"
    /\ onceFired = {}
    /\ unsure = {}

Clock == \/ \E i \in Instants : InstantPasses(i)
         \/ \E t \in Tasks : EntryAges(t)

FirstHalf(c) ==
    \/ \E t \in Tasks, def \in Definitions, status \in Carried :
         Create(c, t, def, status) \/ Update(c, t, def, status)
    \/ \E t \in Tasks : Unschedule(c, t) \/ ReadForRun(c, t)
    \/ \E p \in Projects : UnscheduleByProject(c, p)

SecondHalf(c) == ScheduleTask(c) \/ Delete(c) \/ DeleteByProject(c) \/ Claim(c)

RunStep(r) ==
    \/ MarkRunning(r) \/ RunBody(r) \/ RecordOutcome(r) \/ Reread(r)
    \/ DisableOnce(r) \/ DropOnce(r) \/ Rearm(r) \/ Release(r)

Next ==
    \/ Clock
    \/ CheckAndFireTasks
    \/ \E c \in Clients : FirstHalf(c) \/ SecondHalf(c)
    \/ \E r \in Tasks \X Gens : RunStep(r)
    \/ LoadAllTasks
    \/ Stop
    \/ Exit

Spec == Init /\ [][Next]_vars

\* The clock advances, the ticker ticks, and a goroutine that can go on does: a
\* handler waits for nothing but locks and the file, and a run for relay, whose
\* answers have a deadline each.  The one wait that has none is the write of a
\* chat's join and prompt (client.go:214-224), which a relay that accepts a
\* connection and never reads from it could block; RunBody assumes that relay
\* reads.  Nothing obliges a client to send a request, a fault to happen, or anyone
\* to restart the process.
Fairness ==
    /\ WF_vars(CheckAndFireTasks)
    /\ \A i \in Instants : WF_vars(InstantPasses(i))
    /\ \A t \in Tasks : WF_vars(EntryAges(t))
    /\ \A c \in Clients : WF_vars(SecondHalf(c))
    /\ \A r \in Tasks \X Gens : WF_vars(RunStep(r))

FairSpec == Spec /\ Fairness

-----------------------------------------------------------------------------
(* Properties.                                                             *)

TypeOK ==
    /\ IsMap(store, Tasks, Stored)
    /\ born \in SUBSET Tasks
    /\ DOMAIN store \subseteq born
    /\ IsMap(schedule, Tasks, Entry)
    /\ running \in SUBSET Tasks
    /\ IsMap(runs, Tasks \X Gens, Run)
    /\ IsMap(requests, Clients, Request)
    /\ instant \in [Instants -> Phases]
    /\ proc \in {"down", "up", "stopped"}
    /\ onceFired \in SUBSET (Tasks \X Instants)
    /\ unsure \in SUBSET DOMAIN store

\* README "No overlap. A task never runs twice at once", and the reason
\* LogStore needs no lock: the tick and any number of run requests never have
\* two runs of one task live together, and a task is claimed for exactly as
\* long as its run lives.
NoOverlap ==
    proc = "up" =>
        /\ running = {r[1] : r \in DOMAIN runs}
        /\ \A r1, r2 \in DOMAIN runs : r1[1] = r2[1] => r1 = r2

\* The runs between their two SetLastRun calls.
InProgress == {r \in DOMAIN runs : runs[r].stage \in {"body", "final"}}

\* README `task_status` "tasks currently executing": the status that clients read
\* from the file says whether the task is being run, whatever is edited, fired,
\* deleted or crashed meanwhile, except from a status that a client has sent or a
\* write that failed until the scheduler's next write.
StatusTracksRun ==
    proc = "up" =>
        \A t \in DOMAIN store \ unsure :
            store[t].status = "running" <=> \E r \in InProgress : r[1] = t

\* The abstract view of a client that polls the task list.
StatusOf == [t \in DOMAIN store |-> store[t].status]
Status == INSTANCE RunStatus WITH status <- StatusOf, known <- born, up <- Alive

\* Every step of the scheduler is a step that RunStatus allows, or none that such
\* a client can see: begin, outcome, crash and recovery come in that order, and a
\* client's own status or a failed write breaks it up to the next write only.
ImplementsRunStatus == Status!Spec

\* A handler may still act on t.
Concerns(request, t) ==
    request.op = "deleteProject" \/ (request.op # "deleteProject" /\ request.task = t)

Settled(t) == /\ Live(t) = {}
              /\ \A c \in DOMAIN requests : ~Concerns(requests[c], t)

Wanted(t) == /\ t \in DOMAIN store
             /\ store[t].def.enabled
             /\ HasNextRun(store[t].def)

\* An enabled task is in the schedule whenever no handler and no run holds it:
\* the removal from the map at the tick, the re-arm at the run's end and the
\* edits never leave it "enabled but never scheduled" (checkAndFireTasks).
NothingLost ==
    proc = "up" => \A t \in Tasks : Wanted(t) /\ Settled(t) => t \in DOMAIN schedule

\* The runs that the tick starts in this step.
FiredNow == {r \in DOMAIN runs' \ DOMAIN runs : runs'[r].trigger = "schedule"}

\* README "once": a once time of a task fires at most one time, though the fired
\* task stays enabled in the file until its run has ended.
OnceFiresOnce ==
    [][\A r \in FiredNow :
         runs'[r].def.kind = "once" => <<r[1], runs'[r].def.at>> \notin onceFired]_vars

\* rescheduleOrDisable "The task may have been updated, deleted, or disabled via
\* API during execution": a task that is deleted or disabled, with no request
\* under way, does not fire on schedule any more.
DisabledNeverFires ==
    [][\A r \in FiredNow :
         \/ r[1] \in DOMAIN store /\ store[r[1]].def.enabled
         \/ \E c \in DOMAIN requests : Concerns(requests[c], r[1])]_vars

\* Every run gives its claim back, however it goes.
RunsEnd == \A t \in Tasks : (proc = "up" /\ t \in running) ~> (t \notin running)

\* t is an enabled recurring task that no handler is about to edit or delete.
LeftAlone(t) ==
    /\ proc = "up"
    /\ Wanted(t) /\ store[t].def.kind = "recurring" /\ store[t].def.catchUp
    /\ \A c \in DOMAIN requests :
          Concerns(requests[c], t) => requests[c].op = "run"

\* A recurring task that nobody edits or deletes any more keeps running, again and
\* again: the chain of tick, run, re-arm and tick never breaks.
KeepsFiring ==
    \A t \in Tasks : <>[]LeftAlone(t) => []<>(Live(t) # {})

\* A deleted task is eventually quiet: an entry that a late re-arm put back
\* fires once more and its run finds the task gone.
DeletedGoesQuiet ==
    \A t \in Tasks :
        (t \in born \ DOMAIN store)
            ~> [](proc = "up" => t \notin DOMAIN schedule /\ Live(t) = {})

\* README "once, then the task disables itself".
OnceSettles ==
    \A t \in Tasks :
        (proc = "up" /\ Wanted(t) /\ store[t].def.kind = "once") ~> ~Wanted(t)

=============================================================================
