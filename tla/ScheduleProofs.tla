--------------------------- MODULE ScheduleProofs ---------------------------
(***************************************************************************)
(* What becomes of the entries of the schedule, for any number of tasks    *)
(* and runs: no enabled task drops out of it (NothingLost of Scheduler),   *)
(* no time of a once task comes back to it (OnceFiresOnce), and a deleted  *)
(* task only what was under way puts back.                                 *)
(*                                                                         *)
(* Each theorem names what it needs of clients and of the world; README.md *)
(* says what goes wrong without it.                                        *)
(***************************************************************************)
EXTENDS SchedulerProofs

OneClient == \A c, d \in Clients : c = d

\* The handler c is between its write of t and its ScheduleTask.
Ordering(c, t) ==
    c \in DOMAIN requests /\ requests[c].op = "schedule" /\ requests[c].task = t

\* No two requests that are under way schedule one task: its PUTs come one after the
\* other, and none before its POST has been answered.
OrdersApart == \A c, d, t : Ordering(c, t) /\ Ordering(d, t) => c = d

\* Clients that edit tasks do not delete whole projects: an edit may move a task, and
\* UnscheduleByProject goes by the copies in the map.
ProjectsKept == "put" \in Ops => "deleteProject" \notin Ops

\* Definitions that are edited are not those of once tasks.
OnceUnedited ==
    "put" \in Ops =>
        /\ \A def \in Definitions : def.kind # "once"
        /\ \A s \in InitialStores : \A t \in DOMAIN s : s[t].def.kind # "once"

-----------------------------------------------------------------------------
(* Nothing is lost: the invariant.                                         *)

\* The run will look at its task again, or is about to put it back.
Returning(run) == \/ run.stage \in {"mark", "body", "final", "reread", "disable"}
                  \/ run.stage = "rearm" /\ HasNextRun(run.def)

HeldByRun(t) == \E r \in DOMAIN runs : r[1] = t /\ Returning(runs[r])

\* DeleteByProject is about to delete t.
Clearing(c, t) ==
    /\ c \in DOMAIN requests /\ requests[c].op = "deleteProject"
    /\ t \in DOMAIN store /\ store[t].def.project = requests[c].project

Editing(c, t) ==
    /\ c \in DOMAIN requests /\ requests[c].op \in {"schedule", "delete"}
    /\ requests[c].task = t

HeldByRequest(t) == \E c : Editing(c, t) \/ Clearing(c, t)

\* An enabled task is in the schedule, or somebody will put it there or delete it.
Covered == \A t \in Tasks : Wanted(t) =>
               t \in DOMAIN schedule \/ HeldByRun(t) \/ HeldByRequest(t)

\* A pending ScheduleTask has the definition that is in the file, as far as it matters.
RequestsCurrent ==
    \A c \in DOMAIN requests :
        /\ requests[c].op = "deleteProject" => "put" \notin Ops
        /\ requests[c].op = "schedule" /\ Wanted(requests[c].task) =>
              requests[c].def.enabled /\ HasNextRun(requests[c].def)

\* What the stages after Reread know of the task.
StagesRight ==
    \A r \in DOMAIN runs :
        /\ runs[r].stage \in {"disable", "drop"} => "put" \notin Ops
        /\ runs[r].stage = "drop" => ~Wanted(r[1])

NoOnceEdited == "put" \in Ops => \A t \in DOMAIN store : store[t].def.kind # "once"

CoverInv ==
    /\ proc = "up" => Covered /\ RequestsCurrent /\ StagesRight
    /\ proc = "down" => DOMAIN requests = {}
    /\ NoOnceEdited

LEMMA InitCoverInv == OnceUnedited /\ Init => CoverInv
BY DEF OnceUnedited, Init, CoverInv, NoOnceEdited, NoMap

-----------------------------------------------------------------------------
(* Copies.  Without PUT, what carries a definition of a task agrees with   *)
(* the file on the task's project.                                         *)

SameProject(def, t) == t \in DOMAIN store => def.project = store[t].def.project

CopiesCurrent ==
    /\ \A t \in DOMAIN schedule : SameProject(schedule[t].def, t)
    /\ \A c, t : Ordering(c, t) => SameProject(requests[c].def, t)
    /\ \A r \in DOMAIN runs : runs[r].stage = "rearm" => SameProject(runs[r].def, r[1])

CopiesInv == "put" \notin Ops => CopiesCurrent

LEMMA InitCopiesInv == Init => CopiesInv
BY DEF Init, CopiesInv, CopiesCurrent, NoMap, Ordering

\* A step that creates no task: each copy is an old one or taken from a current one.
LEMMA CopiesStay ==
    ASSUME CopiesCurrent,
           \A t \in DOMAIN store' :
               t \in DOMAIN store /\ store'[t].def.project = store[t].def.project,
           \A t \in DOMAIN schedule' :
               \/ t \in DOMAIN schedule /\ schedule'[t].def = schedule[t].def
               \/ SameProject(schedule'[t].def, t),
           \A c, t : Ordering(c, t)' => Ordering(c, t) /\ requests'[c] = requests[c],
           \A r \in DOMAIN runs' :
               runs'[r].stage = "rearm" =>
                   \/ r \in DOMAIN runs /\ runs'[r] = runs[r]
                   \/ SameProject(runs'[r].def, r[1])
    PROVE  CopiesCurrent'
BY DEF CopiesCurrent, SameProject

-----------------------------------------------------------------------------
(* Steps.                                                                  *)

\* A step that ends no request and moves no task to another project.
LEMMA HeldStays ==
    ASSUME \A c \in DOMAIN requests : c \in DOMAIN requests' /\ requests'[c] = requests[c],
           NEW t,
           t \in DOMAIN store' =>
               t \in DOMAIN store /\ store'[t].def.project = store[t].def.project,
           t \in DOMAIN store', HeldByRequest(t)
    PROVE  HeldByRequest(t)'
BY DEF HeldByRequest, Editing, Clearing

\* A step that edits no task and loses no entry, no returning run and no request.
LEMMA CoverStays ==
    ASSUME CoverInv, proc = "up",
           \A t \in DOMAIN store' : t \in DOMAIN store /\ store'[t].def = store[t].def,
           DOMAIN schedule \subseteq DOMAIN schedule',
           \A r \in DOMAIN runs :
               Returning(runs[r]) => r \in DOMAIN runs' /\ Returning(runs'[r]),
           UNCHANGED requests
    PROVE  Covered' /\ RequestsCurrent' /\ NoOnceEdited'
<1>1. \A t : Wanted(t)' => Wanted(t)
  BY DEF Wanted
<1>2. \A t : HeldByRun(t) => HeldByRun(t)'
  BY DEF HeldByRun
<1>3. \A t : Wanted(t)' /\ HeldByRequest(t) => HeldByRequest(t)'
  BY HeldStays DEF Wanted
<1>4. Covered'
  BY <1>1, <1>2, <1>3 DEF CoverInv, Covered
<1>5. RequestsCurrent'
  BY <1>1 DEF CoverInv, RequestsCurrent
<1>6. NoOnceEdited'
  BY DEF CoverInv, NoOnceEdited
<1>. QED
  BY <1>4, <1>5, <1>6

LEMMA StagesStay ==
    ASSUME StagesRight,
           \A t : Wanted(t)' => Wanted(t),
           \A r \in DOMAIN runs' :
               \/ r \in DOMAIN runs /\ runs'[r] = runs[r]
               \/ runs'[r].stage \notin {"disable", "drop"}
    PROVE  StagesRight'
BY DEF StagesRight

LEMMA KindsStay ==
    ASSUME NoOnceEdited,
           \A t \in DOMAIN store' :
               t \in DOMAIN store /\ store'[t].def.kind = store[t].def.kind
    PROVE  NoOnceEdited'
BY DEF NoOnceEdited

\* What SetLastRun and SetEnabled leave of the definitions.
LEMMA SetLastRunDefs ==
    ASSUME TypeOK, NEW t, NEW status
    PROVE  LET s == SetLastRun(store, t, status) IN
           DOMAIN s = DOMAIN store /\ \A u \in DOMAIN store : s[u].def = store[u].def
BY DEF TypeOK, IsMap, Stored, SetLastRun

LEMMA SetEnabledDefs ==
    ASSUME TypeOK, NEW ts
    PROVE  LET s == SetEnabled(store, ts) IN
           /\ DOMAIN s = DOMAIN store
           /\ \A u \in DOMAIN store :
                /\ s[u].def.kind = store[u].def.kind
                /\ s[u].def.project = store[u].def.project
                /\ u \in ts => ~s[u].def.enabled
                /\ u \notin ts => s[u] = store[u]
BY DEF TypeOK, IsMap, Stored, Definition, SetEnabled

\* The tick: what it takes from the map it fires or disables.
LEMMA TickCovers ==
    ASSUME "io" \notin Faults, TypeOK, CoverInv, CheckAndFireTasks
    PROVE  CoverInv'
<1>. DEFINE finished == {t \in ToSkip : schedule[t].def.kind = "once"}
            started  == {NewRun(t) : t \in ToFire}
<1>1. /\ store' = SetEnabled(store, finished)
      /\ DOMAIN schedule' = DOMAIN schedule \ (ToFire \cup finished)
      /\ runs' = [r \in DOMAIN runs \cup started |->
                     IF r \in started THEN Starting(schedule[r[1]].def, "schedule") ELSE runs[r]]
      /\ UNCHANGED <<requests, proc>> /\ Alive
  BY DEF CheckAndFireTasks, MayFail
<1>2. /\ NoOnceEdited'
      /\ \A t : Wanted(t)' /\ HeldByRequest(t) => HeldByRequest(t)'
  BY <1>1, SetEnabledDefs, KindsStay, HeldStays DEF CoverInv, Wanted
<1>3. \A t \in ToFire : /\ NewRun(t)[1] = t
                         /\ NewRun(t) \notin DOMAIN runs
                         /\ NewRun(t) \in DOMAIN runs'
                         /\ runs'[NewRun(t)].stage = "mark"
  <2>1. \A t \in ToFire : t \in Tasks /\ Free(t) # {}
    BY DEF CheckAndFireTasks, ToFire, Due, TypeOK, IsMap
  <2>2. \A t \in ToFire : NewRun(t)[1] = t /\ NewRun(t) \notin DOMAIN runs
    BY <2>1, NewRunType
  <2>. QED
    BY <1>1, <2>2 DEF Starting
<1>4. \A r \in DOMAIN runs : r \in DOMAIN runs' /\ runs'[r] = runs[r]
  <2>1. \A r \in DOMAIN runs : r \notin started
    BY <1>3
  <2>. HIDE DEF started
  <2>. QED
    BY <1>1, <2>1
<1>5. \A t : Wanted(t)' => Wanted(t) /\ t \notin finished
  BY <1>1, SetEnabledDefs DEF Wanted
<1>. HIDE DEF finished
<1>6. ASSUME proc = "up" PROVE Covered' /\ RequestsCurrent' /\ StagesRight'
  <2>1. ASSUME NEW t \in Tasks, Wanted(t)'
        PROVE  t \in DOMAIN schedule' \/ HeldByRun(t)' \/ HeldByRequest(t)'
    <3>1. CASE t \in ToFire
      BY <1>3, <3>1 DEF HeldByRun, Returning
    <3>2. CASE t \notin ToFire /\ t \in DOMAIN schedule
      BY <1>1, <1>5, <2>1, <3>2
    <3>3. CASE HeldByRun(t)
      BY <1>4, <3>3 DEF HeldByRun
    <3>4. CASE HeldByRequest(t)
      BY <1>2, <2>1, <3>4
    <3>. QED
      BY <1>5, <1>6, <2>1, <3>1, <3>2, <3>3, <3>4 DEF CoverInv, Covered
  <2>2. RequestsCurrent'
    BY <1>1, <1>5, <1>6 DEF CoverInv, RequestsCurrent
  <2>3. \A r \in DOMAIN runs' : r \in DOMAIN runs \/ runs'[r].stage = "mark"
    BY <1>1 DEF Starting
  <2>4. StagesRight'
    BY <1>4, <1>5, <1>6, <2>3, StagesStay DEF CoverInv
  <2>. QED
    BY <2>1, <2>2, <2>4 DEF Covered
<1>. QED
  BY <1>1, <1>2, <1>6 DEF CoverInv, Alive

\* Without PUT, the first half of a request orders nothing but what it creates.
LEMMA FirstHalfOrders ==
    ASSUME "put" \notin Ops, NEW c \in Clients, FirstHalf(c),
           ~ \E t \in Tasks, def \in Definitions, status \in Carried : Create(c, t, def, status)
    PROVE  /\ UNCHANGED <<store, runs>>
           /\ \A t \in DOMAIN schedule' : t \in DOMAIN schedule /\ schedule'[t] = schedule[t]
           /\ \A d, u : Ordering(d, u)' => (Ordering(d, u) /\ requests'[d] = requests[d])
<1>1. PICK request :
        /\ request.op # "schedule" /\ requests' = Put(requests, c, request)
        /\ UNCHANGED <<store, runs>>
        /\ UNCHANGED schedule \/ \E ts : schedule' = Without(schedule, ts)
  <2>1. ASSUME NEW t \in Tasks, Unschedule(c, t) \/ ReadForRun(c, t)
        PROVE  \E request :
                 /\ request.op # "schedule" /\ requests' = Put(requests, c, request)
                 /\ UNCHANGED <<store, runs>>
                 /\ UNCHANGED schedule \/ \E ts : schedule' = Without(schedule, ts)
    BY <2>1 DEF Unschedule, ReadForRun, Begin
  <2>2. ASSUME NEW p \in Projects, UnscheduleByProject(c, p)
        PROVE  \E request :
                 /\ request.op # "schedule" /\ requests' = Put(requests, c, request)
                 /\ UNCHANGED <<store, runs>>
                 /\ UNCHANGED schedule \/ \E ts : schedule' = Without(schedule, ts)
    BY <2>2 DEF UnscheduleByProject, Begin
  <2>. QED
    BY <2>1, <2>2 DEF FirstHalf, Update
<1>2. \A d, u : Ordering(d, u)' => (Ordering(d, u) /\ requests'[d] = requests[d])
  BY <1>1 DEF Put, Ordering
<1>. QED
  BY <1>1, <1>2 DEF Without

LEMMA NextCopiesInv ==
    ASSUME TypeOK, IdsKnown, CopiesInv, [Next]_vars
    PROVE  CopiesInv'
<1>. SUFFICES ASSUME "put" \notin Ops PROVE CopiesCurrent'
  BY DEF CopiesInv
<1>1. CopiesCurrent /\ \A t \in DOMAIN schedule : schedule[t] \in Entry
  BY DEF CopiesInv, TypeOK, IsMap
<1>2. CASE Clock \/ UNCHANGED vars
  <2>1. /\ UNCHANGED <<store, runs, requests>> /\ DOMAIN schedule' = DOMAIN schedule
        /\ \A t \in DOMAIN schedule : schedule'[t].def = schedule[t].def
    BY <1>1, <1>2 DEF Clock, InstantPasses, EntryAges, vars, Entry
  <2>. QED
    BY <1>1, <2>1, CopiesStay DEF Ordering
<1>3. CASE CheckAndFireTasks
  <2>1. /\ \/ UNCHANGED store
           \/ \E ts : store' = SetEnabled(store, ts)
        /\ DOMAIN schedule' \subseteq DOMAIN schedule /\ UNCHANGED requests
        /\ \A t \in DOMAIN schedule' : schedule'[t].def = schedule[t].def
        /\ \A r \in DOMAIN runs' : runs'[r].stage = "rearm" =>
              r \in DOMAIN runs /\ runs'[r] = runs[r]
    BY <1>1, <1>3 DEF CheckAndFireTasks, Entry, Starting
  <2>2. \A t \in DOMAIN store' :
          t \in DOMAIN store /\ store'[t].def.project = store[t].def.project
    BY <2>1, SetEnabledDefs
  <2>. QED
    BY <1>1, <2>1, <2>2, CopiesStay DEF Ordering
<1>4. ASSUME NEW c \in Clients, FirstHalf(c) PROVE CopiesCurrent'
  <2>1. ASSUME NEW t \in Tasks, NEW def \in Definitions, NEW status \in Carried,
               Create(c, t, def, status)
        PROVE  CopiesCurrent'
    <3>1. /\ DOMAIN store' = DOMAIN store \cup {t} /\ store'[t].def = def
          /\ \A u \in DOMAIN store : u # t => store'[u] = store[u]
          /\ \A d, u : Ordering(d, u)' =>
                \/ Ordering(d, u) /\ requests'[d] = requests[d]
                \/ u = t /\ requests'[d].def = def
          /\ UNCHANGED <<schedule, runs>>
      BY <2>1 DEF Create, Idle, Begin, Put, Ordering
    <3>2. /\ t \notin DOMAIN schedule
          /\ \A r \in DOMAIN runs : r[1] # t
          /\ \A d : ~Ordering(d, t)
      BY <2>1 DEF Create, IdsKnown, Ordering
    <3>. QED
      BY <1>1, <3>1, <3>2 DEF CopiesCurrent, SameProject
  <2>2. ASSUME ~ \E t \in Tasks, def \in Definitions, status \in Carried : Create(c, t, def, status)
        PROVE  CopiesCurrent'
    <3>1. /\ UNCHANGED <<store, runs>>
          /\ \A t \in DOMAIN schedule' : t \in DOMAIN schedule /\ schedule'[t] = schedule[t]
          /\ \A d, u : Ordering(d, u)' => Ordering(d, u) /\ requests'[d] = requests[d]
      BY <1>4, <2>2, FirstHalfOrders
    <3>. QED
      BY <1>1, <3>1, CopiesStay
  <2>. QED
    BY <2>1, <2>2
<1>5. ASSUME NEW c \in Clients, SecondHalf(c) PROVE CopiesCurrent'
  <2>1. /\ \A t \in DOMAIN store' : t \in DOMAIN store /\ store'[t] = store[t]
        /\ \A d, u : Ordering(d, u)' => Ordering(d, u) /\ requests'[d] = requests[d]
    BY <1>5
    DEF SecondHalf, ScheduleTask, Delete, DeleteByProject, Claim, Without, End, Ordering
  <2>2. \A t \in DOMAIN schedule' :
          \/ t \in DOMAIN schedule /\ schedule'[t] = schedule[t]
          \/ Ordering(c, t) /\ schedule'[t].def = requests[c].def
    <3>1. CASE ScheduleTask(c)
      BY <3>1 DEF ScheduleTask, Pending, Without, Put, ScheduleTaskLocked, Ordering
    <3>2. CASE ~ScheduleTask(c)
      BY <1>5, <3>2 DEF SecondHalf, Delete, DeleteByProject, Claim
    <3>. QED
      BY <3>1, <3>2
  <2>3. \A r \in DOMAIN runs' : runs'[r].stage = "rearm" =>
          r \in DOMAIN runs /\ runs'[r] = runs[r]
    BY <1>5 DEF SecondHalf, ScheduleTask, Delete, DeleteByProject, Claim, Put, Starting
  <2>. QED
    BY <1>1, <2>1, <2>2, <2>3, CopiesStay DEF CopiesCurrent
<1>6. ASSUME NEW r \in Tasks \X Gens, RunStep(r) PROVE CopiesCurrent'
  <2>1. \/ UNCHANGED store
        \/ \E status : store' = SetLastRun(store, r[1], status)
        \/ store' = SetEnabled(store, {r[1]})
    BY <1>6 DEF RunStep, MarkRunning, RunBody, RecordOutcome, Record, Reread, DisableOnce, DropOnce,
                Rearm, Release, MayFail
  <2>2. \A t \in DOMAIN store' :
          t \in DOMAIN store /\ store'[t].def.project = store[t].def.project
    BY <2>1, SetLastRunDefs, SetEnabledDefs
  <2>3. UNCHANGED requests
    BY <1>6 DEF RunStep, MarkRunning, RunBody, RecordOutcome, Record, Reread, DisableOnce, DropOnce,
                Rearm, Release
  <2>4. \A t \in DOMAIN schedule' :
          \/ t \in DOMAIN schedule /\ schedule'[t] = schedule[t]
          \/ /\ t = r[1] /\ r \in DOMAIN runs /\ runs[r].stage = "rearm"
             /\ schedule'[t].def = runs[r].def
    BY <1>6 DEF RunStep, MarkRunning, RunBody, RecordOutcome, Record, Reread, DisableOnce, DropOnce,
                Rearm, Release, At, ScheduleTaskLocked, Put, Without
  <2>5. \A q \in DOMAIN runs' : runs'[q].stage = "rearm" =>
          \/ q \in DOMAIN runs /\ runs'[q] = runs[q]
          \/ SameProject(runs'[q].def, q[1])
    <3>1. r \in DOMAIN runs /\ runs[r] \in Run
      BY <1>6 DEF RunStep, MarkRunning, RunBody, RecordOutcome, Record, Reread, DisableOnce, DropOnce,
                  Rearm, Release, At, TypeOK, IsMap
    <3>2. CASE Reread(r)
      <4>1. \A q \in DOMAIN runs' :
              /\ q \in DOMAIN runs
              /\ q # r => runs'[q] = runs[q]
        BY <3>2 DEF Reread, Goto
      <4>2. runs'[r].stage = "rearm" =>
              (r[1] \in DOMAIN store => runs'[r].def = store[r[1]].def)
        BY <3>1, <3>2 DEF Reread, Goto, Run
      <4>. QED
        BY <4>1, <4>2 DEF SameProject
    <3>3. CASE ~Reread(r)
      BY <1>6, <3>1, <3>3
      DEF RunStep, MarkRunning, RunBody, RecordOutcome, Record, DisableOnce, DropOnce,
          Rearm, Release, Goto, Without, Run
    <3>. QED
      BY <3>2, <3>3
  <2>. QED
    BY <1>1, <2>2, <2>3, <2>4, <2>5, CopiesStay DEF CopiesCurrent, Ordering
<1>7. CASE LoadAllTasks
  <2>1. \A t \in DOMAIN store' :
          t \in DOMAIN store /\ store'[t].def.project = store[t].def.project
    <3>1. \A t \in DOMAIN store : store[t] \in Stored
      BY DEF TypeOK, IsMap
    <3>. QED
      BY <1>7, <3>1 DEF LoadAllTasks, ResetStale, Stored
  <2>2. /\ UNCHANGED <<runs, requests>>
        /\ UNCHANGED schedule \/ \A t \in DOMAIN schedule' : schedule'[t].def = store[t].def
    BY <1>7 DEF LoadAllTasks
  <2>. QED
    BY <1>1, <2>1, <2>2, CopiesStay DEF SameProject, Ordering
<1>8. CASE Stop \/ Exit
  BY <1>1, <1>8, CopiesStay DEF Stop, Exit, NoMap, Ordering
<1>. QED
  BY <1>2, <1>3, <1>4, <1>5, <1>6, <1>7, <1>8 DEF Next

\* The first half of a request: it is now this one that holds the task.
LEMMA FirstHalfCovers ==
    ASSUME OnceUnedited, ProjectsKept, TypeOK, IdsKnown, CopiesInv, CoverInv, OrdersApart',
           NEW c \in Clients, FirstHalf(c)
    PROVE  CoverInv'
<1>1. /\ proc = "up" /\ UNCHANGED <<proc, runs>> /\ c \notin DOMAIN requests
      /\ Covered /\ RequestsCurrent /\ StagesRight /\ NoOnceEdited
  BY DEF FirstHalf, Create, Update, Unschedule, ReadForRun, UnscheduleByProject, Idle, CoverInv
<1>2. /\ DOMAIN requests' = DOMAIN requests \cup {c}
      /\ \A d \in DOMAIN requests : requests'[d] = requests[d]
  BY <1>1 DEF FirstHalf, Create, Update, Unschedule, ReadForRun, UnscheduleByProject, Begin, Put
<1>3. /\ \A t : HeldByRun(t)' <=> HeldByRun(t)
      /\ UNCHANGED store => \A t : Wanted(t) /\ HeldByRequest(t) => HeldByRequest(t)'
  BY <1>1, <1>2, HeldStays DEF HeldByRun, Wanted
<1>4. ASSUME NEW t \in Tasks, NEW def \in Definitions, NEW status \in Carried,
               Create(c, t, def, status) \/ Update(c, t, def, status)
      PROVE  CoverInv'
  <2>1. requests'[c] = [op |-> "schedule", task |-> t, def |-> def] /\ UNCHANGED schedule
    BY <1>4 DEF Create, Update, Begin, Put
  <2>2. /\ DOMAIN store' = DOMAIN store \cup {t} /\ store'[t].def = def
        /\ \A u \in DOMAIN store : u # t => store'[u] = store[u]
    <3>1. CASE Create(c, t, def, status)
      BY <3>1 DEF Create, Put
    <3>2. CASE Update(c, t, def, status)
      <4>1. PICK new : store' = [store EXCEPT ![t] = [def |-> def, status |-> new]]
        BY <3>2 DEF Update
      <4>. QED
        BY <3>2, <4>1 DEF Update
    <3>. QED
      BY <1>4, <3>1, <3>2
  <2>3. \A u : Wanted(u)' /\ u # t => Wanted(u)
    BY <2>2 DEF Wanted
  <2>4. Covered'
    <3>1. HeldByRequest(t)'
      BY <1>2, <2>1 DEF HeldByRequest, Editing
    <3>2. \A u : Wanted(u)' /\ u # t /\ HeldByRequest(u) => HeldByRequest(u)'
      BY <1>1, <1>2, <2>2, HeldStays DEF Wanted
    <3>. QED
      BY <1>1, <1>3, <2>1, <2>3, <3>1, <3>2 DEF Covered
  <2>5. RequestsCurrent'
    <3>1. ASSUME NEW d \in DOMAIN requests, requests[d].op = "schedule"
          PROVE  requests[d].task # t
      BY <1>1, <1>2, <2>1, <3>1 DEF OrdersApart, Ordering
    <3>. QED
      BY <1>1, <1>2, <2>1, <2>2, <2>3, <3>1 DEF RequestsCurrent, Wanted
  <2>6. StagesRight'
    <3>1. CASE Create(c, t, def, status)
      <4>1. \A r \in DOMAIN runs : r[1] # t
        BY <3>1 DEF Create, IdsKnown
      <4>. QED
        BY <1>1, <2>3, <4>1 DEF StagesRight
    <3>2. CASE Update(c, t, def, status)
      BY <1>1, <3>2 DEF Update, StagesRight
    <3>. QED
      BY <1>4, <3>1, <3>2
  <2>7. NoOnceEdited'
    BY <1>1, <2>2 DEF OnceUnedited, NoOnceEdited
  <2>. QED
    BY <1>1, <2>4, <2>5, <2>6, <2>7 DEF CoverInv
<1>5. ASSUME NEW t \in Tasks, Unschedule(c, t) PROVE CoverInv'
  <2>1. /\ requests'[c] = [op |-> "delete", task |-> t]
        /\ DOMAIN schedule' = DOMAIN schedule \ {t} /\ UNCHANGED store
    BY <1>5 DEF Unschedule, Begin, Put, Without
  <2>2. \A u : Wanted(u)' <=> Wanted(u)
    BY <2>1 DEF Wanted
  <2>3. HeldByRequest(t)'
    BY <1>2, <2>1 DEF HeldByRequest, Editing
  <2>4. Covered'
    BY <1>1, <1>3, <2>1, <2>2, <2>3 DEF Covered
  <2>5. RequestsCurrent'
    BY <1>1, <1>2, <2>1, <2>2 DEF RequestsCurrent
  <2>. QED
    BY <1>1, <2>1, <2>2, <2>4, <2>5 DEF CoverInv, StagesRight, NoOnceEdited
<1>6. ASSUME NEW t \in Tasks, ReadForRun(c, t) PROVE CoverInv'
  <2>1. requests'[c].op = "run" /\ UNCHANGED <<store, schedule>>
    BY <1>6 DEF ReadForRun, Begin, Put
  <2>2. \A u : Wanted(u)' <=> Wanted(u)
    BY <2>1 DEF Wanted
  <2>3. Covered'
    BY <1>1, <1>3, <2>1, <2>2 DEF Covered
  <2>4. RequestsCurrent'
    BY <1>1, <1>2, <2>1, <2>2 DEF RequestsCurrent
  <2>. QED
    BY <1>1, <2>1, <2>2, <2>3, <2>4 DEF CoverInv, StagesRight, NoOnceEdited
<1>7. ASSUME NEW p \in Projects, UnscheduleByProject(c, p) PROVE CoverInv'
  <2>1. /\ requests'[c] = [op |-> "deleteProject", project |-> p] /\ UNCHANGED store
        /\ \A u \in DOMAIN schedule : schedule[u].def.project # p => u \in DOMAIN schedule'
        /\ "put" \notin Ops
    BY <1>7 DEF UnscheduleByProject, Begin, Put, Without, ProjectsKept
  <2>2. \A u : Wanted(u)' <=> Wanted(u)
    BY <2>1 DEF Wanted
  <2>3. \A u : Wanted(u) /\ u \in DOMAIN schedule \ DOMAIN schedule' => HeldByRequest(u)'
    <3>1. \A u : Wanted(u) /\ u \in DOMAIN schedule /\ schedule[u].def.project = p =>
              u \in DOMAIN store /\ store[u].def.project = p
      BY <2>1 DEF CopiesInv, CopiesCurrent, SameProject, Wanted
    <3>2. \A u : u \in DOMAIN store /\ store[u].def.project = p => Clearing(c, u)'
      BY <1>2, <2>1 DEF Clearing
    <3>. QED
      BY <2>1, <3>1, <3>2 DEF HeldByRequest
  <2>4. Covered'
    BY <1>1, <1>3, <2>1, <2>2, <2>3 DEF Covered
  <2>5. RequestsCurrent'
    BY <1>1, <1>2, <2>1, <2>2 DEF RequestsCurrent
  <2>. QED
    BY <1>1, <2>1, <2>2, <2>4, <2>5 DEF CoverInv, StagesRight, NoOnceEdited
<1>. QED
  BY <1>4, <1>5, <1>6, <1>7 DEF FirstHalf

\* The second half of a request: the task it held is in the schedule, or not wanted, and
\* what other requests hold is held still.
LEMMA SecondHalfCovers ==
    ASSUME "io" \notin Faults, TypeOK, CoverInv, NEW c \in Clients, SecondHalf(c)
    PROVE  CoverInv'
<1>1. /\ c \in DOMAIN requests /\ DOMAIN requests' = DOMAIN requests \ {c}
      /\ \A d \in DOMAIN requests' : requests'[d] = requests[d]
      /\ proc # "down" /\ UNCHANGED proc
  BY DEF SecondHalf, ScheduleTask, Delete, DeleteByProject, Claim, Pending, End, Without, Alive
<1>2. \A t \in DOMAIN store' : t \in DOMAIN store /\ store'[t] = store[t]
  BY DEF SecondHalf, ScheduleTask, Delete, DeleteByProject, Claim, Without
<1>3. NoOnceEdited' /\ \A t : Wanted(t)' => Wanted(t)
  BY <1>2, KindsStay DEF CoverInv, Wanted
<1>4. ASSUME proc = "up" PROVE Covered' /\ StagesRight' /\ RequestsCurrent'
  <2>1. Covered /\ RequestsCurrent /\ StagesRight
    BY <1>4 DEF CoverInv
  <2>2. RequestsCurrent'
    BY <1>1, <1>3, <2>1 DEF RequestsCurrent
  <2>3. \A u : Wanted(u)' /\ HeldByRequest(u) =>
            HeldByRequest(u)' \/ Editing(c, u) \/ Clearing(c, u)
    BY <1>1, <1>2 DEF HeldByRequest, Editing, Clearing, Wanted
  <2>4. CASE ScheduleTask(c)
    <3> DEFINE t == requests[c].task
    <3>1. /\ UNCHANGED <<store, runs>>
          /\ \A u : Editing(c, u) => u = t
          /\ \A u : ~Clearing(c, u)
          /\ Wanted(t) => t \in DOMAIN schedule'
          /\ \A u \in DOMAIN schedule : u # t => u \in DOMAIN schedule'
      BY <1>1, <2>1, <2>4
      DEF ScheduleTask, Pending, RequestsCurrent, ScheduleTaskLocked, Without, Put,
          Editing, Clearing
    <3>2. \A u : HeldByRun(u)' <=> HeldByRun(u)
      BY <3>1 DEF HeldByRun
    <3>. HIDE DEF t
    <3>3. Covered'
      BY <1>3, <2>1, <2>3, <3>1, <3>2 DEF Covered
    <3>. QED
      BY <1>3, <2>1, <2>2, <3>1, <3>3 DEF StagesRight
  <2>5. CASE Delete(c) \/ DeleteByProject(c)
    <3>1. UNCHANGED <<schedule, runs>> /\ \A u : HeldByRun(u)' <=> HeldByRun(u)
      BY <2>5 DEF Delete, DeleteByProject, HeldByRun
    <3>2. \A u : Wanted(u)' => ~Editing(c, u) /\ ~Clearing(c, u)
      BY <2>5 DEF Delete, DeleteByProject, MayFail, Pending, Without, Wanted, Editing, Clearing
    <3>3. Covered'
      BY <1>3, <2>1, <2>3, <3>1, <3>2 DEF Covered
    <3>. QED
      BY <1>3, <2>1, <2>2, <3>1, <3>3 DEF StagesRight
  <2>6. CASE Claim(c)
    <3>1. /\ UNCHANGED <<schedule, store>> /\ requests[c].op = "run"
          /\ requests[c].task \in Tasks
      BY <2>6 DEF Claim, Pending, TypeOK, IsMap, Request
    <3>2. /\ \A r \in DOMAIN runs : r \in DOMAIN runs' /\ runs'[r] = runs[r]
          /\ \A r \in DOMAIN runs' : r \in DOMAIN runs \/ runs'[r].stage = "mark"
      <4>1. CASE requests[c].task \in running
        BY <2>6, <4>1 DEF Claim
      <4>2. CASE requests[c].task \notin running
        BY <2>6, <3>1, <4>2, NewRunType DEF Claim, Put, Starting
      <4>. QED
        BY <4>1, <4>2
    <3>3. \A u : HeldByRun(u) => HeldByRun(u)'
      BY <3>2 DEF HeldByRun
    <3>4. Covered'
      BY <1>3, <2>1, <2>3, <3>1, <3>3 DEF Covered, Editing, Clearing
    <3>. QED
      BY <1>3, <2>1, <2>2, <3>2, <3>4, StagesStay
  <2>. QED
    BY <2>4, <2>5, <2>6 DEF SecondHalf
<1>. QED
  BY <1>1, <1>3, <1>4 DEF CoverInv

\* The steps of a run.  Only Reread, Rearm and Release leave the returning stages, the
\* first with a task that is not wanted, the second with an entry in the map.
LEMMA RunStepCovers ==
    ASSUME "io" \notin Faults, TypeOK, CoverInv, NEW r \in Tasks \X Gens, RunStep(r)
    PROVE  CoverInv'
<1>1. r \in DOMAIN runs /\ Alive /\ UNCHANGED <<requests, proc>>
  BY DEF RunStep, MarkRunning, RunBody, RecordOutcome, Record, Reread, DisableOnce, DropOnce, Rearm,
         Release, At
<1>2. runs[r] \in Run /\ \A q \in DOMAIN runs : runs[q] \in Run
  BY <1>1 DEF TypeOK, IsMap
<1>3. /\ NoOnceEdited'
      /\ \A t : Wanted(t)' /\ HeldByRequest(t) => HeldByRequest(t)'
  <2>1. \/ UNCHANGED store
        \/ \E status : store' = SetLastRun(store, r[1], status)
        \/ store' = SetEnabled(store, {r[1]})
    BY DEF RunStep, MarkRunning, RunBody, RecordOutcome, Record, Reread, DisableOnce, DropOnce, Rearm,
           Release, MayFail
  <2>2. \A t \in DOMAIN store' :
          /\ t \in DOMAIN store
          /\ store'[t].def.kind = store[t].def.kind
          /\ store'[t].def.project = store[t].def.project
    BY <2>1, SetLastRunDefs, SetEnabledDefs
  <2>. QED
    BY <1>1, <2>2, KindsStay, HeldStays DEF CoverInv, Wanted
<1>4. ASSUME proc = "up" PROVE Covered' /\ RequestsCurrent' /\ StagesRight'
  <2>1. Covered /\ RequestsCurrent /\ StagesRight /\ NoOnceEdited
    BY <1>4 DEF CoverInv
  <2>2. CASE MarkRunning(r) \/ RunBody(r) \/ RecordOutcome(r)
    <3>1. /\ \A t \in DOMAIN store' : t \in DOMAIN store /\ store'[t].def = store[t].def
          /\ UNCHANGED schedule
      <4>1. /\ UNCHANGED store \/ \E status : store' = SetLastRun(store, r[1], status)
            /\ UNCHANGED schedule
        BY <2>2 DEF MarkRunning, RunBody, RecordOutcome, Record, MayFail
      <4>. QED
        BY <4>1, SetLastRunDefs
    <3>2. /\ DOMAIN runs' = DOMAIN runs
          /\ runs[r].stage \in {"mark", "body", "final"}
          /\ runs'[r].stage \in {"body", "final", "reread"}
          /\ \A q \in DOMAIN runs : q # r => runs'[q] = runs[q]
      BY <1>1, <1>2, <2>2 DEF MarkRunning, RunBody, RecordOutcome, Record, At, Goto, Run
    <3>3. \A t : Wanted(t)' => Wanted(t)
      BY <3>1 DEF Wanted
    <3>4. Covered' /\ RequestsCurrent'
      BY <1>1, <1>4, <3>1, <3>2, CoverStays DEF Returning
    <3>5. StagesRight'
      BY <2>1, <3>2, <3>3, StagesStay
    <3>. QED
      BY <3>4, <3>5
  <2>3. CASE Reread(r)
    <3>1. /\ UNCHANGED <<store, schedule>> /\ runs[r].stage = "reread"
          /\ runs' = [runs EXCEPT
                         ![r].stage = NextStage(r[1]),
                         ![r].def = IF r[1] \in DOMAIN store THEN store[r[1]].def ELSE @]
      BY <2>3 DEF Reread, At, MayFail
    <3>2. /\ DOMAIN runs' = DOMAIN runs
          /\ runs'[r].stage = NextStage(r[1])
          /\ runs'[r].def = IF r[1] \in DOMAIN store THEN store[r[1]].def ELSE runs[r].def
          /\ \A q \in DOMAIN runs : q # r => runs'[q] = runs[q]
      BY <1>1, <1>2, <3>1 DEF Run
    <3>3. r[1] \in DOMAIN store => store[r[1]].def.kind \in Kinds
      BY DEF TypeOK, IsMap, Stored, Definition
    <3>4. /\ NextStage(r[1]) \in {"release", "disable", "rearm"}
          /\ NextStage(r[1]) = "release" => ~Wanted(r[1])
          /\ NextStage(r[1]) = "disable" =>
                r[1] \in DOMAIN store /\ store[r[1]].def.kind = "once"
      BY <3>3 DEF NextStage, Wanted, HasNextRun, Kinds
    <3>5. \A t : Wanted(t)' <=> Wanted(t)
      BY <3>1 DEF Wanted
    <3>6. \A t : HeldByRun(t) => ~Wanted(t) \/ HeldByRun(t)'
      <4>1. ASSUME NEW t, HeldByRun(t), Wanted(t) PROVE HeldByRun(t)'
        <5>1. PICK q \in DOMAIN runs : q[1] = t /\ Returning(runs[q])
          BY <4>1 DEF HeldByRun
        <5>2. CASE q = r
          <6>1. r[1] \in DOMAIN store /\ HasNextRun(runs'[r].def)
            BY <3>2, <4>1, <5>1, <5>2 DEF Wanted
          <6>2. Returning(runs'[r])
            BY <3>2, <3>4, <4>1, <5>1, <5>2, <6>1 DEF Returning
          <6>. QED
            BY <1>1, <3>2, <5>1, <5>2, <6>2 DEF HeldByRun
        <5>3. CASE q # r
          BY <3>2, <5>1, <5>3 DEF HeldByRun
        <5>. QED
          BY <5>2, <5>3
      <4>. QED
        BY <4>1
    <3>7. Covered'
      BY <1>3, <2>1, <3>1, <3>5, <3>6 DEF Covered
    <3>8. StagesRight'
      BY <2>1, <3>2, <3>4, <3>5 DEF StagesRight, NoOnceEdited
    <3>. QED
      BY <1>1, <2>1, <3>5, <3>7, <3>8 DEF RequestsCurrent
  <2>4. CASE DisableOnce(r)
    <3>1. store' = SetEnabled(store, {r[1]}) /\ UNCHANGED schedule /\ runs[r].stage = "disable"
      BY <2>4 DEF DisableOnce, At, MayFail
    <3>2. /\ DOMAIN runs' = DOMAIN runs /\ runs'[r].stage = "drop"
          /\ \A q \in DOMAIN runs : q # r => runs'[q] = runs[q]
      BY <1>1, <1>2, <2>4 DEF DisableOnce, Goto, Run
    <3>3. \A t : Wanted(t)' => Wanted(t) /\ t # r[1]
      BY <3>1, SetEnabledDefs DEF Wanted
    <3>4. Covered'
      BY <1>3, <2>1, <3>1, <3>2, <3>3 DEF Covered, HeldByRun
    <3>5. StagesRight'
      BY <2>1, <3>1, <3>2, <3>3 DEF StagesRight
    <3>. QED
      BY <1>1, <2>1, <3>3, <3>4, <3>5 DEF RequestsCurrent
  <2>5. CASE DropOnce(r) \/ Rearm(r) \/ Release(r)
    <3>1. /\ UNCHANGED store
          /\ \A q \in DOMAIN runs : q # r => q \in DOMAIN runs' /\ runs'[q] = runs[q]
          /\ \A q \in DOMAIN runs' : q \in DOMAIN runs
          /\ r \in DOMAIN runs' => runs'[r].stage = "release"
      BY <1>1, <1>2, <2>5 DEF DropOnce, Rearm, Release, Goto, Without, Run
    <3>2. \A t : Wanted(t)' <=> Wanted(t)
      BY <3>1 DEF Wanted
    <3>3. \A u \in DOMAIN schedule : u # r[1] => u \in DOMAIN schedule'
      BY <2>5 DEF DropOnce, Rearm, Release, ScheduleTaskLocked, Without, Put
    <3>4. \/ ~Wanted(r[1])
          \/ r[1] \in DOMAIN schedule'
          \/ UNCHANGED schedule /\ ~Returning(runs[r])
      <4>1. CASE DropOnce(r)
        BY <1>1, <2>1, <4>1 DEF DropOnce, At, StagesRight
      <4>2. CASE Rearm(r)
        BY <1>4, <4>2 DEF Rearm, At, ScheduleTaskLocked, Put, Returning
      <4>3. CASE Release(r)
        BY <4>3 DEF Release, At, Returning
      <4>. QED
        BY <2>5, <4>1, <4>2, <4>3
    <3>5. ASSUME NEW t \in Tasks, Wanted(t)
          PROVE  t \in DOMAIN schedule' \/ HeldByRun(t)' \/ HeldByRequest(t)'
      <4>1. HeldByRequest(t) => HeldByRequest(t)'
        BY <1>3, <3>2, <3>5
      <4>2. ASSUME t # r[1] PROVE HeldByRun(t) => HeldByRun(t)'
        BY <3>1, <4>2 DEF HeldByRun
      <4>3. ASSUME ~Returning(runs[r]) PROVE HeldByRun(t) => HeldByRun(t)'
        BY <3>1, <4>3 DEF HeldByRun
      <4>. QED
        BY <2>1, <3>3, <3>4, <3>5, <4>1, <4>2, <4>3 DEF Covered
    <3>6. Covered'
      BY <3>2, <3>5 DEF Covered
    <3>7. StagesRight'
      BY <2>1, <3>1, <3>2, StagesStay
    <3>. QED
      BY <1>1, <2>1, <3>2, <3>6, <3>7 DEF RequestsCurrent
  <2>. QED
    BY <2>2, <2>3, <2>4, <2>5 DEF RunStep
<1>. QED
  BY <1>1, <1>3, <1>4 DEF CoverInv, Alive

LEMMA NextCoverInv ==
    ASSUME OnceUnedited, ProjectsKept, "io" \notin Faults,
           TypeOK, ClaimInv, IdsKnown, CopiesInv, CoverInv, OrdersApart', [Next]_vars
    PROVE  CoverInv'
<1>1. CASE Clock \/ UNCHANGED vars
  <2>1. /\ UNCHANGED <<store, runs, requests, proc>>
        /\ DOMAIN schedule' = DOMAIN schedule
    BY <1>1 DEF Clock, InstantPasses, EntryAges, vars
  <2>2. proc = "up" => Covered' /\ RequestsCurrent' /\ NoOnceEdited'
    BY <2>1, CoverStays
  <2>3. \A t : Wanted(t)' <=> Wanted(t)
    BY <2>1 DEF Wanted
  <2>. QED
    BY <2>1, <2>2, <2>3 DEF CoverInv, NoOnceEdited, StagesRight
<1>2. CASE CheckAndFireTasks
  BY <1>2, TickCovers
<1>3. ASSUME NEW c \in Clients, FirstHalf(c) \/ SecondHalf(c) PROVE CoverInv'
  BY <1>3, FirstHalfCovers, SecondHalfCovers
<1>4. ASSUME NEW r \in Tasks \X Gens, RunStep(r) PROVE CoverInv'
  BY <1>4, RunStepCovers
<1>5. CASE LoadAllTasks
  <2>1. /\ store' = ResetStale(store, Stale)
        /\ DOMAIN schedule' = {t \in DOMAIN store : /\ store[t].def.enabled
                                                   /\ HasNextRun(store[t].def)}
        /\ DOMAIN runs' = {} /\ DOMAIN requests' = {} /\ proc' = "up"
    BY <1>5 DEF LoadAllTasks, MayFail, ClaimInv, CoverInv
  <2>2. /\ DOMAIN store' = DOMAIN store
        /\ \A t \in DOMAIN store : store'[t].def = store[t].def
    BY <2>1 DEF ResetStale, TypeOK, IsMap, Stored
  <2>3. \A t : Wanted(t)' => t \in DOMAIN schedule'
    BY <2>1, <2>2 DEF Wanted
  <2>. QED
    BY <2>1, <2>2, <2>3
    DEF CoverInv, Covered, RequestsCurrent, StagesRight, NoOnceEdited
<1>6. CASE Stop
  BY <1>6 DEF Stop, CoverInv, NoOnceEdited
<1>7. CASE Exit
  BY <1>7 DEF Exit, CoverInv, NoOnceEdited, NoMap
<1>. QED
  BY <1>1, <1>2, <1>3, <1>4, <1>5, <1>6, <1>7 DEF Next

\* An enabled task is in the schedule unless a run or a request is about to deal with it:
\* checkAndFireTasks takes it out, rescheduleOrDisable and ScheduleTask put it back, and
\* no order of theirs leaves it "enabled but never scheduled", whatever the requests of
\* any number of clients do to other tasks meanwhile.
THEOREM NoTaskIsLost ==
    ASSUME OnceUnedited, ProjectsKept, "io" \notin Faults
    PROVE  Spec /\ []OrdersApart => []NothingLost
<1>. DEFINE Inv == TypeOK /\ ClaimInv /\ IdsKnown /\ CopiesInv /\ CoverInv
<1>1. Init => Inv
  BY InitTypeOK, InitClaimInv, InitIdsKnown, InitCopiesInv, InitCoverInv
<1>2. Inv /\ OrdersApart' /\ [Next]_vars => Inv'
  BY NextTypeOK, NextClaimInv, NextIdsKnown, NextCopiesInv, NextCoverInv
<1>3. Inv => NothingLost
  <2>1. ASSUME Inv, proc = "up", NEW t \in Tasks, Wanted(t), Settled(t)
        PROVE  t \in DOMAIN schedule
    <3>1. ~HeldByRun(t)
      BY <2>1 DEF Settled, Live, HeldByRun
    <3>2. ~HeldByRequest(t)
      BY <2>1 DEF Settled, Concerns, HeldByRequest, Editing, Clearing
    <3>. QED
      BY <2>1, <3>1, <3>2 DEF CoverInv, Covered
  <2>. QED
    BY <2>1 DEF NothingLost
<1>. QED
  BY <1>1, <1>2, <1>3, PTL DEF Spec

\* One client has one request at a time.
THEOREM OneClientLosesNoTask ==
    ASSUME OneClient, OnceUnedited, ProjectsKept, "io" \notin Faults
    PROVE  Spec => []NothingLost
<1>1. TypeOK => OrdersApart
  BY DEF OneClient, TypeOK, IsMap, OrdersApart, Ordering
<1>. QED
  BY <1>1, TypeCorrect, NoTaskIsLost, PTL

\* Without edits a task is scheduled by its POST alone, and an id is not used twice.
LEMMA NextOrdersApart ==
    ASSUME "put" \notin Ops, IdsKnown, OrdersApart, [Next]_vars
    PROVE  OrdersApart'
<1>1. CASE \E c \in Clients, t \in Tasks, def \in Definitions, status \in Carried :
          Create(c, t, def, status)
  <2>1. PICK c \in Clients, t \in Tasks, def \in Definitions, status \in Carried :
          Create(c, t, def, status)
    BY <1>1
  <2>2. /\ \A d : ~Ordering(d, t)
        /\ \A d, u : Ordering(d, u)' => Ordering(d, u) \/ (d = c /\ u = t)
    BY <2>1 DEF Create, Idle, Begin, Put, Ordering, IdsKnown
  <2>. QED
    BY <2>2 DEF OrdersApart
<1>2. CASE ~ \E c \in Clients, t \in Tasks, def \in Definitions, status \in Carried :
          Create(c, t, def, status)
  <2>1. \A d, u : Ordering(d, u)' => Ordering(d, u)
    <3>1. ASSUME NEW c \in Clients, FirstHalf(c) \/ SecondHalf(c)
          PROVE  \A d, u : Ordering(d, u)' => Ordering(d, u)
      <4>1. CASE FirstHalf(c)
        BY <1>2, <4>1, FirstHalfOrders
      <4>2. CASE SecondHalf(c)
        BY <4>2
        DEF SecondHalf, ScheduleTask, Delete, DeleteByProject, Claim, End, Without, Ordering
      <4>. QED
        BY <3>1, <4>1, <4>2
    <3>2. CASE UNCHANGED requests
      BY <3>2 DEF Ordering
    <3>3. CASE Exit
      BY <3>3 DEF Exit, NoMap, Ordering
    <3>. QED
      BY <3>1, <3>2, <3>3
      DEF Next, vars, Clock, InstantPasses, EntryAges, CheckAndFireTasks, RunStep, MarkRunning,
          RunBody, RecordOutcome, Reread, DisableOnce, DropOnce, Rearm, Release,
          LoadAllTasks, Stop
  <2>. QED
    BY <2>1 DEF OrdersApart
<1>. QED
  BY <1>1, <1>2

\* Clients that do not edit tasks, any number of them, lose none, whatever they create,
\* run and delete at the same time, whole projects included.
THEOREM WithoutEditsNoTaskIsLost ==
    ASSUME "put" \notin Ops, "io" \notin Faults
    PROVE  Spec => []NothingLost
<1>1. Init => TypeOK /\ IdsKnown /\ OrdersApart
  BY InitTypeOK, InitIdsKnown DEF Init, NoMap, OrdersApart, Ordering
<1>2. TypeOK /\ IdsKnown /\ OrdersApart /\ [Next]_vars => (TypeOK /\ IdsKnown /\ OrdersApart)'
  BY NextTypeOK, NextIdsKnown, NextOrdersApart
<1>3. Spec /\ []OrdersApart => []NothingLost
  BY NoTaskIsLost DEF OnceUnedited, ProjectsKept
<1>. QED
  BY <1>1, <1>2, <1>3, PTL DEF Spec

-----------------------------------------------------------------------------
(* Once is once.                                                           *)

\* k says of what kind each task is.  Without PUT that never changes, and all that
\* carries a definition of the task agrees with it.
Agree(k) ==
    /\ \A t \in DOMAIN store : store[t].def.kind = k[t]
    /\ \A t \in DOMAIN schedule : schedule[t].def.kind = k[t]
    /\ \A c \in DOMAIN requests :
          requests[c].op = "schedule" => requests[c].def.kind = k[requests[c].task]
    /\ \A r \in DOMAIN runs :
          runs[r].stage = "rearm" => runs[r].def.kind = "recurring" /\ k[r[1]] = "recurring"
    /\ \A f \in onceFired : k[f[1]] = "once"

\* A once task that has fired has no entry, nor will it be given one.
Passed ==
    /\ \A f \in onceFired :
          f[1] \in born /\ f[1] \notin DOMAIN schedule /\ \A c : ~Ordering(c, f[1])
    /\ \A c, t : Ordering(c, t) /\ requests[c].def.kind = "once" => t \notin DOMAIN schedule
    /\ OrdersApart

OnceInv ==
    /\ proc \in {"down", "up"}
    /\ proc = "down" => onceFired = {} /\ DOMAIN requests = {} /\ DOMAIN runs = {}
    /\ Passed
    /\ \E k \in [Tasks -> Kinds] : Agree(k)

LEMMA InitOnceInv == Init => OnceInv
<1>. SUFFICES ASSUME Init PROVE OnceInv
  OBVIOUS
<1>. DEFINE k == [t \in Tasks |-> IF t \in DOMAIN store THEN store[t].def.kind ELSE "once"]
<1>1. IsMap(store, Tasks, Stored)
  BY InitialStoresAssumption DEF Init
<1>2. k \in [Tasks -> Kinds] /\ \A t \in DOMAIN store : store[t].def.kind = k[t]
  BY <1>1 DEF IsMap, Stored, Definition, Kinds
<1>3. Agree(k)
  BY <1>2 DEF Init, NoMap, Agree
<1>. HIDE DEF k
<1>. QED
  BY <1>2, <1>3 DEF Init, NoMap, OnceInv, Passed, OrdersApart, Ordering

\* A step that fires no once task and takes up no definition.
LEMMA OnceStays ==
    ASSUME OnceInv, proc' = "up", UNCHANGED onceFired, born \subseteq born',
           \A t \in DOMAIN store' :
               t \in DOMAIN store /\ store'[t].def.kind = store[t].def.kind,
           \A t \in DOMAIN schedule' :
               t \in DOMAIN schedule /\ schedule'[t].def.kind = schedule[t].def.kind,
           \A c \in DOMAIN requests' :
               requests'[c].op = "schedule" =>
                   c \in DOMAIN requests /\ requests'[c] = requests[c],
           \A r \in DOMAIN runs' :
               runs'[r].stage = "rearm" => r \in DOMAIN runs /\ runs'[r] = runs[r]
    PROVE  OnceInv'
<1>1. \A c, t : Ordering(c, t)' => Ordering(c, t) /\ requests'[c] = requests[c]
  BY DEF Ordering
<1>2. Passed'
  BY <1>1 DEF OnceInv, Passed, OrdersApart
<1>3. ASSUME NEW k \in [Tasks -> Kinds], Agree(k) PROVE Agree(k)'
  BY <1>3 DEF Agree
<1>. QED
  BY <1>2, <1>3 DEF OnceInv

LEMMA OnceTick ==
    ASSUME TypeOK, ClaimInv, IdsKnown, OnceInv, CheckAndFireTasks
    PROVE  OnceInv'
<1>. DEFINE finished == {t \in ToSkip : schedule[t].def.kind = "once"}
            started  == {NewRun(t) : t \in ToFire}
            fired    == {u \in ToFire : schedule[u].def.kind = "once"}
<1>1. /\ store' = store \/ store' = SetEnabled(store, finished)
      /\ schedule' = [t \in DOMAIN schedule \ (ToFire \cup finished) |->
                        IF t \in ToSkip THEN [schedule[t] EXCEPT !.phase = "early"]
                                        ELSE schedule[t]]
      /\ runs' = [r \in DOMAIN runs \cup started |->
                     IF r \in started THEN Starting(schedule[r[1]].def, "schedule") ELSE runs[r]]
      /\ onceFired' = onceFired \cup {<<t, schedule[t].def.at>> : t \in fired}
      /\ UNCHANGED <<born, requests, proc>> /\ proc = "up"
  BY DEF CheckAndFireTasks, Alive, OnceInv
<1>2. \A t \in DOMAIN store' :
        t \in DOMAIN store /\ store'[t].def.kind = store[t].def.kind
  BY <1>1, SetEnabledDefs
<1>3. \A t \in DOMAIN schedule' :
        /\ t \in DOMAIN schedule /\ t \notin ToFire
        /\ schedule'[t].def.kind = schedule[t].def.kind
  <2>1. \A t \in DOMAIN schedule : schedule[t] \in Entry
    BY DEF TypeOK, IsMap
  <2>. QED
    BY <1>1, <2>1 DEF Entry
<1>4. \A r \in DOMAIN runs' :
        runs'[r].stage = "rearm" => r \in DOMAIN runs /\ runs'[r] = runs[r]
  BY <1>1 DEF Starting
<1>5. \A f \in onceFired' :
        \/ f \in onceFired
        \/ f[1] \in ToFire /\ f[1] \in DOMAIN schedule /\ schedule[f[1]].def.kind = "once"
  BY <1>1 DEF ToFire, Due
<1>6. ToFire \subseteq DOMAIN schedule
  BY DEF ToFire, Due
<1>. HIDE DEF finished, started, fired
<1>7. \A c, t : Ordering(c, t)' <=> Ordering(c, t)
  BY <1>1 DEF Ordering
<1>8. ASSUME NEW k \in [Tasks -> Kinds], Agree(k) PROVE Agree(k)' /\ Passed'
  <2>1. Agree(k)'
    <3>1. /\ \A t \in DOMAIN store' : store'[t].def.kind = k[t]
          /\ \A t \in DOMAIN schedule' : schedule'[t].def.kind = k[t]
      BY <1>2, <1>3, <1>8 DEF Agree
    <3>2. \A c \in DOMAIN requests' :
            requests'[c].op = "schedule" => requests'[c].def.kind = k[requests'[c].task]
      BY <1>1, <1>8 DEF Agree
    <3>3. \A r \in DOMAIN runs' :
            runs'[r].stage = "rearm" =>
              runs'[r].def.kind = "recurring" /\ k[r[1]] = "recurring"
      BY <1>4, <1>8 DEF Agree
    <3>4. \A f \in onceFired' : k[f[1]] = "once"
      BY <1>5, <1>8 DEF Agree
    <3>. QED
      BY <3>1, <3>2, <3>3, <3>4 DEF Agree
  <2>2. \A c, t : Ordering(c, t) /\ t \in DOMAIN schedule => schedule[t].def.kind # "once"
    BY <1>8 DEF OnceInv, Passed, OrdersApart, Agree, Ordering
  <2>3. \A f \in onceFired' :
          f[1] \in born' /\ f[1] \notin DOMAIN schedule' /\ \A c : ~Ordering(c, f[1])'
    BY <1>1, <1>3, <1>5, <1>7, <2>2 DEF OnceInv, Passed, OrdersApart, IdsKnown
  <2>. QED
    BY <1>1, <1>3, <1>7, <2>1, <2>3 DEF OnceInv, Passed, OrdersApart
<1>. QED
  BY <1>1, <1>8 DEF OnceInv

LEMMA OnceCreate ==
    ASSUME TypeOK, IdsKnown, OnceInv,
           NEW c \in Clients, NEW t \in Tasks, NEW def \in Definitions, NEW status \in Carried,
               Create(c, t, def, status)
    PROVE  OnceInv'
<1>1. /\ t \notin born /\ born' = born \cup {t} /\ proc = "up"
      /\ c \notin DOMAIN requests
      /\ DOMAIN store' = DOMAIN store \cup {t} /\ store'[t].def = def
      /\ \A u \in DOMAIN store : u # t => store'[u] = store[u]
      /\ DOMAIN requests' = DOMAIN requests \cup {c}
      /\ requests'[c] = [op |-> "schedule", task |-> t, def |-> def]
      /\ \A d \in DOMAIN requests : requests'[d] = requests[d]
      /\ UNCHANGED <<schedule, runs, onceFired, proc>>
  BY DEF Create, Idle, Begin, Put
<1>2. def.kind \in Kinds
  BY DefinitionsAssumption DEF Definition
<1>3. /\ t \notin DOMAIN store /\ t \notin DOMAIN schedule
      /\ \A r \in DOMAIN runs : r[1] # t
      /\ \A d : ~Ordering(d, t)
      /\ \A f \in onceFired : f[1] # t
  BY <1>1 DEF TypeOK, IdsKnown, Ordering, OnceInv, Passed, OrdersApart
<1>4. \A d, u : Ordering(d, u)' =>
        \/ Ordering(d, u) /\ u # t /\ requests'[d] = requests[d]
        \/ d = c /\ u = t
  BY <1>1, <1>3 DEF Ordering
<1>5. Passed'
  <2>1. Passed
    BY DEF OnceInv
  <2>2. \A d : Ordering(d, t)' => d = c
    BY <1>3, <1>4
  <2>3. \A f \in onceFired' :
          f[1] \in born' /\ f[1] \notin DOMAIN schedule' /\ \A d : ~Ordering(d, f[1])'
    BY <1>1, <1>3, <1>4, <2>1 DEF Passed, OrdersApart
  <2>4. \A d, u : Ordering(d, u)' /\ requests'[d].def.kind = "once" => u \notin DOMAIN schedule'
    BY <1>1, <1>3, <1>4, <2>1 DEF Passed, OrdersApart
  <2>5. \A d, e, u : Ordering(d, u)' /\ Ordering(e, u)' => d = e
    BY <1>4, <2>1, <2>2 DEF Passed, OrdersApart
  <2>. QED
    BY <2>3, <2>4, <2>5 DEF Passed, OrdersApart
<1>6. ASSUME NEW k \in [Tasks -> Kinds], Agree(k)
      PROVE  Agree([k EXCEPT ![t] = def.kind])'
  <2>. DEFINE m == [k EXCEPT ![t] = def.kind]
  <2>1. m[t] = def.kind /\ \A u \in Tasks : u # t => m[u] = k[u]
    OBVIOUS
  <2>2. /\ DOMAIN store \subseteq Tasks /\ DOMAIN schedule \subseteq Tasks
        /\ \A r \in DOMAIN runs : r[1] \in Tasks
        /\ \A d \in DOMAIN requests :
              requests[d].op = "schedule" => requests[d].task \in Tasks /\ requests[d].task # t
        /\ \A f \in onceFired : f[1] \in Tasks
    <3>1. \A d \in DOMAIN requests : requests[d].op = "schedule" => requests[d].task \in Tasks
      BY DEF TypeOK, IsMap, Request
    <3>2. \A d \in DOMAIN requests : requests[d].op = "schedule" => requests[d].task # t
      BY <1>3 DEF Ordering
    <3>. QED
      BY <3>1, <3>2 DEF TypeOK, IsMap
  <2>. HIDE DEF m
  <2>3. Agree(m)'
    BY <1>1, <1>3, <1>6, <2>1, <2>2 DEF Agree
  <2>. QED
    BY <2>3 DEF m
<1>7. \E k \in [Tasks -> Kinds] : Agree(k)'
  <2>1. PICK k \in [Tasks -> Kinds] : Agree(k)
    BY DEF OnceInv
  <2>2. [k EXCEPT ![t] = def.kind] \in [Tasks -> Kinds]
    BY <1>2
  <2>. QED
    BY <1>6, <2>1, <2>2
<1>. QED
  BY <1>1, <1>5, <1>7 DEF OnceInv

\* An entry that is put into the map, by a pending request or by the end of a run.
LEMMA OnceArmed ==
    ASSUME OnceInv, proc = "up", NEW t \in Tasks, NEW kind,
           UNCHANGED <<born, store, onceFired, proc>>,
           \A k \in [Tasks -> Kinds] : Agree(k) => k[t] = kind,
           \A f \in onceFired : f[1] # t,
           \A c : Ordering(c, t)' => kind # "once",
           \A u \in DOMAIN schedule' :
               \/ u \in DOMAIN schedule /\ schedule'[u].def.kind = schedule[u].def.kind
               \/ u = t /\ schedule'[u].def.kind = kind,
           \A c \in DOMAIN requests' : c \in DOMAIN requests /\ requests'[c] = requests[c],
           \A r \in DOMAIN runs' :
               runs'[r].stage = "rearm" => r \in DOMAIN runs /\ runs'[r] = runs[r]
    PROVE  OnceInv'
<1>1. \A c, u : Ordering(c, u)' => Ordering(c, u) /\ requests'[c] = requests[c]
  BY DEF Ordering
<1>2. ASSUME NEW k \in [Tasks -> Kinds], Agree(k) PROVE Agree(k)' /\ Passed'
  <2>1. k[t] = kind
    BY <1>2
  <2>2. Agree(k)'
    BY <1>2, <2>1 DEF Agree
  <2>3. \A c : Ordering(c, t)' => requests'[c].def.kind # "once"
    BY <1>1, <1>2, <2>1 DEF Agree, Ordering
  <2>4. Passed'
    BY <1>1, <2>3 DEF OnceInv, Passed, OrdersApart
  <2>. QED
    BY <2>2, <2>4
<1>. QED
  BY <1>2 DEF OnceInv

LEMMA NextOnceInv ==
    ASSUME "put" \notin Ops, Faults \subseteq {"io"}
    PROVE  TypeOK /\ ClaimInv /\ IdsKnown /\ OnceInv /\ [Next]_vars => OnceInv'
<1>. SUFFICES ASSUME TypeOK, ClaimInv, IdsKnown, OnceInv, [Next]_vars PROVE OnceInv'
  OBVIOUS
<1>1. CASE Clock \/ UNCHANGED vars
  <2>1. /\ UNCHANGED <<store, born, runs, requests, onceFired, proc>>
        /\ DOMAIN schedule' = DOMAIN schedule
        /\ \A t \in DOMAIN schedule : schedule'[t].def = schedule[t].def
    <3>1. \A t \in DOMAIN schedule : schedule[t] \in Entry
      BY DEF TypeOK, IsMap
    <3>. QED
      BY <1>1, <3>1 DEF Clock, InstantPasses, EntryAges, Entry, vars
  <2>2. \A c, t : Ordering(c, t)' <=> Ordering(c, t)
    BY <2>1 DEF Ordering
  <2>3. Passed'
    BY <2>1, <2>2 DEF OnceInv, Passed, OrdersApart
  <2>4. ASSUME NEW k \in [Tasks -> Kinds], Agree(k) PROVE Agree(k)'
    BY <2>1, <2>4 DEF Agree
  <2>. QED
    BY <2>1, <2>3, <2>4 DEF OnceInv
<1>2. CASE CheckAndFireTasks
  BY <1>2, OnceTick
<1>3. ASSUME NEW c \in Clients, FirstHalf(c) PROVE OnceInv'
  <2>1. ASSUME NEW t \in Tasks, NEW def \in Definitions, NEW status \in Carried,
               Create(c, t, def, status) PROVE OnceInv'
    BY <2>1, OnceCreate
  <2>2. CASE \/ \E t \in Tasks : Unschedule(c, t) \/ ReadForRun(c, t)
             \/ \E p \in Projects : UnscheduleByProject(c, p)
    <3>1. /\ proc' = "up" /\ UNCHANGED <<store, born, runs, onceFired>>
          /\ \A t \in DOMAIN schedule' : t \in DOMAIN schedule /\ schedule'[t] = schedule[t]
      BY <2>2 DEF Unschedule, ReadForRun, UnscheduleByProject, Idle, Without
    <3>2. \A d \in DOMAIN requests' :
            requests'[d].op = "schedule" => d \in DOMAIN requests /\ requests'[d] = requests[d]
      <4>1. \E request : requests' = Put(requests, c, request) /\ request.op # "schedule"
        <5>1. CASE \E t \in Tasks : Unschedule(c, t)
          BY <5>1 DEF Unschedule, Begin
        <5>2. CASE \E t \in Tasks : ReadForRun(c, t)
          BY <5>2 DEF ReadForRun, Begin
        <5>3. CASE \E p \in Projects : UnscheduleByProject(c, p)
          BY <5>3 DEF UnscheduleByProject, Begin
        <5>. QED
          BY <2>2, <5>1, <5>2, <5>3
      <4>. QED
        BY <4>1 DEF Put
    <3>. QED
      BY <3>1, <3>2, OnceStays
  <2>. QED
    BY <1>3, <2>1, <2>2 DEF FirstHalf, Update
<1>4. ASSUME NEW c \in Clients, SecondHalf(c) PROVE OnceInv'
  <2>1. /\ proc = "up" /\ UNCHANGED <<born, onceFired, proc>> /\ c \in DOMAIN requests
        /\ DOMAIN requests' = DOMAIN requests \ {c}
        /\ \A d \in DOMAIN requests' : d \in DOMAIN requests /\ requests'[d] = requests[d]
    BY <1>4 DEF SecondHalf, ScheduleTask, Delete, DeleteByProject, Claim, Pending, Alive, End,
       Without, OnceInv
  <2>2. CASE ScheduleTask(c)
    <3>1. /\ UNCHANGED <<store, runs>> /\ requests[c].op = "schedule"
          /\ requests[c].task \in Tasks
      BY <2>1, <2>2 DEF ScheduleTask, Pending, TypeOK, IsMap, Request
    <3>2. PICK t, kind : t \in Tasks /\ t = requests[c].task /\ kind = requests[c].def.kind
      BY <3>1
    <3>3. \A u \in DOMAIN schedule' :
            \/ u \in DOMAIN schedule /\ schedule'[u].def.kind = schedule[u].def.kind
            \/ u = t /\ schedule'[u].def.kind = kind
      BY <2>2, <3>2 DEF ScheduleTask, ScheduleTaskLocked, Without, Put
    <3>4. Ordering(c, t)
      BY <2>1, <3>1, <3>2 DEF Ordering
    <3>5. \A k \in [Tasks -> Kinds] : Agree(k) => k[t] = kind
      BY <3>2, <3>4 DEF Agree, Ordering
    <3>6. \A f \in onceFired : f[1] # t
      BY <3>4 DEF OnceInv, Passed, OrdersApart
    <3>7. \A d : ~Ordering(d, t)'
      <4>1. \A d : Ordering(d, t)' => Ordering(d, t) /\ d # c
        BY <2>1 DEF Ordering
      <4>. QED
        BY <3>4, <4>1 DEF OnceInv, Passed, OrdersApart
    <3>8. \A r \in DOMAIN runs' :
            runs'[r].stage = "rearm" => r \in DOMAIN runs /\ runs'[r] = runs[r]
      BY <3>1
    <3>. QED
      BY <2>1, <3>1, <3>2, <3>3, <3>5, <3>6, <3>7, <3>8, OnceArmed
  <2>3. CASE Delete(c) \/ DeleteByProject(c)
    <3>1. /\ UNCHANGED <<schedule, runs>>
          /\ \A t \in DOMAIN store' : t \in DOMAIN store /\ store'[t] = store[t]
      BY <2>3 DEF Delete, DeleteByProject, Without
    <3>. QED
      BY <2>1, <3>1, OnceStays
  <2>4. CASE Claim(c)
    <3>1. UNCHANGED <<schedule, store>>
      BY <2>4 DEF Claim
    <3>2. \A r \in DOMAIN runs' :
            runs'[r].stage = "rearm" => r \in DOMAIN runs /\ runs'[r] = runs[r]
      BY <2>4 DEF Claim, Put, Starting
    <3>. QED
      BY <2>1, <3>1, <3>2, OnceStays
  <2>. QED
    BY <1>4, <2>2, <2>3, <2>4 DEF SecondHalf
<1>5. ASSUME NEW r \in Tasks \X Gens, RunStep(r) PROVE OnceInv'
  <2>1. /\ proc = "up" /\ UNCHANGED <<born, onceFired, proc, requests>> /\ r \in DOMAIN runs
    BY <1>5 DEF RunStep, MarkRunning, RunBody, RecordOutcome, Record, Reread, DisableOnce, DropOnce,
       Rearm, Release, At, Alive, OnceInv
  <2>2. \A q \in DOMAIN runs : runs[q] \in Run
    BY DEF TypeOK, IsMap
  <2>3. CASE MarkRunning(r) \/ RunBody(r) \/ RecordOutcome(r) \/ DisableOnce(r)
    <3>1. /\ \A t \in DOMAIN store' :
               t \in DOMAIN store /\ store'[t].def.kind = store[t].def.kind
          /\ UNCHANGED schedule
      <4>1. /\ \/ UNCHANGED store
               \/ \E status : store' = SetLastRun(store, r[1], status)
               \/ store' = SetEnabled(store, {r[1]})
            /\ UNCHANGED schedule
        BY <2>3 DEF MarkRunning, RunBody, RecordOutcome, Record, DisableOnce
      <4>. QED
        BY <4>1, SetLastRunDefs, SetEnabledDefs
    <3>2. \A q \in DOMAIN runs' :
            runs'[q].stage = "rearm" => q \in DOMAIN runs /\ runs'[q] = runs[q]
      BY <2>1, <2>2, <2>3 DEF MarkRunning, RunBody, RecordOutcome, Record, DisableOnce, Goto, Run
    <3>. QED
      BY <2>1, <3>1, <3>2, OnceStays
  <2>4. CASE Reread(r)
    <3>1. /\ UNCHANGED <<store, schedule>> /\ DOMAIN runs' = DOMAIN runs
          /\ \A q \in DOMAIN runs : q # r => runs'[q] = runs[q]
          /\ \/ runs'[r].stage = "release"
             \/ /\ runs'[r].stage = NextStage(r[1])
                /\ r[1] \in DOMAIN store => runs'[r].def = store[r[1]].def
      <4>1. UNCHANGED <<store, schedule>>
        BY <2>4 DEF Reread
      <4>2. CASE Goto(r, "release")
        BY <2>1, <2>2, <4>1, <4>2 DEF Goto, Run
      <4>3. CASE runs' = [runs EXCEPT
                            ![r].stage = NextStage(r[1]),
                            ![r].def = IF r[1] \in DOMAIN store THEN store[r[1]].def ELSE @]
        BY <2>1, <2>2, <4>1, <4>3 DEF Run
      <4>. QED
        BY <2>4, <4>2, <4>3 DEF Reread
    <3>2. runs'[r].stage = "rearm" =>
            /\ r[1] \in DOMAIN store /\ store[r[1]].def.kind = "recurring"
            /\ runs'[r].def = store[r[1]].def
      <4>1. r[1] \in DOMAIN store => store[r[1]].def.kind \in Kinds
        BY DEF TypeOK, IsMap, Stored, Definition
      <4>. QED
        BY <3>1, <4>1 DEF NextStage, Kinds
    <3>3. \A c, t : Ordering(c, t)' <=> Ordering(c, t)
      BY <2>1 DEF Ordering
    <3>4. Passed'
      BY <2>1, <3>1, <3>3 DEF OnceInv, Passed, OrdersApart
    <3>5. ASSUME NEW k \in [Tasks -> Kinds], Agree(k) PROVE Agree(k)'
      BY <2>1, <3>1, <3>2, <3>5 DEF Agree
    <3>. QED
      BY <2>1, <3>4, <3>5 DEF OnceInv
  <2>5. CASE Rearm(r)
    <3>1. /\ UNCHANGED store /\ runs[r].stage = "rearm" /\ r[1] \in Tasks
          /\ schedule' = ScheduleTaskLocked(schedule, r[1], runs[r].def)
      BY <2>1, <2>5 DEF Rearm, At
    <3>2. \A q \in DOMAIN runs' :
            runs'[q].stage = "rearm" => q \in DOMAIN runs /\ runs'[q] = runs[q]
      BY <2>1, <2>2, <2>5 DEF Rearm, Goto, Run
    <3>3. runs[r].def.kind = "recurring"
      BY <2>1, <3>1 DEF OnceInv, Agree
    <3>4. \A u \in DOMAIN schedule' :
            \/ u \in DOMAIN schedule /\ schedule'[u].def.kind = schedule[u].def.kind
            \/ u = r[1] /\ schedule'[u].def.kind = "recurring"
      BY <3>1, <3>3 DEF ScheduleTaskLocked, Put
    <3>5. /\ \A k \in [Tasks -> Kinds] : Agree(k) => k[r[1]] = "recurring"
          /\ \A f \in onceFired : f[1] # r[1]
      BY <2>1, <3>1 DEF OnceInv, Agree
    <3>. DEFINE t == r[1]
    <3>. HIDE DEF t
    <3>. QED
      BY <2>1, <3>1, <3>2, <3>4, <3>5, OnceArmed
  <2>6. CASE DropOnce(r) \/ Release(r)
    <3>1. /\ UNCHANGED store
          /\ \A t \in DOMAIN schedule' : t \in DOMAIN schedule /\ schedule'[t] = schedule[t]
      BY <2>6 DEF DropOnce, Release, Without
    <3>2. \A q \in DOMAIN runs' :
            runs'[q].stage = "rearm" => q \in DOMAIN runs /\ runs'[q] = runs[q]
      BY <2>1, <2>2, <2>6 DEF DropOnce, Release, Goto, Without, Run
    <3>. QED
      BY <2>1, <3>1, <3>2, OnceStays
  <2>. QED
    BY <1>5, <2>3, <2>4, <2>5, <2>6 DEF RunStep
<1>6. CASE LoadAllTasks
  <2>1. /\ proc = "down" /\ proc' = "up" /\ UNCHANGED <<born, runs, requests, onceFired>>
        /\ onceFired = {} /\ DOMAIN requests = {} /\ DOMAIN runs = {}
    BY <1>6 DEF LoadAllTasks, OnceInv
  <2>2. \A t \in DOMAIN store' :
          t \in DOMAIN store /\ store'[t].def = store[t].def
    BY <1>6 DEF LoadAllTasks, ResetStale, TypeOK, IsMap, Stored
  <2>3. \/ UNCHANGED schedule
        \/ \A t \in DOMAIN schedule' : t \in DOMAIN store /\ schedule'[t].def = store[t].def
    BY <1>6 DEF LoadAllTasks
  <2>4. Passed'
    BY <2>1 DEF Passed, OrdersApart, Ordering
  <2>5. ASSUME NEW k \in [Tasks -> Kinds], Agree(k) PROVE Agree(k)'
    BY <2>1, <2>2, <2>3, <2>5 DEF Agree
  <2>. QED
    BY <2>1, <2>4, <2>5 DEF OnceInv
<1>7. ~Stop /\ ~Exit
  BY DEF Stop, Exit, OnceInv
<1>. QED
  BY <1>1, <1>2, <1>3, <1>4, <1>5, <1>6, <1>7 DEF Next

\* A step that fires a once task fires it for the first time.
LEMMA FiresOnce ==
    TypeOK /\ OnceInv /\ [Next]_vars =>
        \A r \in FiredNow :
            runs'[r].def.kind = "once" => <<r[1], runs'[r].def.at>> \notin onceFired
<1>. SUFFICES ASSUME TypeOK, OnceInv, [Next]_vars, NEW r \in FiredNow
              PROVE  <<r[1], runs'[r].def.at>> \notin onceFired
  OBVIOUS
<1>1. r \in DOMAIN runs' /\ r \notin DOMAIN runs /\ runs'[r].trigger = "schedule"
  BY DEF FiredNow
<1>2. CheckAndFireTasks
  <2>1. ~(Clock \/ LoadAllTasks \/ Stop \/ UNCHANGED vars)
    BY <1>1 DEF Clock, InstantPasses, EntryAges, LoadAllTasks, Stop, vars
  <2>2. ~Exit
    BY <1>1 DEF Exit, NoMap
  <2>3. ASSUME NEW c \in Clients PROVE ~FirstHalf(c)
    BY <1>1 DEF FirstHalf, Create, Update, Unschedule, ReadForRun, UnscheduleByProject
  <2>4. ASSUME NEW c \in Clients PROVE ~SecondHalf(c)
    <3>1. ~(ScheduleTask(c) \/ Delete(c) \/ DeleteByProject(c))
      BY <1>1 DEF ScheduleTask, Delete, DeleteByProject
    <3>2. ~Claim(c)
      BY <1>1 DEF Claim, Put, Starting
    <3>. QED
      BY <3>1, <3>2 DEF SecondHalf
  <2>5. ASSUME NEW q \in Tasks \X Gens PROVE ~RunStep(q)
    BY <1>1 DEF RunStep, MarkRunning, RunBody, RecordOutcome, Record, Reread, DisableOnce, DropOnce,
       Rearm, Release, Goto, Without
  <2>. QED
    BY <2>1, <2>2, <2>3, <2>4, <2>5 DEF Next
<1>3. PICK t \in ToFire : r = NewRun(t)
  BY <1>1, <1>2 DEF CheckAndFireTasks
<1>4. t \in DOMAIN schedule /\ r[1] = t
  <2>1. t \in Tasks /\ Free(t) # {} /\ t \in DOMAIN schedule
    BY <1>2, <1>3 DEF CheckAndFireTasks, ToFire, Due, TypeOK, IsMap
  <2>. QED
    BY <1>3, <2>1, NewRunType
<1>. QED
  BY <1>4 DEF OnceInv, Passed, OrdersApart

\* A once time fires at most one time: neither the end of the run, nor a manual run, nor
\* a failing write brings a fired task back into the map.  A restart would (README.md),
\* and so would an edit, which may name a time anew.
THEOREM OnceIsOnce ==
    ASSUME "put" \notin Ops, Faults \subseteq {"io"}
    PROVE  Spec => OnceFiresOnce
<1>. DEFINE Inv == TypeOK /\ ClaimInv /\ IdsKnown /\ OnceInv
<1>1. Init => Inv
  BY InitTypeOK, InitClaimInv, InitIdsKnown, InitOnceInv
<1>2. Inv /\ [Next]_vars => Inv'
  BY NextTypeOK, NextClaimInv, NextIdsKnown, NextOnceInv
<1>3. Inv /\ [Next]_vars =>
        [\A r \in FiredNow :
           runs'[r].def.kind = "once" => <<r[1], runs'[r].def.at>> \notin onceFired]_vars
  BY FiresOnce
<1>. QED
  BY <1>1, <1>2, <1>3, PTL DEF Spec, OnceFiresOnce

-----------------------------------------------------------------------------
(* Deleted is deleted.                                                     *)

Gone == born \ DOMAIN store

\* The runs that are about to put t back into the map, and the requests that are.
Rearming(t) == {r \in DOMAIN runs : r[1] = t /\ runs[r].stage = "rearm"}
Orders(t)   == {c \in DOMAIN requests : Ordering(c, t)}

\* What may put a deleted task back into the map only becomes less, each time it does.
WindsDown(t) ==
    /\ t \in Gone'
    /\ Rearming(t)' \subseteq Rearming(t)
    /\ Orders(t)' \subseteq Orders(t)
    /\ t \in DOMAIN schedule' \ DOMAIN schedule =>
          Rearming(t)' # Rearming(t) \/ Orders(t)' # Orders(t)

\* A step that starts no re-arm and no request for t, and gives t no entry.
LEMMA NothingForGone ==
    ASSUME NEW t \in Gone, born \subseteq born', t \notin DOMAIN store',
           t \in DOMAIN schedule' => t \in DOMAIN schedule,
           \A r \in DOMAIN runs' :
               r[1] = t /\ runs'[r].stage = "rearm" =>
                   r \in DOMAIN runs /\ runs'[r] = runs[r],
           \A c : Ordering(c, t)' => Ordering(c, t)
    PROVE  WindsDown(t)
BY DEF WindsDown, Gone, Rearming, Orders, Ordering

\* SetLastRun and SetEnabled bring no task back.
LEMMA StaysDeleted ==
    ASSUME NEW t, NEW u, t \notin DOMAIN store
    PROVE  /\ \A status : t \notin DOMAIN SetLastRun(store, u, status)
           /\ \A ts : t \notin DOMAIN SetEnabled(store, ts)
BY DEF SetLastRun, SetEnabled

LEMMA RunOfGone ==
    ASSUME TypeOK, NEW t \in Gone, NEW r \in Tasks \X Gens, RunStep(r)
    PROVE  WindsDown(t)
<1>1. /\ t \notin DOMAIN store' /\ UNCHANGED <<born, requests>>
      /\ r \in DOMAIN runs /\ runs[r] \in Run
  <2>1. /\ \/ UNCHANGED store
           \/ \E status : store' = SetLastRun(store, r[1], status)
           \/ store' = SetEnabled(store, {r[1]})
        /\ UNCHANGED <<born, requests>> /\ r \in DOMAIN runs
    BY DEF RunStep, MarkRunning, RunBody, RecordOutcome, Record, Reread, DisableOnce, DropOnce, Rearm,
           Release, MayFail, At
  <2>. QED
    BY <2>1, StaysDeleted DEF Gone, TypeOK, IsMap
<1>2. \A c : Ordering(c, t)' => Ordering(c, t)
  BY <1>1 DEF Ordering
<1>3. CASE Rearm(r) /\ r[1] = t
  <2>1. /\ \A q \in DOMAIN runs' : q \in DOMAIN runs /\ (q # r => runs'[q] = runs[q])
        /\ runs'[r].stage = "release" /\ runs[r].stage = "rearm"
    BY <1>1, <1>3 DEF Rearm, At, Goto, Run
  <2>2. Rearming(t)' \subseteq Rearming(t) /\ r \in Rearming(t) /\ r \notin Rearming(t)'
    BY <1>1, <1>3, <2>1 DEF Rearming
  <2>. QED
    BY <1>1, <1>2, <2>2 DEF WindsDown, Gone, Orders, Ordering
<1>4. CASE ~(Rearm(r) /\ r[1] = t)
  <2>1. t \in DOMAIN schedule' => t \in DOMAIN schedule
    BY <1>4 DEF RunStep, MarkRunning, RunBody, RecordOutcome, Record, Reread, DisableOnce, DropOnce,
                Rearm, Release, ScheduleTaskLocked, Put, Without
  <2>2. \A q \in DOMAIN runs' : q[1] = t /\ runs'[q].stage = "rearm" =>
          q \in DOMAIN runs /\ runs'[q] = runs[q]
    <3>1. CASE Reread(r)
      <4>1. /\ \A q \in DOMAIN runs' : q \in DOMAIN runs /\ (q # r => runs'[q] = runs[q])
            /\ runs'[r].stage \in {"release", NextStage(r[1])}
        BY <1>1, <3>1 DEF Reread, Goto, Run
      <4>2. NextStage(t) = "release"
        BY DEF NextStage, Gone
      <4>. QED
        BY <4>1, <4>2
    <3>2. CASE ~Reread(r)
      BY <1>1, <3>2
      DEF RunStep, MarkRunning, RunBody, RecordOutcome, Record, DisableOnce, DropOnce,
          Rearm, Release, Goto, Without, Run
    <3>. QED
      BY <3>1, <3>2
  <2>. QED
    BY <1>1, <1>2, <2>1, <2>2, NothingForGone
<1>. QED
  BY <1>3, <1>4

LEMMA RequestOfGone ==
    ASSUME NEW t \in Gone, NEW c \in Clients, FirstHalf(c) \/ SecondHalf(c)
    PROVE  WindsDown(t)
<1>1. CASE FirstHalf(c)
  <2>1. /\ t \notin DOMAIN store' /\ born \subseteq born' /\ UNCHANGED runs
        /\ t \in DOMAIN schedule' => t \in DOMAIN schedule
    BY <1>1 DEF FirstHalf, Create, Update, Unschedule, ReadForRun, UnscheduleByProject, Put,
                Without, Gone
  <2>2. \A d : Ordering(d, t)' => Ordering(d, t)
    <3>1. ASSUME NEW u \in Tasks, NEW def \in Definitions, NEW status \in Carried,
               Create(c, u, def, status) \/ Update(c, u, def, status)
          PROVE  \A d : Ordering(d, t)' => Ordering(d, t)
      <4>1. /\ u # t
            /\ requests' = Put(requests, c, [op |-> "schedule", task |-> u, def |-> def])
        BY <3>1 DEF Create, Update, Begin, Gone
      <4>. QED
        BY <4>1 DEF Put, Ordering
    <3>2. ASSUME NEW u \in Tasks, Unschedule(c, u) \/ ReadForRun(c, u)
          PROVE  \A d : Ordering(d, t)' => Ordering(d, t)
      <4>1. \/ requests' = Put(requests, c, [op |-> "delete", task |-> u])
            \/ requests' = Put(requests, c, [op |-> "run", task |-> u, def |-> store[u].def])
        BY <3>2 DEF Unschedule, ReadForRun, Begin
      <4>. QED
        BY <4>1 DEF Put, Ordering
    <3>3. ASSUME NEW p \in Projects, UnscheduleByProject(c, p)
          PROVE  \A d : Ordering(d, t)' => Ordering(d, t)
      BY <3>3 DEF UnscheduleByProject, Begin, Put, Ordering
    <3>. QED
      BY <1>1, <3>1, <3>2, <3>3 DEF FirstHalf
  <2>. QED
    BY <2>1, <2>2, NothingForGone
<1>2. CASE SecondHalf(c)
  <2>1. /\ t \notin DOMAIN store' /\ UNCHANGED born /\ c \in DOMAIN requests
        /\ \A d : Ordering(d, t)' => Ordering(d, t) /\ d # c
        /\ \A r \in DOMAIN runs' : runs'[r].stage = "rearm" =>
              r \in DOMAIN runs /\ runs'[r] = runs[r]
    <3>1. /\ t \notin DOMAIN store' /\ UNCHANGED born
          /\ c \in DOMAIN requests /\ requests' = Without(requests, {c})
      BY <1>2 DEF SecondHalf, ScheduleTask, Delete, DeleteByProject, Claim, Pending, Without,
                  End, Gone
    <3>2. \A d : Ordering(d, t)' => Ordering(d, t) /\ d # c
      BY <3>1 DEF Without, Ordering
    <3>3. \A r \in DOMAIN runs' : runs'[r].stage = "rearm" =>
            r \in DOMAIN runs /\ runs'[r] = runs[r]
      BY <1>2 DEF SecondHalf, ScheduleTask, Delete, DeleteByProject, Claim, Put, Starting
    <3>. QED
      BY <3>1, <3>2, <3>3
  <2>2. CASE ScheduleTask(c) /\ requests[c].task = t
    <3>1. Ordering(c, t)
      BY <2>2 DEF ScheduleTask, Pending, Ordering
    <3>. QED
      BY <2>1, <3>1 DEF WindsDown, Gone, Rearming, Orders, Ordering
  <2>3. CASE ~(ScheduleTask(c) /\ requests[c].task = t)
    <3>1. t \in DOMAIN schedule' => t \in DOMAIN schedule
      <4>1. CASE ScheduleTask(c)
        BY <2>3, <4>1 DEF ScheduleTask, ScheduleTaskLocked, Put, Without
      <4>2. CASE ~ScheduleTask(c)
        BY <1>2, <4>2 DEF SecondHalf, Delete, DeleteByProject, Claim
      <4>. QED
        BY <4>1, <4>2
    <3>. QED
      BY <2>1, <3>1, NothingForGone
  <2>. QED
    BY <2>2, <2>3
<1>. QED
  BY <1>1, <1>2

LEMMA NextWindsDown ==
    ASSUME TypeOK, [Next]_vars, NEW t \in Gone
    PROVE  WindsDown(t)
<1>1. CASE Clock \/ UNCHANGED vars
  <2>1. UNCHANGED <<store, born, runs, requests>> /\ DOMAIN schedule' = DOMAIN schedule
    BY <1>1 DEF Clock, InstantPasses, EntryAges, vars
  <2>. QED
    BY <2>1, NothingForGone DEF Gone, Ordering
<1>2. CASE CheckAndFireTasks
  <2>1. /\ UNCHANGED store \/ \E ts : store' = SetEnabled(store, ts)
        /\ DOMAIN schedule' \subseteq DOMAIN schedule /\ UNCHANGED <<born, requests>>
        /\ \A r \in DOMAIN runs' : runs'[r].stage = "rearm" =>
              r \in DOMAIN runs /\ runs'[r] = runs[r]
    BY <1>2 DEF CheckAndFireTasks, Starting
  <2>2. t \notin DOMAIN store'
    BY <2>1, StaysDeleted DEF Gone
  <2>. QED
    BY <2>1, <2>2, NothingForGone DEF Ordering
<1>3. ASSUME NEW c \in Clients, FirstHalf(c) \/ SecondHalf(c) PROVE WindsDown(t)
  BY <1>3, RequestOfGone
<1>4. ASSUME NEW r \in Tasks \X Gens, RunStep(r) PROVE WindsDown(t)
  BY <1>4, RunOfGone
<1>5. CASE LoadAllTasks
  <2>1. /\ t \notin DOMAIN store' /\ UNCHANGED <<born, runs, requests>>
        /\ t \in DOMAIN schedule' => t \in DOMAIN schedule
    BY <1>5 DEF LoadAllTasks, ResetStale, Gone
  <2>. QED
    BY <2>1, NothingForGone DEF Ordering
<1>6. CASE Stop \/ Exit
  BY <1>6, NothingForGone DEF Stop, Exit, NoMap, Gone, Ordering
<1>. QED
  BY <1>1, <1>2, <1>3, <1>4, <1>5, <1>6 DEF Next

\* The safety that DeletedGoesQuiet of Scheduler rests on.  A deleted task never comes back
\* to the file, whatever its last run still writes there; an entry for it in the map is put
\* there by a run or a request that was past its last look at the file when the task was
\* deleted, each once; and no other will.
THEOREM DeletedWindsDown == Spec => [][\A t \in Gone : WindsDown(t)]_vars
<1>1. TypeOK /\ [Next]_vars => [\A t \in Gone : WindsDown(t)]_vars
  BY NextWindsDown
<1>. QED
  BY <1>1, TypeCorrect, PTL DEF Spec

=============================================================================
