--------------------------- MODULE SchedulerProofs ---------------------------
(***************************************************************************)
(* Theorems about Scheduler, for every value of its constants: any number  *)
(* of tasks, clients and concurrent runs.                                  *)
(***************************************************************************)
EXTENDS Scheduler, TLAPS

-----------------------------------------------------------------------------
(* Maps.                                                                   *)

LEMMA PutIsMap ==
    ASSUME NEW S, NEW T, NEW f, IsMap(f, S, T), NEW k \in S, NEW v \in T
    PROVE  IsMap(Put(f, k, v), S, T)
BY DEF IsMap, Put

LEMMA WithoutIsMap ==
    ASSUME NEW S, NEW T, NEW f, IsMap(f, S, T), NEW ks
    PROVE  IsMap(Without(f, ks), S, T)
BY DEF IsMap, Without

LEMMA NoMapIsMap ==
    ASSUME NEW S, NEW T
    PROVE  IsMap(NoMap, S, T)
BY DEF IsMap, NoMap

\* Replacing the value under a key of the map.
LEMMA ExceptIsMap ==
    ASSUME NEW S, NEW T, NEW f, IsMap(f, S, T), NEW k \in DOMAIN f, NEW v \in T
    PROVE  IsMap([f EXCEPT ![k] = v], S, T)
BY DEF IsMap

-----------------------------------------------------------------------------
(* The operators that the actions are built from keep the types.           *)

LEMMA SetLastRunType ==
    ASSUME NEW s, IsMap(s, Tasks, Stored), NEW t, NEW status \in Statuses
    PROVE  /\ IsMap(SetLastRun(s, t, status), Tasks, Stored)
           /\ DOMAIN SetLastRun(s, t, status) = DOMAIN s
BY DEF IsMap, SetLastRun, Stored

LEMMA SetEnabledType ==
    ASSUME NEW s, IsMap(s, Tasks, Stored), NEW ts
    PROVE  /\ IsMap(SetEnabled(s, ts), Tasks, Stored)
           /\ DOMAIN SetEnabled(s, ts) = DOMAIN s
BY DEF IsMap, SetEnabled, Stored, Definition

LEMMA RecordType ==
    ASSUME TypeOK, NEW t, NEW status \in Statuses, Record(t, status)
    PROVE  IsMap(store, Tasks, Stored)' /\ DOMAIN store' = DOMAIN store
           /\ unsure' \in SUBSET DOMAIN store'
<1>1. PICK failed \in MayFail :
        /\ store' = IF failed THEN store ELSE SetLastRun(store, t, status)
        /\ unsure' = IF failed THEN unsure \cup ({t} \cap DOMAIN store) ELSE unsure \ {t}
  BY DEF Record
<1>2. IsMap(store, Tasks, Stored)' /\ DOMAIN store' = DOMAIN store
  BY <1>1, SetLastRunType DEF TypeOK
<1>3. unsure' \subseteq unsure \cup ({t} \cap DOMAIN store)
  BY <1>1
<1>. QED
  BY <1>2, <1>3 DEF TypeOK

LEMMA ResetStaleType ==
    ASSUME NEW s, IsMap(s, Tasks, Stored), NEW ts
    PROVE  /\ IsMap(ResetStale(s, ts), Tasks, Stored)
           /\ DOMAIN ResetStale(s, ts) = DOMAIN s
BY DEF IsMap, ResetStale, Stored, Statuses, Outcomes

LEMMA ScheduleTaskLockedType ==
    ASSUME NEW sch, IsMap(sch, Tasks, Entry), NEW t \in Tasks, NEW def \in Definition
    PROVE  IsMap(ScheduleTaskLocked(sch, t, def), Tasks, Entry)
<1>1. [def |-> def, phase |-> "early"] \in Entry
  BY DEF Entry, Phases
<1>. QED
  BY <1>1, PutIsMap DEF ScheduleTaskLocked

LEMMA NewRunType ==
    ASSUME NEW t \in Tasks, Free(t) # {}
    PROVE  /\ NewRun(t) \in Tasks \X Gens
           /\ NewRun(t)[1] = t
           /\ NewRun(t) \notin DOMAIN runs
<1>1. PICK g \in Gens : g \in Free(t)
  BY DEF Free
<1>. QED
  BY <1>1 DEF NewRun, Free

LEMMA StartingType ==
    ASSUME NEW def \in Definition, NEW trigger \in {"schedule", "run_now"}
    PROVE  Starting(def, trigger) \in Run
BY DEF Starting, Run, Stages, Outcomes

-----------------------------------------------------------------------------
(* Type correctness.                                                       *)

LEMMA InitTypeOK == Init => TypeOK
<1>. SUFFICES ASSUME Init PROVE TypeOK
  OBVIOUS
<1>1. IsMap(store, Tasks, Stored)
  BY InitialStoresAssumption DEF Init
<1>. QED
  BY <1>1, NoMapIsMap DEF Init, TypeOK, Phases, IsMap

LEMMA NextTypeOK == TypeOK /\ [Next]_vars => TypeOK'
<1>. SUFFICES ASSUME TypeOK, [Next]_vars PROVE TypeOK'
  OBVIOUS
<1>. USE DEF TypeOK
<1>1. CASE Clock
  <2>1. ASSUME NEW i \in Instants, InstantPasses(i) PROVE TypeOK'
    BY <2>1 DEF InstantPasses, Later, Phases
  <2>2. ASSUME NEW t \in Tasks, EntryAges(t) PROVE TypeOK'
    <3>1. [schedule[t] EXCEPT !.phase = Later(@)] \in Entry
      BY <2>2 DEF EntryAges, IsMap, Entry, Later, Phases
    <3>2. IsMap(schedule, Tasks, Entry)'
      BY <2>2, <3>1, ExceptIsMap DEF EntryAges
    <3>. QED
      BY <2>2, <3>2 DEF EntryAges
  <2>. QED
    BY <1>1, <2>1, <2>2 DEF Clock
<1>2. CASE CheckAndFireTasks
  <2>. DEFINE finished == {t \in ToSkip : schedule[t].def.kind = "once"}
              started  == {NewRun(t) : t \in ToFire}
  <2>1. ToSkip \subseteq DOMAIN schedule /\ ToFire \subseteq DOMAIN schedule
    BY DEF ToSkip, ToFire, Due
  <2>2. DOMAIN schedule \subseteq Tasks
    BY DEF IsMap
  <2>3. \A t \in DOMAIN schedule : schedule[t] \in Entry
    BY DEF IsMap
  <2>4. IsMap(store, Tasks, Stored)' /\ DOMAIN store' = DOMAIN store
    BY <1>2, SetEnabledType DEF CheckAndFireTasks
  <2>5. IsMap(schedule, Tasks, Entry)'
    <3>1. \A t \in DOMAIN schedule : [schedule[t] EXCEPT !.phase = "early"] \in Entry
      BY <2>3 DEF Entry, Phases
    <3>. QED
      BY <1>2, <2>2, <2>3, <3>1 DEF CheckAndFireTasks, IsMap
  <2>6. IsMap(runs, Tasks \X Gens, Run)'
    <3>1. \A t \in ToFire : NewRun(t) \in Tasks \X Gens /\ NewRun(t)[1] = t
      BY <1>2, <2>1, <2>2, NewRunType DEF CheckAndFireTasks
    <3>2. \A r \in started : /\ r \in Tasks \X Gens
                             /\ Starting(schedule[r[1]].def, "schedule") \in Run
      BY <2>1, <2>3, <3>1, StartingType DEF Entry
    <3>. QED
      BY <1>2, <3>2 DEF CheckAndFireTasks, IsMap
  <2>7. onceFired' \in SUBSET (Tasks \X Instants)
    BY <1>2, <2>1, <2>2, <2>3 DEF CheckAndFireTasks, Entry, Definition
  <2>8. running' \in SUBSET Tasks
    BY <1>2, <2>1, <2>2 DEF CheckAndFireTasks
  <2>. QED
    BY <1>2, <2>4, <2>5, <2>6, <2>7, <2>8 DEF CheckAndFireTasks
<1>3. ASSUME NEW c \in Clients, FirstHalf(c) PROVE TypeOK'
  <2>1. ASSUME NEW t \in Tasks, NEW def \in Definitions, NEW status \in Carried,
               Create(c, t, def, status)
        PROVE  TypeOK'
    <3>1. def \in Definition /\ status \in Statuses
      BY DefinitionsAssumption, CarriedAssumption
    <3>2. [def |-> def, status |-> status] \in Stored
      BY <3>1 DEF Stored
    <3>3. IsMap(store, Tasks, Stored)'
      BY <2>1, <3>2, PutIsMap DEF Create
    <3>4. DOMAIN store' = DOMAIN store \cup {t}
      BY <2>1 DEF Create, Put
    <3>5. (DOMAIN store \subseteq born)' /\ unsure' \in SUBSET DOMAIN store'
      BY <2>1, <3>4 DEF Create
    <3>6. IsMap(requests, Clients, Request)'
      BY <2>1, <3>1, PutIsMap DEF Create, Begin, Request
    <3>. QED
      BY <2>1, <3>3, <3>5, <3>6 DEF Create
  <2>2. ASSUME NEW t \in Tasks, NEW def \in Definitions, NEW status \in Carried,
               Update(c, t, def, status)
        PROVE  TypeOK'
    <3>1. def \in Definition /\ status \in Statuses
      BY DefinitionsAssumption, CarriedAssumption
    <3>2. [def |-> def, status |-> IF status = "none" THEN store[t].status ELSE status]
            \in Stored
      BY <2>2, <3>1 DEF Update, IsMap, Stored
    <3>3. IsMap(store, Tasks, Stored)' /\ DOMAIN store' = DOMAIN store
      BY <2>2, <3>2, ExceptIsMap DEF Update
    <3>4. unsure' \in SUBSET DOMAIN store'
      BY <2>2, <3>3 DEF Update
    <3>5. IsMap(requests, Clients, Request)'
      BY <2>2, <3>1, PutIsMap DEF Update, Begin, Request
    <3>. QED
      BY <2>2, <3>3, <3>4, <3>5 DEF Update
  <2>3. ASSUME NEW t \in Tasks, Unschedule(c, t) PROVE TypeOK'
    <3>1. IsMap(requests, Clients, Request)'
      BY <2>3, PutIsMap DEF Unschedule, Begin, Request
    <3>. QED
      BY <2>3, <3>1, WithoutIsMap DEF Unschedule
  <2>4. ASSUME NEW t \in Tasks, ReadForRun(c, t) PROVE TypeOK'
    <3>1. store[t].def \in Definition
      BY <2>4 DEF ReadForRun, IsMap, Stored
    <3>2. IsMap(requests, Clients, Request)'
      BY <2>4, <3>1, PutIsMap DEF ReadForRun, Begin, Request
    <3>. QED
      BY <2>4, <3>2 DEF ReadForRun
  <2>5. ASSUME NEW p \in Projects, UnscheduleByProject(c, p) PROVE TypeOK'
    <3>1. IsMap(requests, Clients, Request)'
      BY <2>5, PutIsMap DEF UnscheduleByProject, Begin, Request
    <3>. QED
      BY <2>5, <3>1, WithoutIsMap DEF UnscheduleByProject
  <2>. QED
    BY <1>3, <2>1, <2>2, <2>3, <2>4, <2>5 DEF FirstHalf
<1>4. ASSUME NEW c \in Clients, SecondHalf(c) PROVE TypeOK'
  <2>1. c \in DOMAIN requests => requests[c] \in Request
    BY DEF IsMap
  <2>2. CASE ScheduleTask(c)
    <3>1. requests[c].task \in Tasks /\ requests[c].def \in Definition
      BY <2>1, <2>2 DEF ScheduleTask, Pending, Request
    <3>2. IsMap(schedule, Tasks, Entry)'
      BY <2>2, <3>1, ScheduleTaskLockedType, WithoutIsMap DEF ScheduleTask
    <3>. QED
      BY <2>2, <3>2, WithoutIsMap DEF ScheduleTask, End
  <2>3. CASE Delete(c)
    <3>1. store' = store \/ store' = Without(store, {requests[c].task})
      BY <2>3 DEF Delete
    <3>2. IsMap(store, Tasks, Stored)' /\ DOMAIN store' \subseteq DOMAIN store
      BY <3>1 DEF Without, IsMap
    <3>3. unsure' \in SUBSET DOMAIN store'
      BY <2>3 DEF Delete
    <3>. QED
      BY <2>3, <3>2, <3>3, WithoutIsMap DEF Delete, End
  <2>4. CASE DeleteByProject(c)
    <3>1. PICK gone : store' = store \/ store' = Without(store, gone)
      BY <2>4 DEF DeleteByProject
    <3>2. IsMap(store, Tasks, Stored)' /\ DOMAIN store' \subseteq DOMAIN store
      BY <3>1 DEF Without, IsMap
    <3>3. unsure' \in SUBSET DOMAIN store'
      BY <2>4 DEF DeleteByProject
    <3>. QED
      BY <2>4, <3>2, <3>3, WithoutIsMap DEF DeleteByProject, End
  <2>5. CASE Claim(c)
    <3>1. requests[c].task \in Tasks /\ requests[c].def \in Definition
      BY <2>1, <2>5 DEF Claim, Pending, Request
    <3>2. IsMap(runs, Tasks \X Gens, Run)' /\ running' \in SUBSET Tasks
      BY <2>5, <3>1, NewRunType, StartingType, PutIsMap DEF Claim
    <3>. QED
      BY <2>5, <3>2, WithoutIsMap DEF Claim, End
  <2>. QED
    BY <1>4, <2>2, <2>3, <2>4, <2>5 DEF SecondHalf
<1>5. ASSUME NEW r \in Tasks \X Gens, RunStep(r) PROVE TypeOK'
  <2>1. r \in DOMAIN runs => runs[r] \in Run
    BY DEF IsMap
  <2>2. ASSUME r \in DOMAIN runs, NEW stage \in Stages, Goto(r, stage)
        PROVE  IsMap(runs, Tasks \X Gens, Run)'
    <3>1. [runs[r] EXCEPT !.stage = stage] \in Run
      BY <2>1, <2>2 DEF Run
    <3>. QED
      BY <2>2, <3>1, ExceptIsMap DEF Goto
  <2>3. r[1] \in Tasks
    OBVIOUS
  <2>4. CASE MarkRunning(r)
    <3>1. Record(r[1], "running") /\ "running" \in Statuses
      BY <2>4 DEF MarkRunning, Statuses
    <3>2. IsMap(runs, Tasks \X Gens, Run)'
      BY <2>2, <2>4 DEF MarkRunning, At, Stages
    <3>. QED
      BY <2>4, <3>1, <3>2, RecordType DEF MarkRunning
  <2>5. CASE RunBody(r)
    <3>1. PICK outcome \in Outcomes :
            runs' = [runs EXCEPT ![r].stage = "final", ![r].outcome = outcome]
      BY <2>5 DEF RunBody
    <3>2. [runs[r] EXCEPT !.stage = "final", !.outcome = outcome] \in Run
      BY <2>1, <2>5 DEF RunBody, At, Run, Stages
    <3>3. IsMap(runs, Tasks \X Gens, Run)'
      BY <2>5, <3>1, <3>2 DEF RunBody, At, IsMap
    <3>. QED
      BY <2>5, <3>3 DEF RunBody
  <2>6. CASE RecordOutcome(r)
    <3>1. runs[r].outcome \in Statuses
      BY <2>1, <2>6 DEF RecordOutcome, At, Run, Statuses
    <3>2. Record(r[1], runs[r].outcome)
      BY <2>6 DEF RecordOutcome
    <3>3. IsMap(runs, Tasks \X Gens, Run)'
      BY <2>2, <2>6 DEF RecordOutcome, At, Stages
    <3>. QED
      BY <2>6, <3>1, <3>2, <3>3, RecordType DEF RecordOutcome
  <2>7. CASE Reread(r)
    <3>1. NextStage(r[1]) \in Stages
      BY <2>7 DEF Reread, NextStage, Stages, IsMap, Stored, Definition, Kinds
    <3>2. ASSUME runs' = [runs EXCEPT
                            ![r].stage = NextStage(r[1]),
                            ![r].def = IF r[1] \in DOMAIN store
                                       THEN store[r[1]].def ELSE @]
          PROVE  IsMap(runs, Tasks \X Gens, Run)'
      <4>1. (r[1] \in DOMAIN store) => store[r[1]].def \in Definition
        BY DEF IsMap, Stored
      <4>. QED
        BY <2>1, <2>7, <3>1, <3>2, <4>1 DEF Reread, At, Run, IsMap
    <3>3. IsMap(runs, Tasks \X Gens, Run)'
      BY <2>2, <2>7, <3>2 DEF Reread, At, Stages
    <3>. QED
      BY <2>7, <3>3 DEF Reread
  <2>8. CASE DisableOnce(r)
    BY <2>2, <2>8, SetEnabledType DEF DisableOnce, At, Stages
  <2>9. CASE DropOnce(r)
    BY <2>2, <2>9, WithoutIsMap DEF DropOnce, At, Stages
  <2>10. CASE Rearm(r)
    <3>1. runs[r].def \in Definition
      BY <2>1, <2>10 DEF Rearm, At, Run
    <3>2. IsMap(schedule, Tasks, Entry)'
      BY <2>3, <2>10, <3>1, ScheduleTaskLockedType DEF Rearm
    <3>. QED
      BY <2>2, <2>10, <3>2 DEF Rearm, At, Stages
  <2>11. CASE Release(r)
    BY <2>11, WithoutIsMap DEF Release
  <2>. QED
    BY <1>5, <2>4, <2>5, <2>6, <2>7, <2>8, <2>9, <2>10, <2>11 DEF RunStep
<1>6. CASE LoadAllTasks
  <2>. DEFINE loaded == {t \in DOMAIN store : store[t].def.enabled
                                             /\ HasNextRun(store[t].def)}
  <2>1. IsMap([t \in loaded |-> [def |-> store[t].def, phase |-> "early"]], Tasks, Entry)
    BY DEF IsMap, Stored, Entry, Phases
  <2>2. IsMap(schedule, Tasks, Entry)'
    BY <1>6, <2>1 DEF LoadAllTasks
  <2>3. IsMap(store, Tasks, Stored)' /\ DOMAIN store' = DOMAIN store
    BY <1>6, ResetStaleType DEF LoadAllTasks
  <2>4. unsure' \in SUBSET DOMAIN store'
    BY <1>6, <2>3 DEF LoadAllTasks, Stale
  <2>. QED
    BY <1>6, <2>2, <2>3, <2>4 DEF LoadAllTasks
<1>7. CASE Stop
  BY <1>7, NoMapIsMap DEF Stop
<1>8. CASE Exit
  BY <1>8, NoMapIsMap DEF Exit
<1>9. CASE UNCHANGED vars
  BY <1>9 DEF vars
<1>. QED
  BY <1>1, <1>2, <1>3, <1>4, <1>5, <1>6, <1>7, <1>8, <1>9 DEF Next

\* Every reachable state is well typed: for any number of tasks and clients the
\* handlers, runs and ticks keep the maps of Scheduler and the task file in shape.
THEOREM TypeCorrect == Spec => []TypeOK
<1>. QED
  BY InitTypeOK, NextTypeOK, PTL DEF Spec

-----------------------------------------------------------------------------
(* Claims.                                                                 *)

\* NoOverlap is not inductive alone: it says nothing of a process that is down,
\* and LoadAllTasks brings one up.
ClaimInv ==
    /\ NoOverlap
    /\ proc = "down" => DOMAIN runs = {} /\ running = {}

LEMMA InitClaimInv == Init => ClaimInv
BY DEF Init, ClaimInv, NoOverlap, NoMap

\* A step that leaves the two maps of claims alone.
LEMMA SameClaims ==
    ASSUME ClaimInv, UNCHANGED running, DOMAIN runs' = DOMAIN runs, UNCHANGED proc
    PROVE  ClaimInv'
BY DEF ClaimInv, NoOverlap

\* Runs of tasks that are not claimed, started and claimed in one step.
LEMMA NewClaims ==
    ASSUME ClaimInv, NEW ts \in SUBSET Tasks, ts \cap running = {},
           \A t \in ts : NewRun(t)[1] = t,
           Alive, UNCHANGED proc,
           running' = running \cup ts,
           DOMAIN runs' = DOMAIN runs \cup {NewRun(t) : t \in ts}
    PROVE  ClaimInv'
<1>. SUFFICES ASSUME proc = "up" PROVE NoOverlap'
  BY DEF ClaimInv, Alive, NoOverlap
<1>1. /\ running = {r[1] : r \in DOMAIN runs}
      /\ \A r1, r2 \in DOMAIN runs : r1[1] = r2[1] => r1 = r2
  BY DEF ClaimInv, NoOverlap
<1>2. \A t \in ts, r \in DOMAIN runs : r[1] # t
  BY <1>1
<1>3. running' = {r[1] : r \in DOMAIN runs'}
  BY <1>1
<1>4. \A r1, r2 \in DOMAIN runs' : r1[1] = r2[1] => r1 = r2
  BY <1>1, <1>2
<1>. QED
  BY <1>3, <1>4 DEF NoOverlap

LEMMA NextClaimInv == TypeOK /\ ClaimInv /\ [Next]_vars => ClaimInv'
<1>. SUFFICES ASSUME TypeOK, ClaimInv, [Next]_vars PROVE ClaimInv'
  OBVIOUS
<1>1. CASE Clock
  BY <1>1, SameClaims DEF Clock, InstantPasses, EntryAges
<1>2. CASE CheckAndFireTasks
  <2>1. ToFire \in SUBSET Tasks /\ ToFire \cap running = {}
    BY DEF TypeOK, IsMap, ToFire, Due
  <2>2. \A t \in ToFire : NewRun(t)[1] = t
    BY <1>2, <2>1, NewRunType DEF CheckAndFireTasks
  <2>3. DOMAIN runs' = DOMAIN runs \cup {NewRun(t) : t \in ToFire}
    BY <1>2 DEF CheckAndFireTasks
  <2>. QED
    BY <1>2, <2>1, <2>2, <2>3, NewClaims DEF CheckAndFireTasks
<1>3. ASSUME NEW c \in Clients, FirstHalf(c) PROVE ClaimInv'
  BY <1>3, SameClaims
     DEF FirstHalf, Create, Update, Unschedule, ReadForRun, UnscheduleByProject
<1>4. ASSUME NEW c \in Clients, SecondHalf(c) PROVE ClaimInv'
  <2>1. CASE Claim(c)
    <3>1. CASE requests[c].task \in running
      BY <2>1, <3>1, SameClaims DEF Claim
    <3>2. CASE requests[c].task \notin running
      <4>. DEFINE t == requests[c].task
      <4>1. c \in DOMAIN requests => requests[c] \in Request
        BY DEF TypeOK, IsMap
      <4>2. t \in Tasks
        BY <2>1, <4>1 DEF Claim, Pending, Request
      <4>3. \A u \in {t} : NewRun(u)[1] = u
        BY <2>1, <3>2, <4>2, NewRunType DEF Claim
      <4>4. DOMAIN runs' = DOMAIN runs \cup {NewRun(u) : u \in {t}}
        BY <2>1, <3>2 DEF Claim, Put
      <4>5. {t} \in SUBSET Tasks /\ {t} \cap running = {}
        BY <3>2, <4>2
      <4>6. running' = running \cup {t} /\ Alive /\ UNCHANGED proc
        BY <2>1, <3>2 DEF Claim, Pending
      <4>. HIDE DEF t
      <4>. QED
        BY <4>3, <4>4, <4>5, <4>6, NewClaims
    <3>. QED
      BY <3>1, <3>2
  <2>2. CASE ScheduleTask(c) \/ Delete(c) \/ DeleteByProject(c)
    BY <2>2, SameClaims DEF ScheduleTask, Delete, DeleteByProject
  <2>. QED
    BY <1>4, <2>1, <2>2 DEF SecondHalf
<1>5. ASSUME NEW r \in Tasks \X Gens, RunStep(r) PROVE ClaimInv'
  <2>1. CASE Release(r)
    BY <2>1 DEF Release, At, Alive, Without, ClaimInv, NoOverlap
  <2>2. CASE MarkRunning(r) \/ RecordOutcome(r) \/ DisableOnce(r) \/ DropOnce(r)
             \/ Rearm(r)
    BY <2>2, SameClaims
       DEF MarkRunning, RecordOutcome, DisableOnce, DropOnce, Rearm, Goto
  <2>3. CASE RunBody(r) \/ Reread(r)
    BY <2>3, SameClaims DEF RunBody, Reread, Goto
  <2>. QED
    BY <1>5, <2>1, <2>2, <2>3 DEF RunStep
<1>6. CASE LoadAllTasks
  BY <1>6 DEF LoadAllTasks, ClaimInv, NoOverlap
<1>7. CASE Stop \/ Exit
  BY <1>7 DEF Stop, Exit, NoMap, ClaimInv, NoOverlap
<1>8. CASE UNCHANGED vars
  BY <1>8, SameClaims DEF vars
<1>. QED
  BY <1>1, <1>2, <1>3, <1>4, <1>5, <1>6, <1>7, <1>8 DEF Next

\* Two runs of one task never live together, however many clients ask for one and
\* whatever the tick does, until Stop empties the set that keeps them apart.
THEOREM OneRunPerTask == Spec => []NoOverlap
<1>1. TypeOK /\ ClaimInv /\ [Next]_vars => (TypeOK /\ ClaimInv)'
  BY NextTypeOK, NextClaimInv
<1>2. ClaimInv => NoOverlap
  BY DEF ClaimInv
<1>. QED
  BY <1>1, <1>2, InitTypeOK, InitClaimInv, PTL DEF Spec

-----------------------------------------------------------------------------
(* Ids.                                                                    *)

\* Nothing in memory names a task that never existed: a task that is created now
\* has no run yet.
IdsKnown ==
    /\ DOMAIN schedule \subseteq born
    /\ \A r \in DOMAIN runs : r[1] \in born
    /\ \A c \in DOMAIN requests :
          requests[c].op # "deleteProject" => requests[c].task \in born

LEMMA InitIdsKnown == Init => IdsKnown
BY DEF Init, IdsKnown, NoMap

\* A step that adds nothing to the three maps.
LEMMA FewerIds ==
    ASSUME IdsKnown, born \subseteq born',
           DOMAIN schedule' \subseteq DOMAIN schedule,
           DOMAIN runs' \subseteq DOMAIN runs,
           DOMAIN requests' \subseteq DOMAIN requests,
           \A c \in DOMAIN requests' : requests'[c] = requests[c]
    PROVE  IdsKnown'
BY DEF IdsKnown

\* The first half of a request.
LEMMA NewRequestIds ==
    ASSUME IdsKnown, NEW c \in Clients, NEW request, Begin(c, request),
           request.op # "deleteProject" => request.task \in born',
           born \subseteq born',
           DOMAIN schedule' \subseteq DOMAIN schedule,
           UNCHANGED runs
    PROVE  IdsKnown'
BY DEF IdsKnown, Begin, Put

LEMMA NextIdsKnown == TypeOK /\ IdsKnown /\ [Next]_vars => IdsKnown'
<1>. SUFFICES ASSUME TypeOK, IdsKnown, [Next]_vars PROVE IdsKnown'
  OBVIOUS
<1>1. CASE Clock
  BY <1>1, FewerIds DEF Clock, InstantPasses, EntryAges
<1>2. CASE CheckAndFireTasks
  <2>1. ToFire \subseteq DOMAIN schedule /\ DOMAIN schedule \subseteq Tasks
    BY DEF ToFire, Due, TypeOK, IsMap
  <2>2. \A t \in ToFire : NewRun(t)[1] = t
    BY <1>2, <2>1, NewRunType DEF CheckAndFireTasks
  <2>3. DOMAIN runs' = DOMAIN runs \cup {NewRun(t) : t \in ToFire}
    BY <1>2 DEF CheckAndFireTasks
  <2>4. \A r \in DOMAIN runs' : r[1] \in born'
    BY <1>2, <2>1, <2>2, <2>3 DEF CheckAndFireTasks, IdsKnown
  <2>. QED
    BY <1>2, <2>4 DEF CheckAndFireTasks, IdsKnown
<1>3. ASSUME NEW c \in Clients, FirstHalf(c) PROVE IdsKnown'
  <2>1. ASSUME NEW t \in Tasks, NEW def \in Definitions, NEW status \in Carried,
               Create(c, t, def, status) \/ Update(c, t, def, status)
        PROVE  IdsKnown'
    BY <2>1, NewRequestIds DEF Create, Update, TypeOK
  <2>2. ASSUME NEW t \in Tasks, Unschedule(c, t) \/ ReadForRun(c, t) PROVE IdsKnown'
    <3>1. t \in born /\ UNCHANGED <<born, runs>>
      BY <2>2 DEF Unschedule, ReadForRun, TypeOK, IdsKnown
    <3>2. DOMAIN schedule' \subseteq DOMAIN schedule
      BY <2>2 DEF Unschedule, ReadForRun, Without
    <3>. QED
      BY <2>2, <3>1, <3>2, NewRequestIds DEF Unschedule, ReadForRun
  <2>3. ASSUME NEW p \in Projects, UnscheduleByProject(c, p) PROVE IdsKnown'
    BY <2>3, NewRequestIds DEF UnscheduleByProject, Without
  <2>. QED
    BY <1>3, <2>1, <2>2, <2>3 DEF FirstHalf
<1>4. ASSUME NEW c \in Clients, SecondHalf(c) PROVE IdsKnown'
  <2>1. c \in DOMAIN requests => requests[c] \in Request
    BY DEF TypeOK, IsMap
  <2>2. CASE ScheduleTask(c)
    <3>1. requests[c].task \in born
      BY <2>2 DEF ScheduleTask, Pending, IdsKnown
    <3>2. DOMAIN schedule' \subseteq DOMAIN schedule \cup {requests[c].task}
      BY <2>2 DEF ScheduleTask, ScheduleTaskLocked, Put, Without
    <3>. QED
      BY <2>2, <3>1, <3>2 DEF ScheduleTask, End, Without, IdsKnown
  <2>3. CASE Delete(c) \/ DeleteByProject(c)
    BY <2>3, FewerIds DEF Delete, DeleteByProject, End, Without
  <2>4. CASE Claim(c)
    <3>1. requests[c].task \in Tasks /\ requests[c].task \in born
      BY <2>1, <2>4 DEF Claim, Pending, Request, IdsKnown
    <3>2. \A r \in DOMAIN runs' : r[1] \in born'
      BY <2>4, <3>1, NewRunType DEF Claim, Put, IdsKnown
    <3>. QED
      BY <2>4, <3>2 DEF Claim, End, Without, IdsKnown
  <2>. QED
    BY <1>4, <2>2, <2>3, <2>4 DEF SecondHalf
<1>5. ASSUME NEW r \in Tasks \X Gens, RunStep(r) PROVE IdsKnown'
  <2>1. CASE Rearm(r)
    <3>1. DOMAIN schedule' \subseteq DOMAIN schedule \cup {r[1]} /\ r[1] \in born
      BY <2>1 DEF Rearm, At, ScheduleTaskLocked, Put, IdsKnown
    <3>. QED
      BY <2>1, <3>1 DEF Rearm, Goto, IdsKnown
  <2>2. CASE \/ MarkRunning(r) \/ RunBody(r) \/ RecordOutcome(r) \/ Reread(r)
             \/ DisableOnce(r) \/ DropOnce(r) \/ Release(r)
    BY <2>2, FewerIds
       DEF MarkRunning, RunBody, RecordOutcome, Reread, DisableOnce, DropOnce,
           Release, Goto, Without
  <2>. QED
    BY <1>5, <2>1, <2>2 DEF RunStep
<1>6. CASE LoadAllTasks
  <2>1. DOMAIN schedule' \subseteq born
    BY <1>6 DEF LoadAllTasks, TypeOK, IdsKnown
  <2>. QED
    BY <1>6, <2>1 DEF LoadAllTasks, IdsKnown
<1>7. CASE Stop \/ Exit
  BY <1>7 DEF Stop, Exit, NoMap, IdsKnown
<1>8. CASE UNCHANGED vars
  BY <1>8, FewerIds DEF vars
<1>. QED
  BY <1>1, <1>2, <1>3, <1>4, <1>5, <1>6, <1>7, <1>8 DEF Next

-----------------------------------------------------------------------------
(* The status in the file.                                                 *)

StatusInv == TypeOK /\ ClaimInv /\ IdsKnown /\ StatusTracksRun

\* A step that keeps the statuses of the tasks that are left, but for those that
\* become unsure, and moves no run across the two SetLastRun calls.
LEMMA SameProgress ==
    ASSUME StatusTracksRun,
           \A t \in DOMAIN store' \ unsure' :
               t \in DOMAIN store \ unsure /\ store'[t].status = store[t].status,
           InProgress' = InProgress,
           UNCHANGED proc
    PROVE  StatusTracksRun'
BY DEF StatusTracksRun

\* A step of run r that leaves it in, or out of, the stages in progress.
LEMMA GotoKeepsProgress ==
    ASSUME TypeOK, NEW r \in DOMAIN runs, NEW stage, Goto(r, stage),
           runs[r].stage \in {"body", "final"} <=> stage \in {"body", "final"}
    PROVE  InProgress' = InProgress
<1>1. DOMAIN runs' = DOMAIN runs
  BY DEF Goto
<1>2. \A q \in DOMAIN runs :
        runs'[q].stage = IF q = r THEN stage ELSE runs[q].stage
  BY DEF Goto, TypeOK, IsMap, Run
<1>. QED
  BY <1>1, <1>2 DEF InProgress

LEMMA SetEnabledStatus ==
    ASSUME TypeOK, NEW ts
    PROVE  \A t \in DOMAIN store : SetEnabled(store, ts)[t].status = store[t].status
BY DEF TypeOK, IsMap, Stored, SetEnabled

LEMMA SetLastRunStatus ==
    ASSUME TypeOK, NEW t \in Tasks, NEW status
    PROVE  /\ DOMAIN SetLastRun(store, t, status) = DOMAIN store
           /\ \A u \in DOMAIN store :
                 SetLastRun(store, t, status)[u].status =
                     IF u = t THEN status ELSE store[u].status
BY DEF TypeOK, IsMap, Stored, SetLastRun

\* A write of the status says what it should or leaves the task unsure.
LEMMA RecordStatus ==
    ASSUME TypeOK, NEW t \in Tasks, NEW status, Record(t, status)
    PROVE  /\ DOMAIN store' = DOMAIN store
           /\ t \in DOMAIN store \ unsure' => store'[t].status = status
           /\ \A u \in DOMAIN store \ {t} :
                 store'[u].status = store[u].status /\ (u \in unsure' <=> u \in unsure)
<1>1. PICK failed \in MayFail :
        /\ store' = IF failed THEN store ELSE SetLastRun(store, t, status)
        /\ unsure' = IF failed THEN unsure \cup ({t} \cap DOMAIN store) ELSE unsure \ {t}
  BY DEF Record
<1>2. CASE failed
  BY <1>1, <1>2
<1>3. CASE ~failed
  BY <1>1, <1>3, SetLastRunStatus
<1>. QED
  BY <1>2, <1>3

\* What a run's two writes do to the status, seen from the runs in progress.
LEMMA MarkStarts ==
    ASSUME TypeOK, NEW r \in Tasks \X Gens, MarkRunning(r)
    PROVE  InProgress' = InProgress \cup {r}
<1>. QED
  BY DEF MarkRunning, At, Goto, InProgress, TypeOK, IsMap, Run

LEMMA RecordEnds ==
    ASSUME TypeOK, NEW r \in Tasks \X Gens, RecordOutcome(r)
    PROVE  r \in InProgress /\ InProgress' = InProgress \ {r}
<1>. QED
  BY DEF RecordOutcome, At, Goto, InProgress, TypeOK, IsMap, Run

LEMMA NextStatusTracksRun == StatusInv /\ [Next]_vars => StatusTracksRun'
<1>. SUFFICES ASSUME StatusInv, [Next]_vars PROVE StatusTracksRun'
  OBVIOUS
<1>. USE DEF StatusInv
<1>1. CASE Clock
  BY <1>1, SameProgress DEF Clock, InstantPasses, EntryAges, InProgress
<1>2. CASE CheckAndFireTasks
  <2>1. ToFire \subseteq Tasks
    BY DEF ToFire, Due, TypeOK, IsMap
  <2>2. \A t \in ToFire : NewRun(t) \notin DOMAIN runs
    BY <1>2, <2>1, NewRunType DEF CheckAndFireTasks
  <2>3. InProgress' = InProgress
    BY <1>2, <2>2 DEF CheckAndFireTasks, InProgress, Starting
  <2>4. \A t \in DOMAIN store' :
           t \in DOMAIN store /\ store'[t].status = store[t].status
    BY <1>2, SetEnabledStatus DEF CheckAndFireTasks, SetEnabled
  <2>. QED
    BY <1>2, <2>3, <2>4, SameProgress DEF CheckAndFireTasks
<1>3. ASSUME NEW c \in Clients, FirstHalf(c) PROVE StatusTracksRun'
  <2>1. UNCHANGED <<runs, proc>>
    BY <1>3 DEF FirstHalf, Create, Update, Unschedule, ReadForRun, UnscheduleByProject
  <2>2. InProgress' = InProgress
    BY <2>1 DEF InProgress
  <2>3. ASSUME NEW t \in Tasks, NEW def \in Definitions, NEW status \in Carried,
               Create(c, t, def, status)
        PROVE  StatusTracksRun'
    <3>1. \A r \in InProgress : r[1] # t
      BY <2>3 DEF Create, InProgress, IdsKnown
    <3>2. DOMAIN store' = DOMAIN store \cup {t} /\ store'[t].status = status
      BY <2>3 DEF Create, Put
    <3>3. \A u \in DOMAIN store \ {t} : store'[u] = store[u]
      BY <2>3 DEF Create, Put
    <3>4. unsure \subseteq unsure' /\ (t \in unsure' \/ status = "none")
      BY <2>3 DEF Create
    <3>. QED
      BY <2>1, <2>2, <3>1, <3>2, <3>3, <3>4 DEF StatusTracksRun
  <2>4. ASSUME NEW t \in Tasks, NEW def \in Definitions, NEW status \in Carried,
               Update(c, t, def, status)
        PROVE  StatusTracksRun'
    <3>1. DOMAIN store' = DOMAIN store /\ unsure \subseteq unsure'
      BY <2>4 DEF Update
    <3>2. \A u \in DOMAIN store \ {t} : store'[u] = store[u]
      BY <2>4 DEF Update
    <3>3. t \in unsure' \/ store'[t].status = store[t].status
      BY <2>4 DEF Update
    <3>. QED
      BY <2>1, <2>2, <3>1, <3>2, <3>3, SameProgress
  <2>5. CASE UNCHANGED <<store, unsure>>
    BY <2>1, <2>2, <2>5, SameProgress
  <2>. QED
    BY <1>3, <2>3, <2>4, <2>5 DEF FirstHalf, Unschedule, ReadForRun, UnscheduleByProject
<1>4. ASSUME NEW c \in Clients, SecondHalf(c) PROVE StatusTracksRun'
  <2>1. CASE ScheduleTask(c)
    BY <2>1, SameProgress DEF ScheduleTask, InProgress
  <2>2. CASE Delete(c) \/ DeleteByProject(c)
    <3>1. \A t \in DOMAIN store' \ unsure' :
             t \in DOMAIN store \ unsure /\ store'[t].status = store[t].status
      BY <2>2 DEF Delete, DeleteByProject, Without
    <3>. QED
      BY <2>2, <3>1, SameProgress DEF Delete, DeleteByProject, InProgress
  <2>3. CASE Claim(c)
    <3>1. c \in DOMAIN requests => requests[c] \in Request
      BY DEF TypeOK, IsMap
    <3>2. requests[c].task \in Tasks
      BY <2>3, <3>1 DEF Claim, Pending, Request
    <3>3. InProgress' = InProgress
      BY <2>3, <3>2, NewRunType DEF Claim, InProgress, Put, Starting
    <3>. QED
      BY <2>3, <3>3, SameProgress DEF Claim
  <2>. QED
    BY <1>4, <2>1, <2>2, <2>3 DEF SecondHalf
<1>5. ASSUME NEW r \in Tasks \X Gens, RunStep(r) PROVE StatusTracksRun'
  <2>1. CASE MarkRunning(r)
    <3>1. Record(r[1], "running") /\ UNCHANGED proc
      BY <2>1 DEF MarkRunning
    <3>. QED
      BY <2>1, <3>1, MarkStarts, RecordStatus DEF StatusTracksRun
  <2>2. CASE RecordOutcome(r)
    <3>1. Record(r[1], runs[r].outcome) /\ UNCHANGED proc
      BY <2>2 DEF RecordOutcome
    <3>2. runs[r].outcome # "running"
      BY <2>2 DEF RecordOutcome, At, TypeOK, IsMap, Run, Outcomes
    <3>3. proc = "up" => \A q \in InProgress : q[1] = r[1] => q = r
      BY <2>2, RecordEnds DEF InProgress, ClaimInv, NoOverlap
    <3>. QED
      BY <2>2, <3>1, <3>2, <3>3, RecordEnds, RecordStatus DEF StatusTracksRun
  <2>3. CASE RunBody(r)
    <3>1. InProgress' = InProgress
      BY <2>3 DEF RunBody, At, InProgress, TypeOK, IsMap, Run
    <3>. QED
      BY <2>3, <3>1, SameProgress DEF RunBody
  <2>4. CASE Reread(r)
    <3>1. Goto(r, "release") => InProgress' = InProgress
      BY <2>4, GotoKeepsProgress DEF Reread, At
    <3>2. NextStage(r[1]) \notin {"body", "final"}
      BY DEF NextStage, TypeOK, IsMap, Stored, Definition, Kinds
    <3>3. InProgress' = InProgress
      BY <2>4, <3>1, <3>2 DEF Reread, At, InProgress, TypeOK, IsMap, Run
    <3>. QED
      BY <2>4, <3>3, SameProgress DEF Reread
  <2>5. CASE DisableOnce(r)
    <3>1. InProgress' = InProgress
      BY <2>5, GotoKeepsProgress DEF DisableOnce, At
    <3>2. \A t \in DOMAIN store' :
             t \in DOMAIN store /\ store'[t].status = store[t].status
      BY <2>5, SetEnabledStatus DEF DisableOnce, SetEnabled
    <3>. QED
      BY <2>5, <3>1, <3>2, SameProgress DEF DisableOnce
  <2>6. CASE DropOnce(r) \/ Rearm(r)
    <3>1. InProgress' = InProgress
      BY <2>6, GotoKeepsProgress DEF DropOnce, Rearm, At
    <3>. QED
      BY <2>6, <3>1, SameProgress DEF DropOnce, Rearm
  <2>7. CASE Release(r)
    <3>1. InProgress' = InProgress
      BY <2>7 DEF Release, At, InProgress, Without
    <3>. QED
      BY <2>7, <3>1, SameProgress DEF Release
  <2>. QED
    BY <1>5, <2>1, <2>2, <2>3, <2>4, <2>5, <2>6, <2>7 DEF RunStep
<1>6. CASE LoadAllTasks
  <2>1. InProgress' = {}
    BY <1>6 DEF LoadAllTasks, InProgress, ClaimInv
  <2>2. \A t \in DOMAIN store' \ unsure' : store'[t].status # "running"
    <3>1. CASE UNCHANGED store /\ unsure' = Stale
      BY <3>1 DEF Stale
    <3>2. ASSUME NEW written \in SUBSET Stale, store' = ResetStale(store, written),
                 unsure' = Stale \ written
          PROVE  \A t \in DOMAIN store' \ unsure' : store'[t].status # "running"
      BY <3>2 DEF ResetStale, Stale, TypeOK, IsMap, Stored
    <3>. QED
      BY <1>6, <3>1, <3>2 DEF LoadAllTasks
  <2>. QED
    BY <2>1, <2>2 DEF StatusTracksRun
<1>7. CASE Stop \/ Exit
  BY <1>7 DEF Stop, Exit, StatusTracksRun
<1>8. CASE UNCHANGED vars
  BY <1>8, SameProgress DEF vars, InProgress
<1>. QED
  BY <1>1, <1>2, <1>3, <1>4, <1>5, <1>6, <1>7, <1>8 DEF Next

\* The status in the file is "running" exactly while a run of the task is between
\* its two SetLastRun calls, through edits, deletions, crashes, restarts and failing
\* file accesses.  A status that a client sent (store.go Update, Create) or a write
\* that failed (updateTask) breaks this for its task until the next write.
THEOREM StatusIsTruthful == Spec => []StatusTracksRun
<1>1. Init => StatusInv
  BY InitTypeOK, InitClaimInv, InitIdsKnown DEF StatusInv, Init, StatusTracksRun
<1>2. StatusInv /\ [Next]_vars => StatusInv'
  BY NextTypeOK, NextClaimInv, NextIdsKnown, NextStatusTracksRun DEF StatusInv
<1>3. StatusInv => StatusTracksRun
  BY DEF StatusInv
<1>. QED
  BY <1>1, <1>2, <1>3, PTL DEF Spec

-----------------------------------------------------------------------------
(* Scheduler implements RunStatus.                                         *)

NeverStopped == proc # "stopped"

\* A step that a client who polls the task list cannot see.
LEMMA Unseen ==
    ASSUME DOMAIN store' = DOMAIN store,
           \A t \in DOMAIN store : store'[t].status = store[t].status,
           UNCHANGED <<born, proc, unsure>>
    PROVE  UNCHANGED Status!vars
BY DEF Status!vars, StatusOf, Alive

\* A write of a status, seen by a client: it takes effect or leaves it unsure.
LEMMA RecordSeen ==
    ASSUME TypeOK, NEW t \in Tasks, NEW status, Record(t, status), t \in DOMAIN store
    PROVE  \/ StatusOf' = [StatusOf EXCEPT ![t] = status] /\ unsure' = unsure \ {t}
           \/ /\ StatusOf' = [StatusOf EXCEPT ![t] = store[t].status]
              /\ unsure' = unsure \cup {t}
<1>1. PICK failed \in MayFail :
        /\ store' = IF failed THEN store ELSE SetLastRun(store, t, status)
        /\ unsure' = IF failed THEN unsure \cup ({t} \cap DOMAIN store) ELSE unsure \ {t}
  BY DEF Record
<1>2. CASE failed
  <2>1. StatusOf' = [StatusOf EXCEPT ![t] = store[t].status]
    BY <1>1, <1>2 DEF StatusOf
  <2>. QED
    BY <1>1, <1>2, <2>1
<1>3. CASE ~failed
  <2>1. /\ DOMAIN store' = DOMAIN store
        /\ \A u \in DOMAIN store :
              store'[u].status = IF u = t THEN status ELSE store[u].status
    BY <1>1, <1>3, SetLastRunStatus
  <2>2. StatusOf' = [u \in DOMAIN store |-> IF u = t THEN status ELSE store[u].status]
    BY <2>1 DEF StatusOf
  <2>3. StatusOf' = [StatusOf EXCEPT ![t] = status]
    BY <2>2 DEF StatusOf
  <2>. QED
    BY <1>1, <1>3, <2>3
<1>. QED
  BY <1>2, <1>3

\* A write for a task that is gone does nothing.
LEMMA RecordOfDeleted ==
    ASSUME TypeOK, NEW t, NEW status, Record(t, status), t \notin DOMAIN store
    PROVE  UNCHANGED <<store, unsure>>
BY DEF Record, SetLastRun, TypeOK

\* A status that is not the scheduler's, as RunStatus has it.
LEMMA BlurSeen ==
    ASSUME NEW t \in Tasks, NEW s \in Statuses, t \in DOMAIN store, Alive,
           StatusOf' = [StatusOf EXCEPT ![t] = s], unsure' = unsure \cup {t},
           UNCHANGED <<born, proc>>
    PROVE  Status!Next
<1>1. Status!Blur(t, s)
  BY DEF Status!Blur, Status!Set, Status!Exists, StatusOf, Alive
<1>. QED
  BY <1>1 DEF Status!Next, Status!Statuses, Status!Outcomes, Statuses, Outcomes

LEMMA InitImplements == Init => Status!Init
<1>. SUFFICES ASSUME Init PROVE Status!Init
  OBVIOUS
<1>1. IsMap(store, Tasks, Stored)
  BY InitialStoresAssumption DEF Init
<1>2. StatusOf \in [DOMAIN store -> Statuses] /\ DOMAIN StatusOf = DOMAIN store
  BY <1>1 DEF IsMap, Stored, StatusOf
<1>. QED
  BY <1>1, <1>2
     DEF Init, Alive, IsMap, Statuses, Outcomes, Status!Init, Status!Statuses,
         Status!Outcomes

LEMMA NextImplements ==
    ASSUME "stop" \notin Faults
    PROVE  StatusInv /\ NeverStopped /\ [Next]_vars => [Status!Next]_(Status!vars)
<1>. SUFFICES ASSUME StatusInv, NeverStopped, [Next]_vars
              PROVE  [Status!Next]_(Status!vars)
  OBVIOUS
<1>. USE DEF StatusInv
<1>1. CASE Clock
  BY <1>1, Unseen DEF Clock, InstantPasses, EntryAges
<1>2. CASE CheckAndFireTasks
  <2>1. /\ DOMAIN store' = DOMAIN store
        /\ \A t \in DOMAIN store : store'[t].status = store[t].status
    BY <1>2, SetEnabledStatus DEF CheckAndFireTasks, SetEnabled
  <2>. QED
    BY <1>2, <2>1, Unseen DEF CheckAndFireTasks
<1>3. ASSUME NEW c \in Clients, FirstHalf(c) PROVE [Status!Next]_(Status!vars)
  <2>1. ASSUME NEW t \in Tasks, NEW def \in Definitions, NEW status \in Carried,
               Create(c, t, def, status)
        PROVE  Status!Next
    <3>1. StatusOf' = [u \in DOMAIN StatusOf \cup {t} |->
                         IF u = t THEN status ELSE StatusOf[u]]
      BY <2>1 DEF Create, Put, StatusOf, TypeOK
    <3>2. Status!Appear(t, status)
      BY <2>1, <3>1 DEF Create, Idle, Alive, Status!Appear
    <3>. QED
      BY <3>2, CarriedAssumption
         DEF Status!Next, Status!Statuses, Status!Outcomes, Statuses, Outcomes
  <2>2. ASSUME NEW t \in Tasks, NEW def \in Definitions, NEW status \in Carried,
               Update(c, t, def, status)
        PROVE  Status!Next \/ UNCHANGED Status!vars
    <3>1. DOMAIN store' = DOMAIN store /\ t \in DOMAIN store /\ Alive
      BY <2>2 DEF Update, Idle, Alive
    <3>2. \A u \in DOMAIN store \ {t} : store'[u].status = store[u].status
      BY <2>2 DEF Update
    <3>3. CASE status = "none"
      <4>1. store'[t].status = store[t].status /\ unsure' = unsure
        BY <2>2, <3>3 DEF Update
      <4>. QED
        BY <2>2, <3>1, <3>2, <4>1, Unseen DEF Update
    <3>4. CASE status # "none"
      <4>1. store'[t].status = status /\ unsure' = unsure \cup {t}
        BY <2>2, <3>4 DEF Update
      <4>2. StatusOf' = [u \in DOMAIN store |->
                           IF u = t THEN status ELSE store[u].status]
        BY <3>1, <3>2, <4>1 DEF StatusOf
      <4>3. StatusOf' = [StatusOf EXCEPT ![t] = status]
        BY <4>2 DEF StatusOf
      <4>. QED
        BY <2>2, <3>1, <4>1, <4>3, BlurSeen, CarriedAssumption DEF Update
    <3>. QED
      BY <3>3, <3>4
  <2>3. CASE UNCHANGED <<store, born, proc, unsure>>
    BY <2>3, Unseen
  <2>. QED
    BY <1>3, <2>1, <2>2, <2>3 DEF FirstHalf, Unschedule, ReadForRun, UnscheduleByProject
<1>4. ASSUME NEW c \in Clients, SecondHalf(c) PROVE [Status!Next]_(Status!vars)
  <2>1. CASE Delete(c) \/ DeleteByProject(c)
    <3>1. PICK ts : store' = Without(store, ts)
      <4>1. store = Without(store, {})
        BY DEF Without, TypeOK, IsMap
      <4>. QED
        BY <2>1, <4>1 DEF Delete, DeleteByProject
    <3>2. StatusOf' = [u \in DOMAIN StatusOf \ ts |-> StatusOf[u]]
      BY <3>1 DEF Without, StatusOf
    <3>3. DOMAIN StatusOf \ ts = DOMAIN StatusOf \ (ts \cap Tasks)
      BY DEF StatusOf, TypeOK, IsMap
    <3>4. unsure' = unsure \ (ts \cap Tasks)
      BY <2>1, <3>1 DEF Delete, DeleteByProject, Without, TypeOK, IsMap
    <3>5. Status!Vanish(ts \cap Tasks)
      BY <2>1, <3>2, <3>3, <3>4
         DEF Delete, DeleteByProject, Pending, Alive, Status!Vanish
    <3>. QED
      BY <3>5 DEF Status!Next
  <2>2. CASE ScheduleTask(c) \/ Claim(c)
    BY <2>2, Unseen DEF ScheduleTask, Claim
  <2>. QED
    BY <1>4, <2>1, <2>2 DEF SecondHalf
<1>5. ASSUME NEW r \in Tasks \X Gens, RunStep(r) PROVE [Status!Next]_(Status!vars)
  <2>1. proc = "up"
    BY <1>5 DEF RunStep, MarkRunning, RunBody, RecordOutcome, Reread, DisableOnce,
                DropOnce, Rearm, Release, At, Alive, NeverStopped, TypeOK
  <2>2. \A q \in DOMAIN runs : q[1] = r[1] /\ r \in DOMAIN runs => q = r
    BY <2>1 DEF ClaimInv, NoOverlap
  <2>. r[1] \in Tasks
    OBVIOUS
  <2>3. CASE MarkRunning(r)
    <3>1. Record(r[1], "running") /\ UNCHANGED <<born, proc>>
      BY <2>3 DEF MarkRunning
    <3>2. CASE r[1] \in DOMAIN store
      <4>1. store[r[1]].status # "running" \/ r[1] \in unsure
        BY <2>1, <2>2, <2>3, <3>2 DEF MarkRunning, At, StatusTracksRun, InProgress
      <4>2. CASE /\ StatusOf' = [StatusOf EXCEPT ![r[1]] = "running"]
                 /\ unsure' = unsure \ {r[1]}
        <5>1. Status!Begin(r[1])
          BY <2>1, <3>1, <3>2, <4>1, <4>2
             DEF StatusOf, Alive, Status!Begin, Status!Set, Status!Exists
        <5>. QED
          BY <5>1 DEF Status!Next
      <4>3. CASE /\ StatusOf' = [StatusOf EXCEPT ![r[1]] = store[r[1]].status]
                 /\ unsure' = unsure \cup {r[1]}
        <5>1. store[r[1]].status \in Statuses
          BY <3>2 DEF TypeOK, IsMap, Stored
        <5>. QED
          BY <2>1, <3>1, <3>2, <4>3, <5>1, BlurSeen DEF Alive
      <4>. QED
        BY <3>1, <3>2, <4>2, <4>3, RecordSeen
    <3>3. CASE r[1] \notin DOMAIN store
      BY <3>1, <3>3, RecordOfDeleted, Unseen
    <3>. QED
      BY <3>2, <3>3
  <2>4. CASE RecordOutcome(r)
    <3>1. Record(r[1], runs[r].outcome) /\ UNCHANGED <<born, proc>>
      BY <2>4 DEF RecordOutcome
    <3>2. runs[r].outcome \in Outcomes
      BY <2>4 DEF RecordOutcome, At, TypeOK, IsMap, Run
    <3>3. CASE r[1] \in DOMAIN store
      <4>1. store[r[1]].status = "running" \/ r[1] \in unsure
        BY <2>1, <2>4, <3>3, RecordEnds DEF StatusTracksRun
      <4>2. CASE /\ StatusOf' = [StatusOf EXCEPT ![r[1]] = runs[r].outcome]
                 /\ unsure' = unsure \ {r[1]}
        <5>1. Status!Finish(r[1], runs[r].outcome)
          BY <2>1, <3>1, <3>3, <4>1, <4>2
             DEF StatusOf, Alive, Status!Finish, Status!Set, Status!Exists
        <5>. QED
          BY <3>2, <5>1 DEF Status!Next, Status!Outcomes, Outcomes
      <4>3. CASE /\ StatusOf' = [StatusOf EXCEPT ![r[1]] = store[r[1]].status]
                 /\ unsure' = unsure \cup {r[1]}
        <5>1. store[r[1]].status \in Statuses
          BY <3>3 DEF TypeOK, IsMap, Stored
        <5>. QED
          BY <2>1, <3>1, <3>3, <4>3, <5>1, BlurSeen DEF Alive
      <4>. QED
        BY <3>1, <3>3, <4>2, <4>3, RecordSeen
    <3>4. CASE r[1] \notin DOMAIN store
      BY <3>1, <3>4, RecordOfDeleted, Unseen
    <3>. QED
      BY <3>3, <3>4
  <2>5. CASE DisableOnce(r)
    <3>1. /\ DOMAIN store' = DOMAIN store
          /\ \A t \in DOMAIN store : store'[t].status = store[t].status
      BY <2>5, SetEnabledStatus DEF DisableOnce, SetEnabled
    <3>. QED
      BY <2>5, <3>1, Unseen DEF DisableOnce
  <2>6. CASE RunBody(r) \/ Reread(r) \/ DropOnce(r) \/ Rearm(r) \/ Release(r)
    BY <2>6, Unseen DEF RunBody, Reread, DropOnce, Rearm, Release
  <2>. QED
    BY <1>5, <2>3, <2>4, <2>5, <2>6 DEF RunStep
<1>6. CASE LoadAllTasks
  <2>1. ASSUME NEW written \in SUBSET Stale, store' = ResetStale(store, written),
               unsure' = Stale \ written
        PROVE  StatusOf' = [t \in DOMAIN StatusOf |->
                              IF StatusOf[t] = "running" /\ t \notin unsure'
                              THEN "error" ELSE StatusOf[t]]
    BY <2>1 DEF ResetStale, Stale, StatusOf, TypeOK, IsMap, Stored
  <2>2. CASE UNCHANGED store /\ unsure' = Stale
    <3>1. StatusOf' = [t \in DOMAIN StatusOf |->
                         IF StatusOf[t] = "running" /\ t \notin unsure'
                         THEN "error" ELSE StatusOf[t]]
      BY <2>2 DEF Stale, StatusOf
    <3>2. Status!Recover
      BY <1>6, <2>2, <3>1 DEF LoadAllTasks, Alive, Status!Recover, Stale, StatusOf
    <3>. QED
      BY <3>2 DEF Status!Next
  <2>3. CASE \E written \in SUBSET Stale : /\ store' = ResetStale(store, written)
                                           /\ unsure' = Stale \ written
    <3>1. Status!Recover
      BY <1>6, <2>1, <2>3 DEF LoadAllTasks, Alive, Status!Recover, Stale, StatusOf
    <3>. QED
      BY <3>1 DEF Status!Next
  <2>. QED
    BY <1>6, <2>2, <2>3 DEF LoadAllTasks
<1>7. CASE Stop
  BY <1>7 DEF Stop
<1>8. CASE Exit
  <2>1. Status!Die
    BY <1>8 DEF Exit, StatusOf, Alive, Status!Die, NeverStopped
  <2>. QED
    BY <2>1 DEF Status!Next
<1>9. CASE UNCHANGED vars
  BY <1>9, Unseen DEF vars
<1>. QED
  BY <1>1, <1>2, <1>3, <1>4, <1>5, <1>6, <1>7, <1>8, <1>9 DEF Next

LEMMA NextNeverStopped ==
    ASSUME "stop" \notin Faults
    PROVE  NeverStopped /\ [Next]_vars => NeverStopped'
<1>. SUFFICES ASSUME NeverStopped, [Next]_vars PROVE NeverStopped'
  OBVIOUS
<1>1. CASE UNCHANGED proc
  BY <1>1 DEF NeverStopped
<1>2. CASE LoadAllTasks \/ Stop \/ Exit
  BY <1>2 DEF LoadAllTasks, Stop, Exit, NeverStopped
<1>3. ASSUME NEW c \in Clients, FirstHalf(c) \/ SecondHalf(c) PROVE UNCHANGED proc
  BY <1>3 DEF FirstHalf, Create, Update, Unschedule, ReadForRun, UnscheduleByProject,
              SecondHalf, ScheduleTask, Delete, DeleteByProject, Claim
<1>4. ASSUME NEW r \in Tasks \X Gens, RunStep(r) PROVE UNCHANGED proc
  BY <1>4 DEF RunStep, MarkRunning, RunBody, RecordOutcome, Reread, DisableOnce,
              DropOnce, Rearm, Release
<1>5. CASE Clock \/ CheckAndFireTasks \/ UNCHANGED vars
  BY <1>1, <1>5 DEF Clock, InstantPasses, EntryAges, CheckAndFireTasks, vars
<1>. QED
  BY <1>1, <1>2, <1>3, <1>4, <1>5 DEF Next

\* To a client that polls the task list the scheduler looks like RunStatus, with all
\* its handlers, runs, crashes and failing file accesses: every step is one of its
\* steps or invisible, and only a client's own status or a failed write blurs what is
\* seen.  A shutdown is left out, in which a run may write after Stop.
THEOREM Implementation ==
    ASSUME "stop" \notin Faults
    PROVE  Spec => ImplementsRunStatus
<1>1. Init => StatusInv /\ NeverStopped /\ Status!Init
  BY InitTypeOK, InitClaimInv, InitIdsKnown, InitImplements
     DEF StatusInv, NeverStopped, Init, StatusTracksRun
<1>2. StatusInv /\ NeverStopped /\ [Next]_vars => (StatusInv /\ NeverStopped)'
  BY NextTypeOK, NextClaimInv, NextIdsKnown, NextStatusTracksRun, NextNeverStopped
     DEF StatusInv
<1>3. StatusInv /\ NeverStopped /\ [Next]_vars => [Status!Next]_(Status!vars)
  BY NextImplements
<1>. QED
  BY <1>1, <1>2, <1>3, PTL DEF Spec, ImplementsRunStatus, Status!Spec

=============================================================================
