---------------------------- MODULE TaskRunProofs ----------------------------
(***************************************************************************)
(* Proofs about TaskRun, for any ids, projects, edits and faults and any   *)
(* number of runs: relay holds one live run, the accounts of a run agree,  *)
(* the last run stays open, a timeout stops the work, and what the task    *)
(* file shows is as RunStatus says.                                        *)
(***************************************************************************)
EXTENDS TaskRun, FiniteSetTheorems, TLAPS

\* Sets of places in a run: before it has an id, while it goes on, and after its end.
Before == {"clean", "mark", "create"}
Going  == {"save", "started", "wait"}
After  == {"reap", "log", "record", "finish"}

\* What the run's own variables hold at each of its steps.
Locals ==
    /\ pc \in Before => run.status = "running" /\ run.id = NoId
    /\ pc \in Going => run.status = "running" /\ run.id # NoId
    /\ pc \in After => run.status \in Outcomes
    /\ pc = "reap" => run.status = "timeout" /\ run.id # NoId
    /\ pc \in After \cup {"idle"} /\ run.id = NoId => run.status \in {"error", "died"}
    /\ run.id # NoId => run.id \in spent
    /\ pc = "idle" => run.status \in Outcomes \cup {"died"}
    /\ pc = "down" => run.status = "died"

-----------------------------------------------------------------------------
(* Type correctness.                                                       *)

LEMMA NewIdIsNew == Ids \ spent # {} => NewId \in Ids \ spent
BY DEF NewId

LEMMA EventType ==
    ASSUME TypeOK, NEW type \in {"task_started", "task_completed", "task_error"}
    PROVE  Event(type, run.id) \in Events
<1>1. run.id \in Ids \cup {NoId} /\ run.task \in Stored
  BY DEF TypeOK, Executions
<1>2. Last(run.task) \in Ids \cup {NoId}
  BY <1>1 DEF Last, Stored
<1> QED BY <1>1, <1>2 DEF Event, Events

\* What the accesses of a step to the files may do.
LEMMA AmissType ==
    ASSUME TypeOK, NEW what \in {"status", "id", "record"}, NEW works
    PROVE  Amiss(what, works) \subseteq {"status", "id", "record"}
BY DEF Amiss, TypeOK

LEMMA SetStatusType ==
    ASSUME TypeOK, NEW status \in Outcomes \cup {"running"}, SetStatus(status)
    PROVE  stored' \in Stored /\ amiss' \subseteq {"status", "id", "record"}
<1>1. CASE ~exists
  BY <1>1 DEF SetStatus, TypeOK
<1>2. CASE exists
  <2>1. PICK works \in FileWorks :
          /\ stored' = IF works THEN [stored EXCEPT !.status = status] ELSE stored
          /\ amiss' = Amiss("status", works)
    BY <1>2 DEF SetStatus
  <2>2. stored' \in Stored
    BY <2>1 DEF TypeOK, Stored
  <2> QED BY <2>1, <2>2, AmissType
<1> QED BY <1>1, <1>2

LEMMA TypeStep == TypeOK /\ Locals /\ [Next]_vars => TypeOK'
<1> SUFFICES ASSUME TypeOK, Locals, [Next]_vars PROVE TypeOK'
  OBVIOUS
<1> USE EditsAssumption, FaultsAssumption, RunsAssumption
<1>1. ASSUME NEW type \in Types, NEW project \in Projects, NEW body \in Bodies,
             Update(type, project, body)
      PROVE  TypeOK'
  <2>1. body \in RunState
    BY BodiesAssumption
  <2>2. stored' \in Stored
    BY <1>1, <2>1 DEF TypeOK, Update, Stored, RunState
  <2>3. mishaps' \subseteq Edits \cup Faults \cup {"runState"}
    BY <1>1 DEF TypeOK, Update
  <2>4. amiss' \subseteq {"status", "id", "record"}
    BY <1>1 DEF TypeOK, Update, Sent
  <2> QED BY <1>1, <2>2, <2>3, <2>4 DEF TypeOK, Update
<1>2. ASSUME Delete PROVE TypeOK'
  BY <1>2 DEF TypeOK, Delete
<1>3. ASSUME NEW id \in Ids, Settles(id) PROVE TypeOK'
  BY <1>3 DEF TypeOK, Settles
<1>4. ASSUME NEW id \in Ids, Evict(id) PROVE TypeOK'
  BY <1>4 DEF TypeOK, Evict
<1>5. ASSUME Start PROVE TypeOK'
  <2>1. run' \in Executions
    BY <1>5 DEF TypeOK, Start, Executions
  <2>2. started' \in 0..MaxRuns
    BY <1>5 DEF TypeOK, Start
  <2>3. events' \in Seq(Events)
    BY <1>5 DEF Start
  <2> QED BY <1>5, <2>1, <2>2, <2>3 DEF TypeOK, Start, Step
<1>6. ASSUME RemovePrevious PROVE TypeOK'
  <2>1. PICK read \in FileWorks, works \in CleanupWorks :
          LET gone == IF exists /\ read /\ works THEN {Last(stored)} ELSE {}
              pty  == stored.type = "pty"
          IN /\ sessions'  = IF pty THEN sessions ELSE sessions \ gone
             /\ terminals' = IF pty THEN terminals \ gone ELSE terminals
             /\ working'   = working \ gone
             /\ mishaps'   = Mishap(works) \cup (IF read THEN {} ELSE {"io"})
    BY <1>6 DEF RemovePrevious
  <2>3. mishaps' \subseteq Edits \cup Faults \cup {"runState"}
    BY <2>1 DEF Mishap, CleanupWorks, FileWorks, TypeOK
  <2>4. /\ sessions' \subseteq spent /\ terminals' \subseteq spent
        /\ working' \subseteq sessions' \cup terminals'
    BY <2>1 DEF TypeOK
  <2> QED BY <1>6, <2>3, <2>4 DEF TypeOK, RemovePrevious, Step
<1>7. ASSUME MarkRunning \/ (RecordOutcome /\ run.status \in Outcomes) PROVE TypeOK'
  <2>1. PICK status \in Outcomes \cup {"running"} : SetStatus(status)
    BY <1>7 DEF MarkRunning, RecordOutcome
  <2>2. stored' \in Stored /\ amiss' \subseteq {"status", "id", "record"}
    BY <2>1, SetStatusType
  <2> QED BY <1>7, <2>2 DEF TypeOK, MarkRunning, RecordOutcome, Step
<1>8. ASSUME FailToCreate PROVE TypeOK'
  BY <1>8 DEF TypeOK, FailToCreate, Fail, Step, Executions, Outcomes
<1>9. ASSUME Create PROVE TypeOK'
  <2>1. NewId \in Ids \ spent
    BY <1>9, NewIdIsNew DEF Create
  <2>2. run' \in Executions
    BY <1>9, <2>1 DEF TypeOK, Create, Fail, Executions, Outcomes
  <2>3. /\ sessions' \subseteq spent' /\ terminals' \subseteq spent' /\ spent' \subseteq Ids
        /\ working' \subseteq sessions' \cup terminals'
    BY <1>9, <2>1 DEF TypeOK, Create
  <2>4. /\ mishaps' \subseteq Edits \cup Faults \cup {"runState"}
        /\ pc' \in {"save", "log"}
    BY <1>9 DEF TypeOK, Create, Fail, Step
  <2> QED BY <1>9, <2>2, <2>3, <2>4 DEF TypeOK, Create
<1>10. ASSUME SaveId PROVE TypeOK'
  <2>1. run.id \in Ids \cup {NoId}
    BY DEF TypeOK, Executions
  <2>2. /\ stored' \in Stored
        /\ mishaps' \subseteq Edits \cup Faults \cup {"runState"}
        /\ amiss' \subseteq {"status", "id", "record"}
    <3>1. CASE ~exists
      BY <1>10, <3>1 DEF TypeOK, SaveId
    <3>2. CASE exists
      <4>1. PICK works \in FileWorks :
              /\ stored' = CASE ~works -> stored
                             [] works /\ run.task.type = "pty" ->
                                  [stored EXCEPT !.lastTerminal = run.id]
                             [] works /\ run.task.type # "pty" ->
                                  [stored EXCEPT !.lastSession = run.id]
              /\ mishaps' = mishaps \cup (IF works THEN {} ELSE {"io"})
              /\ amiss' = Amiss("id", works)
        BY <1>10, <3>2 DEF SaveId
      <4>2. stored' \in Stored
        BY <2>1, <4>1 DEF TypeOK, Stored
      <4>3. mishaps' \subseteq Edits \cup Faults \cup {"runState"}
        BY <4>1 DEF TypeOK, FileWorks
      <4> QED BY <4>1, <4>2, <4>3, AmissType
    <3> QED BY <3>1, <3>2
  <2> QED BY <1>10, <2>2 DEF TypeOK, SaveId, Step
<1>11. ASSUME AnnounceStart \/ AnnounceEnd PROVE TypeOK'
  <2>1. PICK e \in Events : events' = Append(events, e)
    BY <1>11, EventType DEF AnnounceStart, AnnounceEnd
  <2>2. events' \in Seq(Events)
    BY <2>1 DEF TypeOK
  <2> QED BY <1>11, <2>2 DEF TypeOK, AnnounceStart, AnnounceEnd, Step
<1>12. ASSUME WaitEnds PROVE TypeOK'
  <2>1. PICK status \in Outcomes :
          /\ run' = [run EXCEPT !.status = status]
          /\ pc' = IF status = "timeout" THEN "reap" ELSE "log"
    BY <1>12 DEF WaitEnds, TerminalOutcomes, ChatOutcomes, TerminalStatus, Outcomes
  <2>2. run' \in Executions
    BY <2>1 DEF TypeOK, Executions
  <2> QED BY <1>12, <2>1, <2>2 DEF TypeOK, WaitEnds
<1>13. ASSUME Reap PROVE TypeOK'
  <2>1. PICK works \in CleanupWorks :
          /\ working' = IF works THEN working \ {run.id} ELSE working
          /\ terminals' = IF works THEN terminals \ {run.id} ELSE terminals
          /\ mishaps' = Mishap(works)
    BY <1>13 DEF Reap
  <2>2. mishaps' \subseteq Edits \cup Faults \cup {"runState"}
    BY <2>1 DEF Mishap, CleanupWorks, TypeOK
  <2> QED BY <1>13, <2>1, <2>2 DEF TypeOK, Reap, Step
<1>14. ASSUME Log, run.status \in Outcomes PROVE TypeOK'
  <2>1. [run |-> started, id |-> run.id, status |-> run.status] \in Records
    BY <1>14 DEF TypeOK, Executions, Records
  <2>2. \A p \in Projects : history[p] \in Seq(Records)
    BY DEF TypeOK
  <2>3. \A s \in Seq(Records) :
          <<[run |-> started, id |-> run.id, status |-> run.status]>> \o s \in Seq(Records)
    BY <2>1
  <2>4. PICK read \in FileWorks, works \in FileWorks :
          /\ history' =
               IF works
               THEN [history EXCEPT ![run.task.project] =
                       <<[run |-> started, id |-> run.id, status |-> run.status]>>
                           \o (IF read THEN @ ELSE <<>>)]
               ELSE history
          /\ amiss' = Amiss("record", works)
    BY <1>14 DEF Log
  <2>5. <<>> \in Seq(Records)
    OBVIOUS
  <2>6. history' \in [Projects -> Seq(Records)]
    BY <2>2, <2>3, <2>4, <2>5 DEF TypeOK
  <2> QED BY <1>14, <2>4, <2>6, AmissType DEF TypeOK, Log, Step
<1>15. ASSUME Crash PROVE TypeOK'
  BY <1>15 DEF TypeOK, Crash, Executions
<1>16. ASSUME LoadTask PROVE TypeOK'
  <2>1. stored' \in Stored /\ amiss' \subseteq {"status", "id", "record"}
    <3>1. CASE stored.status = "running"
      BY <1>16, <3>1, SetStatusType DEF LoadTask, Outcomes
    <3>2. CASE stored.status # "running"
      BY <1>16, <3>2 DEF LoadTask, TypeOK
    <3> QED BY <3>1, <3>2
  <2> QED BY <1>16, <2>1 DEF TypeOK, LoadTask, Step
<1>17. CASE UNCHANGED vars
  BY <1>17 DEF TypeOK, vars
<1>18. Log \/ RecordOutcome => run.status \in Outcomes
  BY DEF Locals, Log, RecordOutcome, Step, After
<1> QED
  BY <1>1, <1>2, <1>3, <1>4, <1>5, <1>6, <1>7, <1>8, <1>9, <1>10, <1>11, <1>12, <1>13, <1>14,
     <1>15, <1>16, <1>17, <1>18 DEF Next

LEMMA LocalsStep == TypeOK /\ Locals /\ [Next]_vars => Locals'
<1> SUFFICES ASSUME TypeOK, Locals, [Next]_vars PROVE Locals'
  OBVIOUS
<1> USE DEF Locals, Before, Going, After, Outcomes
<1>0. run \in Executions /\ NoId \notin Ids
  BY NoIdAssumption DEF TypeOK
<1>1. ASSUME UNCHANGED <<pc, run>>, spent' = spent PROVE Locals'
  BY <1>1
<1>2. CASE Start
  BY <1>0, <1>2, NoIdAssumption DEF Start, Step
<1>3. CASE RemovePrevious \/ MarkRunning \/ SaveId \/ AnnounceStart \/ Log \/ RecordOutcome
  BY <1>3 DEF RemovePrevious, MarkRunning, SaveId, AnnounceStart, Log, RecordOutcome, Step
<1>4. CASE FailToCreate
  BY <1>0, <1>4 DEF FailToCreate, Fail, Step, Executions
<1>5. CASE Create
  <2>1. NewId \in Ids \ spent
    BY <1>5, NewIdIsNew DEF Create
  <2>2. CASE pc' = "save"
    BY <1>0, <1>5, <2>1, <2>2 DEF Create, Fail, Step, Executions
  <2>3. CASE pc' = "log"
    BY <1>0, <1>5, <2>1, <2>3 DEF Create, Fail, Step, Executions
  <2> QED BY <1>5, <2>2, <2>3 DEF Create, Fail, Step
<1>6. CASE WaitEnds
  <2>1. PICK status \in Outcomes :
          /\ run' = [run EXCEPT !.status = status]
          /\ pc' = IF status = "timeout" THEN "reap" ELSE "log"
    BY <1>6 DEF WaitEnds, TerminalOutcomes, ChatOutcomes, TerminalStatus
  <2>2. run'.id = run.id /\ run'.status = status
    BY <1>0, <2>1 DEF Executions
  <2> QED BY <1>6, <2>1, <2>2 DEF WaitEnds
<1>7. CASE Reap \/ AnnounceEnd
  BY <1>7 DEF Reap, AnnounceEnd, Step
<1>8. CASE Crash
  BY <1>0, <1>8 DEF Crash, Executions
<1>9. CASE LoadTask
  BY <1>9 DEF LoadTask, Step
<1> QED
  BY <1>1, <1>2, <1>3, <1>4, <1>5, <1>6, <1>7, <1>8, <1>9
  DEF Next, Update, Delete, Settles, Evict, vars

-----------------------------------------------------------------------------
(* Three accounts of one run.                                              *)

\* The record of the current run, which is in the history of its project from Log on.
ThisRecord == [run |-> started, id |-> run.id, status |-> run.status]

Mine(p) == {rec \in Recorded(p) : rec.run = started}

Logged ==
    /\ \A p \in Projects : \A rec \in Recorded(p) : rec.run <= started
    /\ pc \in Before \cup Going \cup {"reap", "log"} =>
          \A p \in Projects : \A rec \in Recorded(p) : rec.run # started
    /\ pc \in {"record", "finish"} \/ Ended =>
          \A p \in Projects :
             Mine(p) = IF p = run.task.project /\ "record" \notin amiss
                       THEN {ThisRecord} ELSE {}

\* Each of the three accounts is amiss until its own write succeeds.
LEMMA AmissKept ==
    [Next]_vars =>
        /\ ~Log => (("record" \in amiss') <=> ("record" \in amiss))
        /\ "id" \notin amiss' /\ ~SaveId => "id" \notin amiss
        /\ "status" \notin amiss' /\ ~(MarkRunning \/ RecordOutcome \/ LoadTask)
               => "status" \notin amiss
<1> SUFFICES ASSUME [Next]_vars
             PROVE  /\ ~Log => (("record" \in amiss') <=> ("record" \in amiss))
                    /\ "id" \notin amiss' /\ ~SaveId => "id" \notin amiss
                    /\ "status" \notin amiss' /\ ~(MarkRunning \/ RecordOutcome \/ LoadTask)
                           => "status" \notin amiss
  OBVIOUS
<1>1. CASE UNCHANGED amiss
  BY <1>1
<1>2. CASE \E type \in Types, project \in Projects, body \in Bodies :
              Update(type, project, body)
  BY <1>2 DEF Update, Sent
<1>3. CASE MarkRunning \/ RecordOutcome
  <2>1. PICK status : SetStatus(status)
    BY <1>3 DEF MarkRunning, RecordOutcome
  <2>2. ~Log /\ ~SaveId
    BY <1>3 DEF MarkRunning, RecordOutcome, Log, SaveId, Step
  <2> QED BY <1>3, <2>1, <2>2 DEF SetStatus, Amiss
<1>4. CASE LoadTask
  <2>1. ~Log /\ ~SaveId
    BY <1>4 DEF LoadTask, Log, SaveId, Step
  <2> QED BY <1>4, <2>1 DEF LoadTask, SetStatus, Amiss
<1>5. CASE SaveId
  <2>1. ~Log
    BY <1>5 DEF Log, SaveId, Step
  <2> QED BY <1>5, <2>1 DEF SaveId, Amiss
<1>6. CASE Log
  <2>1. ~SaveId
    BY <1>6 DEF Log, SaveId, Step
  <2> QED BY <1>6, <2>1 DEF Log, Amiss
<1> QED
  BY <1>1, <1>2, <1>3, <1>4, <1>5, <1>6
  DEF Next, vars, Delete, Settles, Evict, Start, RemovePrevious, FailToCreate, Create,
      AnnounceStart, WaitEnds, Reap, AnnounceEnd, Crash

LEMMA RecordedType ==
    ASSUME TypeOK, NEW p \in Projects
    PROVE  Recorded(p) \subseteq Records
<1>1. history[p] \in Seq(Records)
  BY DEF TypeOK
<1> QED BY <1>1 DEF Recorded

Elements(s) == {s[i] : i \in DOMAIN s}

\* A record put in front of a history is one more of its records.
LEMMA Prepended ==
    \A S : \A s \in Seq(S), rec \in S : Elements(<<rec>> \o s) = {rec} \cup Elements(s)
<1> SUFFICES ASSUME NEW S, NEW s \in Seq(S), NEW rec \in S
             PROVE  Elements(<<rec>> \o s) = {rec} \cup Elements(s)
  OBVIOUS
<1> DEFINE t == <<rec>> \o s
<1>1. Len(t) = Len(s) + 1 /\ DOMAIN t = 1..Len(t) /\ DOMAIN s = 1..Len(s) /\ Len(s) \in Nat
  OBVIOUS
<1>2. t[1] = rec /\ \A i \in 1..Len(s) : t[i + 1] = s[i]
  OBVIOUS
<1> HIDE DEF t
<1>3. ASSUME NEW x \in {t[i] : i \in DOMAIN t} PROVE x \in {rec} \cup {s[i] : i \in DOMAIN s}
  <2>1. PICK i \in 1..Len(t) : x = t[i]
    BY <1>1
  <2>2. CASE i = 1
    BY <1>2, <2>1, <2>2
  <2>3. CASE i # 1
    <3>1. i - 1 \in 1..Len(s) /\ (i - 1) + 1 = i
      BY <1>1, <2>1, <2>3
    <3> QED BY <1>1, <1>2, <2>1, <3>1
  <2> QED BY <2>2, <2>3
<1>4. rec \in {t[i] : i \in DOMAIN t}
  BY <1>1, <1>2
<1>5. ASSUME NEW i \in DOMAIN s PROVE s[i] \in {t[j] : j \in DOMAIN t}
  <2>1. i + 1 \in DOMAIN t
    BY <1>1
  <2> QED BY <1>1, <1>2, <2>1
<1>6. {t[i] : i \in DOMAIN t} = {rec} \cup {s[i] : i \in DOMAIN s}
  BY <1>3, <1>4, <1>5
<1> QED BY <1>6 DEF t, Elements

LEMMA LoggedStep == TypeOK /\ Locals /\ Logged /\ [Next]_vars => Logged'
<1> SUFFICES ASSUME TypeOK, Locals, Logged, [Next]_vars PROVE Logged'
  OBVIOUS
<1>0. /\ run \in Executions /\ run.task.project \in Projects /\ started \in Nat
      /\ \A p \in Projects : \A rec \in Recorded(p) : rec.run \in Nat
  <2>1. run \in Executions /\ run.task.project \in Projects /\ started \in Nat
    BY RunsAssumption DEF TypeOK, Executions, Stored
  <2>2. \A p \in Projects : Recorded(p) \subseteq Records
    BY RecordedType
  <2>3. \A rec \in Records : rec.run \in Nat
    BY RunsAssumption DEF Records
  <2> QED BY <2>1, <2>2, <2>3
<1>1. CASE UNCHANGED <<pc, run, history, started>> /\ ~Log
  BY <1>1, AmissKept DEF Logged, Mine, Recorded, ThisRecord, Ended
<1>2. CASE Start
  <2>1. started' = started + 1 /\ pc' = "clean" /\ UNCHANGED history
    BY <1>2 DEF Start, Step
  <2>2. \A p \in Projects : \A rec \in Recorded(p) : rec.run < started + 1
    BY <1>0 DEF Logged
  <2>3. \A p \in Projects : \A rec \in Recorded(p)' : rec.run <= started' /\ rec.run # started'
    BY <1>0, <2>1, <2>2 DEF Recorded
  <2> QED BY <2>1, <2>3 DEF Logged, Ended
<1>3. CASE \/ RemovePrevious \/ MarkRunning \/ FailToCreate \/ Create \/ SaveId
           \/ AnnounceStart \/ WaitEnds \/ Reap
  <2>1. /\ UNCHANGED <<history, started>>
        /\ pc \in Before \cup Going \cup {"reap", "log"}
        /\ pc' \in Before \cup Going \cup {"reap", "log"}
    BY <1>3 DEF RemovePrevious, MarkRunning, FailToCreate, Create, SaveId, AnnounceStart,
       WaitEnds, Reap, Fail, Step, Before, Going
  <2>2. ~(pc' \in {"record", "finish"} \/ Ended')
    BY <2>1 DEF Ended, Before, Going
  <2> QED BY <2>1, <2>2 DEF Logged, Recorded
<1>4. CASE Log
  <2> DEFINE mine == run.task.project
  <2>1. pc = "log" /\ pc' = "record" /\ UNCHANGED <<run, started>>
    BY <1>4 DEF Log, Step
  <2>2. ThisRecord \in Records
    BY <1>0, <2>1 DEF Locals, After, TypeOK, Executions, Records, ThisRecord
  <2>3. \A p \in Projects : history[p] \in Seq(Records)
    BY DEF TypeOK
  <2>4. PICK read \in FileWorks, works \in FileWorks :
          /\ history' =
               IF works
               THEN [history EXCEPT ![mine] =
                       <<ThisRecord>> \o (IF read THEN @ ELSE <<>>)]
               ELSE history
          /\ amiss' = Amiss("record", works)
    BY <1>4 DEF Log, ThisRecord
  <2>5. ThisRecord.run = started /\ ThisRecord' = ThisRecord /\ mine \in Projects
    BY <1>0, <2>1 DEF ThisRecord
  <2>6. \A p \in Projects : \A rec \in Recorded(p) : rec.run # started
    BY <2>1 DEF Logged, Before, Going
  <2>7. CASE ~works
    <3>1. "record" \in amiss' /\ UNCHANGED history
      BY <2>4, <2>7 DEF Amiss
    <3> QED BY <2>1, <2>6, <3>1 DEF Logged, Mine, Recorded, Before, Going
  <2>8. CASE works
    <3>1. PICK old \in Seq(Records) :
            /\ history'[mine] = <<ThisRecord>> \o old
            /\ old = history[mine] \/ old = <<>>
      <4> DEFINE old == IF read THEN history[mine] ELSE <<>>
      <4>1. old \in Seq(Records) /\ (old = history[mine] \/ old = <<>>)
        BY <2>3, <2>5
      <4>2. history' = [history EXCEPT ![mine] = <<ThisRecord>> \o old]
        BY <2>4, <2>8
      <4>3. history'[mine] = <<ThisRecord>> \o old
        BY <2>5, <4>2 DEF TypeOK
      <4> QED BY <4>1, <4>3
    <3>2. \A p \in Projects \ {mine} : history'[p] = history[p]
      BY <2>3, <2>4, <2>8
    <3>3. Elements(old) \subseteq Recorded(mine)
      BY <3>1 DEF Elements, Recorded
    <3>4. Recorded(mine)' = {ThisRecord} \cup Elements(old)
      <4>1. Recorded(mine)' = Elements(history'[mine])
        BY <2>1 DEF Recorded, Elements
      <4> HIDE DEF mine
      <4> QED BY <2>2, <3>1, <4>1, Prepended
    <3>5. \A p \in Projects \ {mine} : Recorded(p)' = Recorded(p)
      BY <3>2 DEF Recorded
    <3>6. \A p \in Projects : \A rec \in Recorded(p)' : rec.run <= started'
      BY <1>0, <2>1, <2>5, <3>3, <3>4, <3>5 DEF Logged
    <3>7. Mine(mine)' = {ThisRecord}
      BY <2>1, <2>5, <2>6, <3>3, <3>4 DEF Mine
    <3>8. \A p \in Projects \ {mine} : Mine(p)' = {}
      BY <2>1, <2>6, <3>5 DEF Mine
    <3>9. "record" \notin amiss'
      BY <2>4, <2>8 DEF Amiss
    <3> QED BY <2>1, <2>5, <3>6, <3>7, <3>8, <3>9 DEF Logged, Before, Going
  <2> QED BY <2>7, <2>8
<1>5. CASE RecordOutcome
  <2>1. ~Log
    BY <1>5 DEF Log, RecordOutcome, Step
  <2> QED BY <1>5, <2>1, AmissKept
          DEF RecordOutcome, Step, Logged, Mine, Recorded, ThisRecord, Before, Going
<1>6. CASE AnnounceEnd
  BY <1>6 DEF AnnounceEnd, Step, Logged, Mine, Recorded, ThisRecord, Before, Going
<1>7. CASE Crash
  BY <1>7 DEF Crash, Logged, Recorded, Before, Going, Ended
<1>8. CASE LoadTask
  <2>1. ~Ended'
    BY <1>8 DEF LoadTask, Step, Locals, Ended, Outcomes
  <2> QED BY <1>8, <2>1 DEF LoadTask, Step, Logged, Recorded, Before, Going
<1>9. UNCHANGED pc => ~Log
  BY DEF Log, Step
<1> QED
  BY <1>1, <1>2, <1>3, <1>4, <1>5, <1>6, <1>7, <1>8, <1>9
  DEF Next, Update, Delete, Settles, Evict, vars

\* What the task file says of the current run, or of the last one.
Says ==
    exists /\ "status" \notin amiss =>
        /\ pc \in Going \cup After \cup {"create"} =>
              stored.status = IF pc = "finish" THEN run.status ELSE "running"
        /\ pc \in {"idle", "clean", "mark"} => stored.status # "running"
        /\ Ended => stored.status = run.status

\* A write of the status that works leaves it in the file.
LEMMA SetStatusSays ==
    ASSUME TypeOK, NEW status, SetStatus(status), exists, "status" \notin amiss'
    PROVE  stored'.status = status
<1>1. PICK works \in FileWorks :
        /\ stored' = IF works THEN [stored EXCEPT !.status = status] ELSE stored
        /\ amiss' = Amiss("status", works)
  BY DEF SetStatus
<1>2. works
  BY <1>1 DEF Amiss
<1> QED BY <1>1, <1>2 DEF TypeOK, Stored

LEMMA SaysStep == TypeOK /\ Locals /\ Says /\ [Next]_vars => Says'
<1> SUFFICES ASSUME TypeOK, Locals, Says, [Next]_vars, exists', "status" \notin amiss'
             PROVE  Says'
  BY DEF Says
<1> USE DEF Says, Before, Going, After, Outcomes, Ended
<1>0. run \in Executions /\ stored \in Stored
  BY DEF TypeOK
<1>1. CASE UNCHANGED <<pc, run, stored, exists, amiss>>
  BY <1>1
<1>2. CASE \E type \in Types, project \in Projects, body \in Bodies :
              Update(type, project, body)
  <2>1. PICK type \in Types, project \in Projects, body \in Bodies :
          Update(type, project, body)
    BY <1>2
  <2>2. "status" \notin amiss /\ body.status = "none"
    BY <2>1 DEF Update, Sent
  <2>3. stored'.status = stored.status /\ UNCHANGED <<pc, run, exists>>
    BY <2>1, <2>2 DEF Update
  <2> QED BY <2>2, <2>3
<1>3. CASE Delete
  BY <1>3 DEF Delete
<1>4. CASE Start
  BY <1>4 DEF Start, Step
<1>5. CASE RemovePrevious \/ AnnounceStart \/ Reap
  BY <1>5 DEF RemovePrevious, AnnounceStart, Reap, Step
<1>6. CASE Log
  BY <1>6 DEF Log, Amiss, Step
<1>7. CASE MarkRunning
  <2>1. stored'.status = "running"
    BY <1>7, SetStatusSays DEF MarkRunning
  <2> QED BY <1>7, <2>1 DEF MarkRunning, Step
<1>8. CASE FailToCreate \/ Create
  BY <1>8 DEF FailToCreate, Create, Fail, Step
<1>9. CASE SaveId
  <2>1. "status" \notin amiss /\ UNCHANGED exists
    BY <1>9 DEF SaveId, Amiss
  <2>2. stored'.status = stored.status
    BY <1>0, <1>9, <2>1 DEF SaveId, Stored
  <2> QED BY <1>9, <2>1, <2>2 DEF SaveId, Step
<1>10. CASE WaitEnds
  BY <1>10 DEF WaitEnds
<1>11. CASE RecordOutcome
  <2>1. stored'.status = run.status
    BY <1>11, SetStatusSays DEF RecordOutcome
  <2> QED BY <1>11, <2>1 DEF RecordOutcome, Step
<1>12. CASE AnnounceEnd
  BY <1>12 DEF AnnounceEnd, Step, Locals
<1>13. CASE Crash
  BY <1>13 DEF Crash
<1>14. CASE LoadTask
  <2>1. stored'.status # "running"
    <3>1. CASE stored.status = "running"
      BY <1>14, <3>1, SetStatusSays DEF LoadTask
    <3>2. CASE stored.status # "running"
      BY <1>14, <3>2 DEF LoadTask
    <3> QED BY <3>1, <3>2
  <2> QED BY <1>14, <2>1 DEF LoadTask, Step, Locals
<1> QED
  BY <1>1, <1>2, <1>3, <1>4, <1>5, <1>6, <1>7, <1>8, <1>9, <1>10, <1>11, <1>12, <1>13, <1>14
  DEF Next, Settles, Evict, vars

\* What clients have been told of the current run, or of the last one.
EndEvent == IF run.status = "success" THEN "task_completed" ELSE "task_error"

Announced ==
    /\ pc \in Before \cup {"save", "started"} => events = <<>>
    /\ pc \in {"wait"} \cup After =>
          IF run.id = NoId THEN events = <<>>
          ELSE Len(events) = 1 /\ events[1].type = "task_started"
    /\ Ended => /\ events # <<>> /\ events[Len(events)].type = EndEvent
                /\ events[1].type = "task_started" <=> run.id # NoId

LEMMA AnnouncedStep == TypeOK /\ Locals /\ Announced /\ [Next]_vars => Announced'
<1> SUFFICES ASSUME TypeOK, Locals, Announced, [Next]_vars PROVE Announced'
  OBVIOUS
<1> USE DEF Before, Going, After, Outcomes
<1>0. run \in Executions /\ events \in Seq(Events)
  BY DEF TypeOK
<1>1. CASE UNCHANGED <<pc, run, events>>
  BY <1>1 DEF Announced, Ended, EndEvent
<1>2. CASE Start
  BY <1>2 DEF Start, Step, Announced, Ended
<1>3. CASE RemovePrevious \/ MarkRunning \/ SaveId \/ Reap \/ Log \/ RecordOutcome
  BY <1>3 DEF RemovePrevious, MarkRunning, SaveId, Reap, Log, RecordOutcome, Step, Announced,
     Ended
<1>4. CASE FailToCreate \/ Create
  <2>1. events' = <<>>
    BY <1>4 DEF FailToCreate, Create, Fail, Step, Announced
  <2>2. pc' = "save" \/ (pc' = "log" /\ run'.id = NoId)
    BY <1>0, <1>4 DEF FailToCreate, Create, Fail, Step, Locals, Executions
  <2> QED BY <2>1, <2>2 DEF Announced, Ended
<1>5. CASE AnnounceStart
  <2>1. events = <<>> /\ run.id # NoId /\ UNCHANGED run /\ pc' = "wait"
    BY <1>5 DEF AnnounceStart, Step, Announced, Locals
  <2>2. events' = <<Event("task_started", run.id)>>
    BY <1>5, <2>1 DEF AnnounceStart
  <2>3. Len(events') = 1 /\ events'[1].type = "task_started"
    BY <2>2 DEF Event
  <2> QED BY <2>1, <2>3 DEF Announced, Ended
<1>6. CASE WaitEnds
  BY <1>0, <1>6 DEF WaitEnds, Announced, Ended, Executions
<1>7. CASE AnnounceEnd
  <2> DEFINE last == Event(EndEvent, run.id)
  <2>1. events' = Append(events, last) /\ UNCHANGED run /\ pc = "finish" /\ pc' = "idle"
    BY <1>7 DEF AnnounceEnd, Step, EndEvent
  <2>2. last.type = EndEvent /\ EndEvent' = EndEvent /\ EndEvent # "task_started"
    BY <2>1 DEF Event, EndEvent
  <2>3. last \in Events
    BY EventType DEF EndEvent
  <2> HIDE DEF last
  <2>4. /\ Len(events') = Len(events) + 1
        /\ events'[Len(events')] = last
        /\ Len(events) = 1 => events'[1] = events[1]
    BY <1>0, <2>1, <2>3
  <2>5. events' # <<>>
    BY <1>0, <2>4
  <2>6. CASE run.id = NoId
    <3>1. events = <<>> /\ Len(events) = 0
      BY <2>1, <2>6 DEF Announced
    <3>2. events'[1] = last
      BY <2>4, <3>1
    <3> QED BY <2>1, <2>2, <2>4, <2>5, <2>6, <3>2 DEF Announced
  <2>7. CASE run.id # NoId
    <3>1. Len(events) = 1 /\ events[1].type = "task_started"
      BY <2>1, <2>7 DEF Announced
    <3> QED BY <2>1, <2>2, <2>4, <2>5, <2>7, <3>1 DEF Announced
  <2> QED BY <2>6, <2>7
<1>8. CASE Crash
  BY <1>8 DEF Crash, Announced, Ended
<1>9. CASE LoadTask
  BY <1>9 DEF LoadTask, Step, Locals, Announced, Ended
<1> QED
  BY <1>1, <1>2, <1>3, <1>4, <1>5, <1>6, <1>7, <1>8, <1>9
  DEF Next, Update, Delete, Settles, Evict, vars

LEMMA AccountsFollow == Logged /\ Says /\ Announced /\ TypeOK => AccountsAgree
<1> SUFFICES ASSUME Logged, Says, Announced, TypeOK, Ended PROVE AccountsAgree
  BY DEF AccountsAgree
<1>1. run.task.project \in Projects
  BY DEF TypeOK, Executions, Stored
<1>2. \A p \in Projects :
        Mine(p) = IF p = run.task.project /\ "record" \notin amiss
                  THEN {ThisRecord} ELSE {}
  BY DEF Logged
<1>3. Cardinality({ThisRecord}) = 1
  BY FS_Singleton
<1>4. "record" \notin amiss => \E p \in Projects : Cardinality(Mine(p)) = 1
  BY <1>1, <1>2, <1>3
<1>5. "record" \in amiss => \A p \in Projects : Mine(p) = {}
  BY <1>2
<1>6. /\ exists /\ "status" \notin amiss => stored.status = run.status
      /\ Told(run.status)
      /\ (events[1].type = "task_started") <=> (run.id # NoId)
  BY DEF Says, Announced, EndEvent, Told
<1>7. ThisRecord.status = run.status /\ ThisRecord.id = run.id
  BY DEF ThisRecord
<1>8. ASSUME NEW p \in Projects, NEW rec \in Recorded(p), rec.run = started
      PROVE  /\ Told(rec.status)
             /\ exists /\ "status" \notin amiss => stored.status = rec.status
             /\ (events[1].type = "task_started") <=> (rec.id # NoId)
  <2>1. rec \in Mine(p)
    BY <1>8 DEF Mine
  <2>2. rec = ThisRecord
    BY <1>2, <2>1
  <2> QED BY <1>6, <1>7, <2>2
<1>9. exists /\ "status" \notin amiss => Told(stored.status)
  BY <1>6
<1> QED BY <1>4, <1>5, <1>8, <1>9 DEF AccountsAgree, Mine

-----------------------------------------------------------------------------
(* What the run leaves in relay, and how the file names it.                *)

\* A step keeps the task's type and its two last ids, unless it is the one that
\* saves an id or a client edits the type or sends an id.
LEMMA TaskKept ==
    TypeOK /\ [Next]_vars =>
        /\ mishaps \subseteq mishaps'
        /\ exists' => exists
        /\ "type" \notin mishaps' => stored'.type = stored.type
        /\ ~SaveId /\ "id" \notin amiss' =>
              /\ stored'.lastSession = stored.lastSession
              /\ stored'.lastTerminal = stored.lastTerminal
<1> SUFFICES ASSUME TypeOK, [Next]_vars
             PROVE  /\ mishaps \subseteq mishaps'
                    /\ exists' => exists
                    /\ "type" \notin mishaps' => stored'.type = stored.type
                    /\ ~SaveId /\ "id" \notin amiss' =>
                          /\ stored'.lastSession = stored.lastSession
                          /\ stored'.lastTerminal = stored.lastTerminal
  OBVIOUS
<1>0. stored \in Stored
  BY DEF TypeOK
<1>1. CASE \E type \in Types, project \in Projects, body \in Bodies :
              Update(type, project, body)
  <2>1. PICK type \in Types, project \in Projects, body \in Bodies :
          Update(type, project, body)
    BY <1>1
  <2>2. "id" \notin amiss' => body.lastSession = NoId /\ body.lastTerminal = NoId
    BY <2>1 DEF Update, Sent
  <2> QED BY <2>1, <2>2 DEF Update
<1>2. CASE Delete \/ \E id \in Ids : Settles(id) \/ Evict(id)
  BY <1>2 DEF Delete, Settles, Evict
<1>3. CASE Start \/ FailToCreate \/ AnnounceStart \/ WaitEnds \/ Log \/ AnnounceEnd \/ Crash
  BY <1>3 DEF Start, FailToCreate, AnnounceStart, WaitEnds, Log, AnnounceEnd, Crash
<1>4. CASE RemovePrevious
  BY <1>4 DEF RemovePrevious, Mishap
<1>5. CASE Reap
  BY <1>5 DEF Reap, Mishap
<1>6. CASE Create
  BY <1>6 DEF Create
<1>7. ASSUME NEW status, SetStatus(status)
      PROVE  /\ stored'.type = stored.type
             /\ stored'.lastSession = stored.lastSession
             /\ stored'.lastTerminal = stored.lastTerminal
  <2>1. stored' = stored \/ stored' = [stored EXCEPT !.status = status]
    BY <1>7 DEF SetStatus
  <2> QED BY <1>0, <2>1 DEF Stored
<1>8. CASE MarkRunning \/ RecordOutcome
  BY <1>7, <1>8 DEF MarkRunning, RecordOutcome
<1>9. CASE SaveId
  <2>1. \/ stored' = stored
        \/ stored' = [stored EXCEPT !.lastTerminal = run.id]
        \/ stored' = [stored EXCEPT !.lastSession = run.id]
    BY <1>9 DEF SaveId
  <2>2. mishaps \subseteq mishaps' /\ UNCHANGED exists
    BY <1>9 DEF SaveId
  <2> QED BY <1>0, <1>9, <2>1, <2>2 DEF Stored
<1>10. CASE LoadTask
  BY <1>7, <1>10 DEF LoadTask
<1>11. CASE UNCHANGED vars
  BY <1>11 DEF vars
<1> QED
  BY <1>1, <1>2, <1>3, <1>4, <1>5, <1>6, <1>8, <1>9, <1>10, <1>11 DEF Next

\* When the id on file is not the last run's, a failed access or a client is to blame.
Blamed == "id" \in amiss => mishaps \cap {"io", "runState"} # {}

LEMMA BlamedStep == TypeOK /\ Blamed /\ [Next]_vars => Blamed'
<1> SUFFICES ASSUME TypeOK, Blamed, [Next]_vars, "id" \in amiss'
             PROVE  mishaps' \cap {"io", "runState"} # {}
  BY DEF Blamed
<1>1. CASE "id" \in amiss
  BY <1>1, TaskKept DEF Blamed
<1>2. CASE "id" \notin amiss
  <2>1. CASE \E type \in Types, project \in Projects, body \in Bodies :
               Update(type, project, body)
    BY <1>2, <2>1 DEF Update
  <2>2. CASE SaveId
    BY <1>2, <2>2 DEF SaveId, Amiss
  <2>3. CASE MarkRunning \/ RecordOutcome \/ LoadTask \/ Log
    BY <1>2, <2>3 DEF MarkRunning, RecordOutcome, LoadTask, Log, SetStatus, Amiss
  <2> QED
    BY <1>2, <2>1, <2>2, <2>3
    DEF Next, vars, Delete, Settles, Evict, Start, RemovePrevious, FailToCreate, Create,
        AnnounceStart, WaitEnds, Reap, AnnounceEnd, Crash
<1> QED BY <1>1, <1>2

\* Until the type is edited, the run's copy of the task is of the type in the file.
Steady == "type" \notin mishaps => run.task.type = stored.type

LEMMA SteadyStep == TypeOK /\ Steady /\ [Next]_vars => Steady'
<1> SUFFICES ASSUME TypeOK, Steady, [Next]_vars, "type" \notin mishaps'
             PROVE  run'.task.type = stored'.type
  BY DEF Steady
<1>1. "type" \notin mishaps /\ stored'.type = stored.type /\ run.task.type = stored.type
  BY TaskKept DEF Steady
<1>2. run'.task = run.task \/ run'.task = stored
  <2>1. run \in Executions
    BY DEF TypeOK
  <2>2. CASE UNCHANGED run
    BY <2>2
  <2>3. CASE Start
    BY <2>3 DEF Start
  <2>4. CASE FailToCreate \/ Create \/ Crash
    BY <2>1, <2>4 DEF FailToCreate, Create, Fail, Crash, Executions
  <2>5. CASE WaitEnds
    BY <2>1, <2>5 DEF WaitEnds, Executions
  <2> QED
    BY <2>2, <2>3, <2>4, <2>5 DEF Next, vars, Update, Delete, Settles, Evict, RemovePrevious,
       MarkRunning, SaveId, AnnounceStart, Reap, Log, RecordOutcome, AnnounceEnd, LoadTask
<1> QED BY <1>1, <1>2

\* From SaveId on, the file names the run's own session or terminal.
Saved ==
    /\ exists /\ "type" \notin mishaps /\ "id" \notin amiss /\ run.id # NoId
    /\ pc \in {"started", "wait"} \cup After \/ Ended
    => Last(stored) = run.id

LEMMA SavedStep == TypeOK /\ Locals /\ Steady /\ Saved /\ [Next]_vars => Saved'
<1> SUFFICES ASSUME TypeOK, Locals, Steady, Saved, [Next]_vars,
                    exists', "type" \notin mishaps', "id" \notin amiss', run'.id # NoId,
                    pc' \in {"started", "wait"} \cup After \/ Ended'
             PROVE  Last(stored)' = run'.id
  BY DEF Saved
<1>0. /\ stored \in Stored /\ run \in Executions
      /\ exists /\ "type" \notin mishaps /\ stored'.type = stored.type
      /\ run.task.type = stored.type
  BY TaskKept DEF TypeOK, Steady
<1>1. CASE SaveId
  <2>1. PICK works \in FileWorks :
          /\ stored' = CASE ~works -> stored
                         [] works /\ run.task.type = "pty" ->
                              [stored EXCEPT !.lastTerminal = run.id]
                         [] works /\ run.task.type # "pty" ->
                              [stored EXCEPT !.lastSession = run.id]
          /\ amiss' = Amiss("id", works)
    BY <1>0, <1>1 DEF SaveId
  <2>2. works
    BY <2>1 DEF Amiss
  <2>3. CASE run.task.type = "pty"
    <3>1. stored' = [stored EXCEPT !.lastTerminal = run.id]
      BY <2>1, <2>2, <2>3
    <3> QED BY <1>0, <1>1, <2>3, <3>1 DEF SaveId, Stored, Last
  <2>4. CASE run.task.type # "pty"
    <3>1. stored' = [stored EXCEPT !.lastSession = run.id]
      BY <2>1, <2>2, <2>4
    <3> QED BY <1>0, <1>1, <2>4, <3>1 DEF SaveId, Stored, Last
  <2> QED BY <2>3, <2>4
<1>2. CASE ~SaveId
  <2>1. Last(stored)' = Last(stored)
    BY <1>0, <1>2, TaskKept DEF Last
  <2>2. run'.id = run.id /\ (pc \in {"started", "wait"} \cup After \/ Ended)
    <3> USE DEF After, Ended, Outcomes
    <3>1. CASE UNCHANGED <<pc, run>>
      BY <3>1
    <3>2. CASE Start \/ RemovePrevious \/ MarkRunning
      BY <3>2 DEF Start, RemovePrevious, MarkRunning, Step
    <3>3. CASE FailToCreate \/ Create
      BY <1>0, <3>3 DEF FailToCreate, Create, Fail, Step, Locals, Before, Executions
    <3>4. CASE AnnounceStart \/ Reap \/ Log \/ RecordOutcome \/ AnnounceEnd
      BY <3>4 DEF AnnounceStart, Reap, Log, RecordOutcome, AnnounceEnd, Step
    <3>5. CASE WaitEnds
      BY <1>0, <3>5 DEF WaitEnds, Executions
    <3>6. CASE Crash \/ LoadTask
      BY <1>0, <3>6 DEF Crash, LoadTask, Step, Locals
    <3> QED
      BY <1>2, <3>1, <3>2, <3>3, <3>4, <3>5, <3>6
      DEF Next, vars, Update, Delete, Settles, Evict
  <2>3. "id" \notin amiss
    BY <1>2, AmissKept
  <2> QED BY <1>0, <2>1, <2>2, <2>3 DEF Saved
<1> QED BY <1>1, <1>2

\* Relay keeps what the run created, unless it was a terminal that timed out.
Kept ==
    /\ mishaps \cap {"type", "evict"} = {} /\ run.id # NoId
    /\ pc \in Going \cup After \/ Ended
    => \/ run.id \in IF run.task.type = "pty" THEN terminals ELSE sessions
       \/ run.task.type = "pty" /\ run.status = "timeout" /\ pc # "reap"

LEMMA KeptStep == TypeOK /\ Locals /\ Kept /\ [Next]_vars => Kept'
<1> SUFFICES ASSUME TypeOK, Locals, Kept, [Next]_vars,
                    mishaps' \cap {"type", "evict"} = {}, run'.id # NoId,
                    pc' \in Going \cup After \/ Ended'
             PROVE  \/ run'.id \in IF run'.task.type = "pty" THEN terminals' ELSE sessions'
                    \/ run'.task.type = "pty" /\ run'.status = "timeout" /\ pc' # "reap"
  BY DEF Kept
<1> USE DEF Going, After, Ended, Outcomes
<1>0. run \in Executions /\ mishaps \cap {"type", "evict"} = {}
  BY TaskKept DEF TypeOK
<1>1. CASE UNCHANGED <<pc, run, sessions, terminals>>
  BY <1>0, <1>1 DEF Kept
<1>2. CASE \E id \in Ids : Evict(id)
  BY <1>2 DEF Evict
<1>3. CASE Start \/ RemovePrevious \/ MarkRunning
  BY <1>3 DEF Start, RemovePrevious, MarkRunning, Step
<1>4. CASE FailToCreate
  BY <1>0, <1>4 DEF FailToCreate, Fail, Step, Locals, Before, Executions
<1>5. CASE Create
  <2>1. pc' = "save" /\ run' = [run EXCEPT !.id = NewId]
    BY <1>0, <1>5 DEF Create, Fail, Step, Locals, Before, Executions
  <2>2. run'.id = NewId /\ run'.task = run.task
    BY <1>0, <2>1 DEF Executions
  <2> QED BY <1>5, <2>2 DEF Create
<1>6. CASE SaveId \/ AnnounceStart \/ Log \/ RecordOutcome \/ AnnounceEnd
  BY <1>0, <1>6
  DEF SaveId, AnnounceStart, Log, RecordOutcome, AnnounceEnd, Step, Kept, Locals
<1>7. CASE WaitEnds
  <2>1. run'.id = run.id /\ run'.task = run.task
    BY <1>0, <1>7 DEF WaitEnds, Executions
  <2>2. UNCHANGED <<sessions, terminals>> /\ pc = "wait" /\ run.status = "running"
    BY <1>7 DEF WaitEnds, Locals
  <2> QED BY <1>0, <2>1, <2>2 DEF Kept
<1>8. CASE Reap
  <2>1. UNCHANGED <<run, sessions>> /\ pc = "reap" /\ pc' = "log" /\ run.status = "timeout"
    BY <1>8 DEF Reap, Step, Locals
  <2> QED BY <1>0, <2>1 DEF Kept
<1>9. CASE Crash \/ LoadTask
  BY <1>0, <1>9 DEF Crash, LoadTask, Step, Locals
<1> QED
  BY <1>1, <1>2, <1>3, <1>4, <1>5, <1>6, <1>7, <1>8, <1>9
  DEF Next, vars, Update, Delete, Settles

\* What relay has of the task, step by step: at most what the file or the run names.
Own == IF stored.type = "pty" THEN terminals ELSE sessions

Left ==
    exists /\ mishaps \subseteq {"evict"} =>
        /\ (IF stored.type = "pty" THEN sessions ELSE terminals) = {}
        /\ pc \in {"down", "idle", "clean"} => Own \subseteq {Last(stored)}
        /\ pc \in {"mark", "create"} => Own = {}
        /\ pc \in Going \cup After =>
              Own \subseteq {run.id} /\ (run.id = NoId => Own = {})

LEMMA LeftStep ==
    TypeOK /\ Locals /\ Steady /\ Saved /\ Blamed /\ Left /\ [Next]_vars => Left'
<1> SUFFICES ASSUME TypeOK, Locals, Steady, Saved, Blamed, Left, [Next]_vars,
                    exists', mishaps' \subseteq {"evict"}
             PROVE  Left'
  BY DEF Left
<1> USE DEF Going, After, Own
<1>0. /\ stored \in Stored /\ run \in Executions
      /\ exists /\ mishaps \subseteq {"evict"} /\ stored'.type = stored.type
      /\ run.task.type = stored.type
  BY TaskKept DEF TypeOK, Steady
<1>1. ~SaveId => Last(stored)' = Last(stored)
  <2>1. "id" \notin amiss'
    BY BlamedStep DEF Blamed
  <2> QED BY <1>0, <2>1, TaskKept DEF Last
<1>2. CASE /\ UNCHANGED <<pc, run>> /\ ~SaveId
           /\ sessions' \subseteq sessions /\ terminals' \subseteq terminals
  BY <1>0, <1>1, <1>2 DEF Left
<1>3. CASE Start
  BY <1>0, <1>1, <1>3 DEF Start, Step, Left
<1>4. CASE RemovePrevious
  <2>1. PICK read \in FileWorks, works \in CleanupWorks :
          LET gone == IF exists /\ read /\ works THEN {Last(stored)} ELSE {}
              pty  == stored.type = "pty"
          IN /\ sessions'  = IF pty THEN sessions ELSE sessions \ gone
             /\ terminals' = IF pty THEN terminals \ gone ELSE terminals
             /\ working'   = working \ gone
             /\ mishaps'   = Mishap(works) \cup (IF read THEN {} ELSE {"io"})
    BY <1>4 DEF RemovePrevious
  <2>2. works /\ read
    BY <2>1 DEF Mishap
  <2>3. Own' = {} /\ (IF stored.type = "pty" THEN sessions' ELSE terminals') = {}
    BY <1>0, <1>4, <2>1, <2>2 DEF Left, RemovePrevious, Step
  <2> QED BY <1>0, <1>4, <2>3 DEF Left, RemovePrevious, Step
<1>5. CASE MarkRunning
  <2>1. ~SaveId
    BY <1>5 DEF MarkRunning, SaveId, Step
  <2> QED BY <1>0, <1>1, <1>5, <2>1 DEF MarkRunning, Step, Left
<1>6. CASE FailToCreate
  BY <1>0, <1>6 DEF FailToCreate, Fail, Step, Left
<1>7. CASE Create
  <2>1. pc = "create" /\ pc' = "save" /\ run' = [run EXCEPT !.id = NewId]
    BY <1>7 DEF Create, Fail, Step
  <2>2. run'.id = NewId /\ NewId # NoId
    BY <1>0, <1>7, <2>1, NewIdIsNew, NoIdAssumption DEF Create, Executions
  <2>3. Own' = {NewId} /\ (IF stored.type = "pty" THEN sessions' ELSE terminals') = {}
    BY <1>0, <1>7, <2>1 DEF Create, Left
  <2> QED BY <1>0, <2>1, <2>2, <2>3 DEF Left
<1>8. CASE SaveId \/ AnnounceStart \/ Log \/ RecordOutcome
  BY <1>0, <1>8 DEF SaveId, AnnounceStart, Log, RecordOutcome, Step, Left
<1>9. CASE WaitEnds
  BY <1>0, <1>9 DEF WaitEnds, Left, Executions
<1>10. CASE Reap
  <2>1. sessions' = sessions /\ terminals' \subseteq terminals
    BY <1>10 DEF Reap
  <2> QED BY <1>0, <1>10, <2>1 DEF Reap, Step, Left
<1>11. CASE AnnounceEnd
  <2>1. pc = "finish" /\ pc' = "idle" /\ UNCHANGED <<run, sessions, terminals, stored>>
    BY <1>11 DEF AnnounceEnd, Step
  <2>2. run.id # NoId => Last(stored) = run.id
    BY <1>0, <2>1 DEF Saved, Blamed
  <2> QED BY <1>0, <2>1, <2>2 DEF Left
<1>12. CASE Crash
  BY <1>12 DEF Crash
<1>13. CASE LoadTask
  <2>1. ~SaveId
    BY <1>13 DEF LoadTask, SaveId, Step
  <2> QED BY <1>0, <1>1, <1>13, <2>1 DEF LoadTask, Step, Left
<1>14. UNCHANGED pc => ~SaveId
  BY DEF SaveId, Step
<1> QED
  BY <1>2, <1>3, <1>4, <1>5, <1>6, <1>7, <1>8, <1>9, <1>10, <1>11, <1>12, <1>13, <1>14
  DEF Next, vars, Update, Delete, Settles, Evict

\* At most one session or terminal in all.
LEMMA OneIsLeft == TypeOK /\ Left => OneLiveRun
<1> SUFFICES ASSUME TypeOK, Left, exists, mishaps \subseteq {"evict"}
             PROVE  Cardinality(sessions \cup terminals) <= 1
  BY DEF OneLiveRun
<1>1. PICK x : Own \subseteq {x}
  BY DEF Left, TypeOK, Going, After
<1>2. sessions \cup terminals = {} \/ sessions \cup terminals = {x}
  BY <1>1 DEF Left, Own
<1>3. Cardinality({}) = 0 /\ Cardinality({x}) = 1
  BY FS_EmptySet, FS_Singleton
<1> QED BY <1>2, <1>3

LEMMA TimeoutStep ==
    TypeOK /\ Locals /\ TimeoutStopsWork /\ [Next]_vars => TimeoutStopsWork'
<1> SUFFICES ASSUME TypeOK, Locals, TimeoutStopsWork, [Next]_vars,
                    run'.status = "timeout", pc' # "reap", "cleanupFails" \notin mishaps'
             PROVE  run'.id \notin working'
  BY DEF TimeoutStopsWork
<1>0. run \in Executions /\ "cleanupFails" \notin mishaps
  BY TaskKept DEF TypeOK
<1>1. CASE UNCHANGED run /\ pc # "reap" /\ working' \subseteq working
  BY <1>0, <1>1 DEF TimeoutStopsWork
<1>2. CASE Start \/ FailToCreate \/ WaitEnds \/ Crash
  BY <1>0, <1>2 DEF Start, FailToCreate, Fail, WaitEnds, Crash, Executions
<1>3. CASE Create
  BY <1>0, <1>3 DEF Create, Fail, Step, Locals, Before, Executions
<1>4. CASE Reap
  <2>1. PICK works \in CleanupWorks :
          /\ working' = IF works THEN working \ {run.id} ELSE working
          /\ mishaps' = Mishap(works)
    BY <1>4 DEF Reap
  <2>2. works /\ run' = run
    BY <1>4, <2>1 DEF Mishap, Reap
  <2> QED BY <2>1, <2>2
<1>5. CASE RemovePrevious
  BY <1>5 DEF RemovePrevious, Step, Locals, Before
<1> QED
  BY <1>0, <1>1, <1>2, <1>3, <1>4, <1>5
  DEF Next, vars, Update, Delete, Settles, Evict, MarkRunning, SaveId, AnnounceStart, Log,
      RecordOutcome, AnnounceEnd, LoadTask, Step

-----------------------------------------------------------------------------
(* The invariant of the runs, and what follows from it.                    *)

RunInv ==
    /\ TypeOK /\ Locals
    /\ Logged /\ Says /\ Announced
    /\ Steady /\ Saved /\ Blamed /\ Kept /\ Left
    /\ TimeoutStopsWork

LEMMA InitRunInv == Init => RunInv
<1> SUFFICES ASSUME Init PROVE RunInv
  OBVIOUS
<1> USE DEF Init
<1>1. PICK type \in Types, project \in Projects, body \in Bodies :
        /\ stored = [type |-> type, project |-> project, status |-> body.status,
                     lastSession |-> body.lastSession,
                     lastTerminal |-> body.lastTerminal]
        /\ amiss = Sent(body)
        /\ mishaps = IF "id" \in Sent(body) THEN {"runState"} ELSE {}
  OBVIOUS
<1>2. TypeOK
  <2>1. stored \in Stored /\ amiss \subseteq {"status", "id", "record"}
    BY <1>1, BodiesAssumption DEF Stored, RunState, Sent
  <2>2. run \in Executions
    BY <2>1 DEF Executions
  <2>3. history \in [Projects -> Seq(Records)]
    OBVIOUS
  <2>4. mishaps \subseteq Edits \cup Faults \cup {"runState"}
    BY <1>1
  <2> QED BY <2>1, <2>2, <2>3, <2>4, RunsAssumption DEF TypeOK
<1>3. Locals
  BY DEF Locals, Before, Going, After
<1>4. Logged
  BY DEF Logged, Recorded, Before, Going, Ended
<1>5. Says /\ Announced /\ Saved /\ Kept
  BY DEF Says, Announced, Saved, Kept, Before, Going, After, Ended
<1>6. Blamed
  BY <1>1 DEF Blamed
<1>7. Steady /\ Left /\ TimeoutStopsWork
  BY DEF Steady, Left, Own, Going, After, TimeoutStopsWork
<1> QED BY <1>2, <1>3, <1>4, <1>5, <1>6, <1>7 DEF RunInv

LEMMA NextRunInv == RunInv /\ [Next]_vars => RunInv'
BY TypeStep, LocalsStep, LoggedStep, SaysStep, AnnouncedStep, SteadyStep, SavedStep, BlamedStep,
   KeptStep, LeftStep, TimeoutStep DEF RunInv

\* Every variable of TaskRun keeps its type.
THEOREM TaskRunTypeCorrect == Spec => []TypeOK
<1>1. RunInv => TypeOK
  BY DEF RunInv
<1> QED BY InitRunInv, NextRunInv, <1>1, PTL DEF Spec

\* As long as no failure and no client comes between an id and its place in the file
\* (SetLastSessionID, SetLastTerminalID, store.Get, Update), relay holds at most one session or terminal of the task (RemovePrevious, then CreateSessionWithTools
\* or CreateTerminal), whatever relay collects and however each run ends.
THEOREM OneRunLives == Spec => []OneLiveRun
<1>1. RunInv => OneLiveRun
  BY OneIsLeft DEF RunInv
<1> QED BY InitRunInv, NextRunInv, <1>1, PTL DEF Spec

\* After a run that the scheduler survives, the history, the task file and the events
\* tell the same, each pair that has not lost its own write (LogStore.Log, SetLastRun)
\* or been overwritten by a client: through edits, deletion, restarts, relay's faults
\* and failing file accesses, in this run and in earlier ones.
THEOREM ThreeAccountsAgree == Spec => []AccountsAgree
<1>1. RunInv => AccountsAgree
  BY AccountsFollow DEF RunInv
<1> QED BY InitRunInv, NextRunInv, <1>1, PTL DEF Spec

\* The file names the session or terminal of the last run once SetLastSessionID or
\* SetLastTerminalID has written it and until a client sends an id of its own, and
\* relay still has it, unless a timeout closed it.
THEOREM LastRunIsOpen == Spec => []LastRunStaysOpen
<1>1. RunInv => LastRunStaysOpen
  BY DEF RunInv, Steady, Saved, Kept, LastRunStaysOpen, Ended
<1> QED BY InitRunInv, NextRunInv, <1>1, PTL DEF Spec

\* A run that is recorded as timed out has nothing working for it in relay
\* (StopGeneration, CloseTerminal), unless the call that stops it failed.
THEOREM TimeoutsStopWork == Spec => []TimeoutStopsWork
<1>1. RunInv => TimeoutStopsWork
  BY DEF RunInv
<1> QED BY InitRunInv, NextRunInv, <1>1, PTL DEF Spec

-----------------------------------------------------------------------------
(* TaskRun implements RunStatus.                                           *)

Unsure == {u \in {"task"} : exists /\ "status" \in amiss}

\* A step that a client who polls the task cannot see.
LEMMA Unseen ==
    ASSUME UNCHANGED exists,
           exists => /\ stored'.status = stored.status
                     /\ (("status" \in amiss') <=> ("status" \in amiss)),
           (pc = "down") <=> (pc' = "down")
    PROVE  UNCHANGED Status!vars
<1>1. StatusOf' = StatusOf
  BY DEF StatusOf
<1>2. (pc # "down")' = (pc # "down")
  OBVIOUS
<1>3. Unsure' = Unsure
  BY DEF Unsure
<1> QED BY <1>1, <1>2, <1>3 DEF Status!vars, Unsure

\* A write of the status is seen as what it is, unless it fails or the task is gone.
LEMMA WriteSeen ==
    ASSUME TypeOK, NEW status \in Outcomes \cup {"running"}, SetStatus(status), exists,
           UNCHANGED exists
    PROVE  \/ /\ StatusOf' = [StatusOf EXCEPT !["task"] = status]
              /\ Unsure' = Unsure \ {"task"}
           \/ /\ StatusOf' = [StatusOf EXCEPT !["task"] = stored.status]
              /\ Unsure' = Unsure \cup {"task"}
<1>1. PICK works \in FileWorks :
        /\ stored' = IF works THEN [stored EXCEPT !.status = status] ELSE stored
        /\ amiss' = Amiss("status", works)
  BY DEF SetStatus
<1>2. CASE works
  <2>1. stored'.status = status
    BY <1>1, <1>2 DEF TypeOK, Stored
  <2>2. "status" \notin amiss'
    BY <1>1, <1>2 DEF Amiss
  <2>3. StatusOf' = [StatusOf EXCEPT !["task"] = status]
    BY <2>1 DEF StatusOf
  <2>4. Unsure' = Unsure \ {"task"}
    BY <2>2 DEF Unsure
  <2> QED BY <2>3, <2>4
<1>3. CASE ~works
  <2>1. stored' = stored /\ "status" \in amiss'
    BY <1>1, <1>3 DEF Amiss
  <2>2. StatusOf' = [StatusOf EXCEPT !["task"] = stored.status]
    BY <2>1 DEF StatusOf
  <2>3. Unsure' = Unsure \cup {"task"}
    BY <2>1 DEF Unsure
  <2> QED BY <2>2, <2>3
<1> QED BY <1>2, <1>3

\* A write that fails, as RunStatus has it.
LEMMA BlurSeen ==
    ASSUME NEW s \in Outcomes \cup {"none", "running"}, exists, pc # "down", pc' # "down",
           StatusOf' = [StatusOf EXCEPT !["task"] = s], Unsure' = Unsure \cup {"task"}
    PROVE  Status!Next
<1>1. DOMAIN StatusOf = {"task"}
  BY DEF StatusOf
<1>2. Status!Blur("task", s)
  BY <1>1 DEF Status!Blur, Status!Set, Status!Exists, Unsure
<1> QED BY <1>2 DEF Status!Next, Status!Statuses, Status!Outcomes, Outcomes

LEMMA NextImplements == RunInv /\ [Next]_vars => [Status!Next]_(Status!vars)
<1> SUFFICES ASSUME RunInv, [Next]_vars PROVE [Status!Next]_(Status!vars)
  OBVIOUS
<1>0. /\ TypeOK /\ stored \in Stored /\ run \in Executions
      /\ DOMAIN StatusOf = {u \in {"task"} : exists}
  BY DEF RunInv, TypeOK, StatusOf
<1>1. CASE \E type \in Types, project \in Projects, body \in Bodies :
              Update(type, project, body)
  <2>1. PICK type \in Types, project \in Projects, body \in Bodies :
          Update(type, project, body)
    BY <1>1
  <2>2. CASE body.status = "none"
    <3>1. stored'.status = stored.status /\ ("status" \in amiss' <=> "status" \in amiss)
      BY <2>1, <2>2 DEF Update, Sent
    <3> QED BY <2>1, <3>1, Unseen DEF Update
  <2>3. CASE body.status # "none"
    <3>1. stored'.status = body.status /\ "status" \in amiss' /\ exists'
      BY <2>1, <2>3 DEF Update, Sent
    <3>2. StatusOf' = [StatusOf EXCEPT !["task"] = body.status]
      BY <2>1, <3>1 DEF Update, StatusOf
    <3>3. Unsure' = Unsure \cup {"task"}
      BY <3>1 DEF Unsure
    <3>4. body.status \in Outcomes \cup {"none", "running"}
      BY BodiesAssumption DEF RunState
    <3> QED BY <2>1, <3>2, <3>3, <3>4, BlurSeen DEF Update
  <2> QED BY <2>2, <2>3
<1>2. CASE Delete
  <2>1. StatusOf' = [u \in DOMAIN StatusOf \ {"task"} |-> StatusOf[u]]
    BY <1>0, <1>2 DEF Delete, StatusOf
  <2>2. Unsure' = Unsure \ {"task"}
    BY <1>2 DEF Delete, Unsure
  <2>3. Status!Vanish({"task"})
    BY <1>2, <2>1, <2>2 DEF Delete, Status!Vanish, Unsure
  <2> QED BY <2>3 DEF Status!Next
<1>3. CASE \/ \E id \in Ids : Settles(id) \/ Evict(id)
           \/ Start \/ RemovePrevious \/ FailToCreate \/ Create \/ AnnounceStart
           \/ WaitEnds \/ Reap \/ AnnounceEnd
  BY <1>3, Unseen DEF Settles, Evict, Start, RemovePrevious, FailToCreate, Create, Fail,
     AnnounceStart, WaitEnds, Reap, AnnounceEnd, Step
<1>4. CASE SaveId
  <2>1. exists => /\ stored'.status = stored.status
                  /\ ("status" \in amiss') <=> ("status" \in amiss)
    BY <1>0, <1>4 DEF SaveId, Stored, Amiss
  <2> QED BY <1>4, <2>1, Unseen DEF SaveId, Step
<1>5. CASE Log
  <2>1. ("status" \in amiss') <=> ("status" \in amiss)
    BY <1>5 DEF Log, Amiss
  <2> QED BY <1>5, <2>1, Unseen DEF Log, Step
<1>6. CASE MarkRunning
  <2>1. CASE ~exists
    BY <1>6, <2>1, Unseen DEF MarkRunning, SetStatus, Step
  <2>2. CASE exists
    <3>1. stored.status # "running" \/ "task" \in Unsure
      BY <1>6, <2>2 DEF RunInv, Says, MarkRunning, Step, Unsure
    <3>2. CASE StatusOf' = [StatusOf EXCEPT !["task"] = "running"]
               /\ Unsure' = Unsure \ {"task"}
      <4>1. StatusOf["task"] = stored.status
        BY <2>2 DEF StatusOf
      <4>2. Status!Begin("task")
        BY <1>0, <1>6, <2>2, <3>1, <3>2, <4>1
        DEF MarkRunning, Step, Status!Begin, Status!Set, Status!Exists, Unsure
      <4> QED BY <4>2 DEF Status!Next
    <3>3. CASE StatusOf' = [StatusOf EXCEPT !["task"] = stored.status]
               /\ Unsure' = Unsure \cup {"task"}
      BY <1>0, <1>6, <2>2, <3>3, BlurSeen DEF MarkRunning, Step, Stored
    <3>4. SetStatus("running") /\ UNCHANGED exists
      BY <1>6 DEF MarkRunning
    <3> QED BY <1>0, <2>2, <3>2, <3>3, <3>4, WriteSeen
  <2> QED BY <2>1, <2>2
<1>7. CASE RecordOutcome
  <2>1. CASE ~exists
    BY <1>7, <2>1, Unseen DEF RecordOutcome, SetStatus, Step
  <2>2. CASE exists
    <3>1. run.status \in Outcomes /\ (stored.status = "running" \/ "task" \in Unsure)
      BY <1>7, <2>2 DEF RunInv, Says, Locals, After, RecordOutcome, Step, Unsure
    <3>2. CASE StatusOf' = [StatusOf EXCEPT !["task"] = run.status]
               /\ Unsure' = Unsure \ {"task"}
      <4>1. StatusOf["task"] = stored.status
        BY <2>2 DEF StatusOf
      <4>2. Status!Finish("task", run.status)
        BY <1>0, <1>7, <2>2, <3>1, <3>2, <4>1
        DEF RecordOutcome, Step, Status!Finish, Status!Set, Status!Exists, Unsure
      <4> QED BY <3>1, <4>2 DEF Status!Next, Status!Outcomes, Outcomes
    <3>3. CASE StatusOf' = [StatusOf EXCEPT !["task"] = stored.status]
               /\ Unsure' = Unsure \cup {"task"}
      BY <1>0, <1>7, <2>2, <3>3, BlurSeen DEF RecordOutcome, Step, Stored
    <3>4. SetStatus(run.status) /\ UNCHANGED exists
      BY <1>7 DEF RecordOutcome
    <3> QED BY <1>0, <2>2, <3>1, <3>2, <3>3, <3>4, WriteSeen
  <2> QED BY <2>1, <2>2
<1>8. CASE Crash
  <2>1. Status!Die
    BY <1>8 DEF Crash, StatusOf, Status!Die
  <2> QED BY <2>1 DEF Status!Next
<1>9. CASE LoadTask
  <2> DEFINE stale == {t \in DOMAIN StatusOf : StatusOf[t] = "running"}
  <2>0. UNCHANGED exists /\ pc = "down" /\ pc' # "down"
    BY <1>9 DEF LoadTask, Step
  <2>1. /\ Unsure' \in SUBSET stale
        /\ StatusOf' = [t \in DOMAIN StatusOf |->
                          IF StatusOf[t] = "running" /\ t \notin Unsure'
                          THEN "error" ELSE StatusOf[t]]
    <3>1. CASE ~exists
      BY <2>0, <3>1 DEF StatusOf, Unsure
    <3>2. CASE exists /\ stored.status # "running"
      <4>1. stored' = stored /\ "status" \notin amiss'
        BY <1>9, <3>2 DEF LoadTask
      <4> QED BY <2>0, <3>2, <4>1 DEF StatusOf, Unsure
    <3>3. CASE exists /\ stored.status = "running"
      <4>1. SetStatus("error")
        BY <1>9, <3>3 DEF LoadTask
      <4>2. PICK works \in FileWorks :
              /\ stored' = IF works THEN [stored EXCEPT !.status = "error"] ELSE stored
              /\ amiss' = Amiss("status", works)
        BY <3>3, <4>1 DEF SetStatus
      <4>3. CASE works
        <5>1. stored'.status = "error" /\ "status" \notin amiss'
          BY <1>0, <4>2, <4>3 DEF Amiss, Stored
        <5> QED BY <2>0, <3>3, <5>1 DEF StatusOf, Unsure
      <4>4. CASE ~works
        <5>1. stored' = stored /\ "status" \in amiss'
          BY <4>2, <4>4 DEF Amiss
        <5> QED BY <2>0, <3>3, <5>1 DEF StatusOf, Unsure
      <4> QED BY <4>3, <4>4
    <3> QED BY <3>1, <3>2, <3>3
  <2>2. Status!Recover
    BY <2>0, <2>1 DEF Status!Recover, Unsure
  <2> QED BY <2>2 DEF Status!Next
<1>10. CASE UNCHANGED vars
  BY <1>10, Unseen DEF vars
<1> QED
  BY <1>1, <1>2, <1>3, <1>4, <1>5, <1>6, <1>7, <1>8, <1>9, <1>10 DEF Next

\* To a client that polls one task, its runs, call by call, look like RunStatus:
\* "running" once a run, then one outcome, and "error" after a crash, whatever fails;
\* from a status that a client sends or a status write that fails (store.go, Update
\* and updateTask) to the next write, the status is unsure there as here.
THEOREM RunsImplementStatus == Spec => ImplementsRunStatus
<1>1. Init => Status!Init
  <2> SUFFICES ASSUME Init PROVE Status!Init
    OBVIOUS
  <2>1. stored.status \in Status!Statuses
    BY BodiesAssumption DEF Init, RunState, Status!Statuses, Status!Outcomes, Outcomes
  <2>2. StatusOf = [t \in {"task"} |-> stored.status]
    BY DEF Init, StatusOf
  <2> QED BY <2>1, <2>2 DEF Init, Status!Init
<1> QED
  BY InitRunInv, NextRunInv, NextImplements, <1>1, PTL
  DEF Spec, ImplementsRunStatus, Status!Spec

=============================================================================
