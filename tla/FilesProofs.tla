----------------------------- MODULE FilesProofs -----------------------------
(***************************************************************************)
(* The file of tasks is an atomic store, an outcome it holds has its       *)
(* record in the history, and a history has the newest records, for any    *)
(* number of callers, tasks and runs and whichever system calls fail.      *)
(***************************************************************************)
EXTENDS Files, FiniteSetTheorems, TLAPS

\* What makes a call that replaces the file atomic: only the holder of the lock is
\* past "lock", the file is still the one it has read, and what it is about to
\* rename is what it has made of it.
LockInv ==
    /\ \A c \in Callers : (call[c].stage \in Locked) <=> (holder = c)
    /\ \A c \in Callers :
          /\ call[c].stage \in Logging => call[c].op.kind = "finish"
          /\ call[c].stage \in Waiting \cup {"read"} \cup Writing => call[c].status = "ok"
          /\ call[c].stage \in Writing =>
                /\ call[c].seen = Parsed(file)
                /\ Store!Affected(call[c].op, call[c].seen) # {}
          /\ call[c].stage = "rename" =>
                tmp = Store!Applied(call[c].op, call[c].seen)

Inv == TypeOK /\ LockInv

-----------------------------------------------------------------------------
(* The operators.                                                          *)

LEMMA ParsedType ==
    ASSUME NEW f \in Store!Contents \cup {Missing}
    PROVE  Parsed(f) \in Store!Contents
BY DEF Parsed, Store!Contents

LEMMA ChangedType ==
    ASSUME NEW op \in Store!Op, NEW x \in [def : Defs, last : Store!Lasts] \cup {NoTask},
           op.kind = "create" \/ x # NoTask
    PROVE  Store!Changed(op, x) \in [def : Defs, last : Store!Lasts] \cup {NoTask}
<1>0. {0, Running, Lost, Sent} \cup Runs = Store!Lasts
  BY MaxRunsAssumption DEF Runs, Store!Lasts
<1>1. CASE op.kind = "create"
  <2>1. op.def \in Defs /\ op.last \in Store!Lasts
    BY <1>0, <1>1 DEF Store!Op
  <2>. QED
    BY <1>1, <2>1 DEF Store!Changed
<1>2. CASE op.kind = "update"
  <2>1. op.def \in Defs /\ op.last \in Store!Lasts
    BY <1>0, <1>2 DEF Store!Op
  <2>2. x \in [def : Defs, last : Store!Lasts]
    BY <1>2
  <2>3. CASE op.last = 0
    BY <1>2, <2>1, <2>2, <2>3 DEF Store!Changed
  <2>4. CASE op.last # 0
    BY <1>2, <2>1, <2>4 DEF Store!Changed
  <2>. QED
    BY <2>3, <2>4
<1>3. CASE op.kind = "finish"
  <2>1. op.last \in Store!Lasts
    BY <1>0, <1>3 DEF Store!Op
  <2>. QED
    BY <1>3, <2>1 DEF Store!Changed
<1>4. CASE op.kind \in {"mark", "reset"}
  BY <1>0, <1>4 DEF Store!Changed
<1>5. CASE op.kind \in {"delete", "load"}
  BY <1>5 DEF Store!Changed
<1>6. op.kind \in {"create", "update", "finish", "mark", "reset", "delete", "load"}
  BY DEF Store!Op
<1>. QED
  BY <1>1, <1>2, <1>3, <1>4, <1>5, <1>6

LEMMA AppliedType ==
    ASSUME NEW op \in Store!Op, NEW v \in Store!Contents
    PROVE  Store!Applied(op, v) \in Store!Contents
<1>1. ASSUME NEW t \in Store!Affected(op, v), t \in Tasks
      PROVE  Store!Changed(op, v[t]) \in [def : Defs, last : Store!Lasts] \cup {NoTask}
  <2>1. v[t] \in [def : Defs, last : Store!Lasts] \cup {NoTask}
    BY <1>1 DEF Store!Contents
  <2>2. op.kind = "create" \/ v[t] # NoTask
    BY <1>1 DEF Store!Affected, Store!Op
  <2>. QED
    BY <2>1, <2>2, ChangedType
<1>. QED
  BY <1>1 DEF Store!Applied, Store!Contents

\* A call that has nothing to change leaves the contents alone.
LEMMA NothingToApply ==
    ASSUME NEW op, NEW v \in Store!Contents, Store!Affected(op, v) = {}
    PROVE  Store!Applied(op, v) = v
BY DEF Store!Applied, Store!Contents

-----------------------------------------------------------------------------
(* The invariant.                                                          *)

LEMMA ActiveCall ==
    ASSUME TypeOK, NEW c \in Callers, call[c].stage # "idle"
    PROVE  call[c] \in Active
BY DEF TypeOK, Store!Idle

LEMMA IdleStage == Store!Idle.stage \notin Waiting \cup Locked
BY DEF Store!Idle, Waiting, Logging, Locked, Writing

LEMMA InitInv == Init => Inv
<1>. SUFFICES ASSUME Init PROVE Inv
  OBVIOUS
<1>1. TypeOK
  BY DEF Init, TypeOK
<1>2. \A c \in Callers : call[c].stage \notin Waiting \cup Locked
  BY IdleStage DEF Init
<1>3. LockInv
  BY <1>2, AbsentAssumption DEF Init, LockInv, Waiting, Locked, Writing
<1>. QED
  BY <1>1, <1>3 DEF Inv

\* A step of one call that leaves the lock and the file alone keeps the invariant if
\* it keeps what the invariant says of that call.
LEMMA OneCall ==
    ASSUME Inv, NEW c \in Callers, NEW x \in {Store!Idle} \cup Active,
           call' = [call EXCEPT ![c] = x],
           UNCHANGED <<file, holder>>,
           (x.stage \in Locked) <=> (holder = c),
           x.stage \in Logging => x.op.kind = "finish",
           x.stage \in Waiting \cup {"read"} \cup Writing => x.status = "ok",
           x.stage \in Writing => /\ x.seen = Parsed(file)
                                  /\ Store!Affected(x.op, x.seen) # {},
           tmp' \in Store!Contents \cup {Missing, Torn},
           tmp' # tmp => holder = c,
           x.stage = "rename" => tmp' = Store!Applied(x.op, x.seen),
           dropped' \subseteq Runs, stale' \subseteq Tasks
    PROVE  Inv'
<1>1. TypeOK'
  BY DEF Inv, TypeOK
<1>2. ASSUME NEW d \in Callers, d # c, call[d].stage = "rename"
      PROVE  tmp' = tmp
  BY <1>2 DEF Inv, LockInv, Locked, Writing
<1>3. \A d \in Callers : call'[d] = IF d = c THEN x ELSE call[d]
  BY DEF Inv, TypeOK
<1>4. LockInv'
  BY <1>2, <1>3 DEF Inv, LockInv
<1>. QED
  BY <1>1, <1>4 DEF Inv

LEMMA StageSets ==
    /\ Logging \cap Locked = {} /\ "lock" \notin Logging \cup Locked
    /\ Waiting = Logging \cup {"lock"} /\ Locked = Writing \cup {"read", "unlock"}
    /\ Writing = {"open", "fill", "rename"}
    /\ Logging = {"load log", "open draft", "fill draft", "rename draft"}
BY DEF Logging, Waiting, Locked, Writing

LEMMA BeginInv ==
    ASSUME Inv, NEW c \in Callers, NEW op \in Requests, Begin(c, op)
    PROVE  Inv'
<1>. DEFINE x == Calling(op, "lock")
<1>1. op \in Store!Op
  BY RequestsAssumption
<1>2. x \in Active /\ x.stage = "lock" /\ x.status = "ok"
  BY <1>1, StageSets DEF Calling, Active, Store!Statuses
<1>3. holder # c
  BY IdleStage, StageSets DEF Begin, At, Inv, LockInv, Store!Idle
<1>4. call' = [call EXCEPT ![c] = x] /\ UNCHANGED <<file, tmp, holder, stale, dropped>>
  BY DEF Begin, taskVars, logVars
<1>. QED
  BY <1>2, <1>3, <1>4, OneCall, StageSets DEF Inv, TypeOK

LEMMA EndRunInv ==
    ASSUME Inv, NEW c \in Callers, NEW t \in Tasks, EndRun(c, t)
    PROVE  Inv'
<1>. DEFINE op == [kind |-> "finish", tasks |-> {t}, last |-> LastRun + 1]
            x  == Calling(op, "load log")
<1>1. op \in Store!Op
  BY DEF EndRun, Store!Op
<1>2. /\ x \in Active /\ x.stage = "load log" /\ x.status = "ok"
      /\ x.op.kind = "finish"
  BY <1>1, StageSets DEF Calling, Active, Store!Statuses
<1>3. holder # c
  BY StageSets DEF EndRun, At, Inv, LockInv
<1>4. call' = [call EXCEPT ![c] = x] /\ UNCHANGED <<file, tmp, holder, stale, dropped>>
  BY DEF EndRun, taskVars
<1>. HIDE DEF x
<1>. QED
  BY <1>2, <1>3, <1>4, OneCall, StageSets DEF Inv, TypeOK

LEMMA StartRunInv ==
    ASSUME Inv, NEW c \in Callers, NEW t \in Tasks, StartRun(c, t) \/ Reset(c, t)
    PROVE  Inv'
<1>1. PICK kind \in {"mark", "reset"} :
         call' = [call EXCEPT ![c] = Calling([kind |-> kind, tasks |-> {t}], "lock")]
  BY DEF StartRun, Reset
<1>. DEFINE op == [kind |-> kind, tasks |-> {t}]
            x  == Calling(op, "lock")
<1>2. op \in Store!Op
  BY DEF Store!Op
<1>3. x \in Active /\ x.stage = "lock" /\ x.status = "ok"
  BY <1>2, StageSets DEF Calling, Active, Store!Statuses
<1>4. holder # c
  BY StageSets DEF StartRun, Reset, At, Inv, LockInv
<1>5. /\ call' = [call EXCEPT ![c] = x] /\ UNCHANGED <<file, tmp, holder, dropped>>
      /\ stale' \subseteq Tasks
  BY <1>1 DEF StartRun, Reset, taskVars, logVars, Inv, TypeOK
<1>. HIDE DEF x
<1>. QED
  BY <1>3, <1>4, <1>5, OneCall, StageSets DEF Inv, TypeOK

LEMMA LogInv ==
    ASSUME Inv, NEW c \in Callers, NEW t \in Tasks, Log(c, t)
    PROVE  Inv'
<1>1. PICK from \in Logging, to \in Waiting : LogStep(c, t, from, to)
  BY StageSets DEF Log, LoadLog, OpenDraft, FillDraft, RenameDraft, DropRecord
<1>. DEFINE x == [call[c] EXCEPT !.stage = to]
<1>2. call[c] \in Active /\ call[c].stage = from
  BY <1>1, ActiveCall, StageSets DEF LogStep, At, Inv
<1>3. call[c].op.kind = "finish" /\ call[c].status = "ok" /\ holder # c
  BY <1>2, StageSets DEF Inv, LockInv
<1>4. call[c].op.last \in Runs
  BY <1>2, <1>3 DEF Active, Store!Op
<1>5. /\ x \in Active /\ x.stage = to /\ x.status = "ok"
      /\ x.op.kind = "finish"
  BY <1>2, <1>3 DEF Active
<1>6. dropped' \subseteq Runs
  BY <1>4 DEF Log, LoadLog, OpenDraft, FillDraft, RenameDraft, DropRecord, Inv, TypeOK
<1>7. call' = [call EXCEPT ![c] = x] /\ UNCHANGED <<file, tmp, holder, stale>>
  BY <1>1 DEF LogStep, Goto, taskVars
<1>. HIDE DEF x
<1>. QED
  BY <1>3, <1>5, <1>6, <1>7, OneCall, StageSets DEF Inv, TypeOK

LEMMA LockStepInv ==
    ASSUME Inv, NEW c \in Callers, Lock(c)
    PROVE  Inv'
<1>1. call[c] \in Active /\ call[c].stage = "lock" /\ holder = Nothing
  BY ActiveCall DEF Lock, At, Inv
<1>2. \A d \in Callers : call'[d] = IF d = c THEN [call[c] EXCEPT !.stage = "read"]
                                             ELSE call[d]
  BY DEF Lock, Goto, Inv, TypeOK
<1>3. [call[c] EXCEPT !.stage = "read"] \in Active
  BY <1>1, StageSets DEF Active
<1>4. /\ [call[c] EXCEPT !.stage = "read"].stage = "read"
      /\ [call[c] EXCEPT !.stage = "read"].status = "ok"
  BY <1>1, StageSets DEF Active, Inv, LockInv
<1>5. UNCHANGED <<file, tmp, stale, dropped>> /\ holder' = c
  BY DEF Lock, logVars
<1>6. TypeOK'
  BY <1>3, <1>5 DEF Lock, Goto, Inv, TypeOK
<1>7. \A d \in Callers : call[d].stage \notin Locked
  BY <1>1, AbsentAssumption DEF Inv, LockInv
<1>8. LockInv'
  BY <1>2, <1>4, <1>5, <1>7, StageSets DEF Inv, LockInv
<1>. QED
  BY <1>6, <1>8 DEF Inv

\* GiveUp, from any stage under the lock.
LEMMA GiveUpInv ==
    ASSUME Inv, NEW c \in Callers, call[c].stage \in Locked, GiveUp(c),
           UNCHANGED <<holder, stale, dropped>>
    PROVE  Inv'
<1>. DEFINE x == [stage |-> "unlock", op |-> call[c].op, status |-> "error",
                  seen |-> Nothing]
<1>1. call[c] \in Active
  BY ActiveCall, StageSets DEF Inv
<1>2. x \in Active /\ x.stage = "unlock"
  BY <1>1, StageSets DEF Active, Store!Statuses
<1>3. call' = [call EXCEPT ![c] = x] /\ UNCHANGED <<file, tmp>>
  BY DEF GiveUp
<1>. HIDE DEF x
<1>4. holder = c
  BY DEF Inv, LockInv
<1>. QED
  BY <1>2, <1>3, <1>4, OneCall, StageSets DEF Inv, TypeOK, Waiting

LEMMA ReadInv ==
    ASSUME Inv, NEW c \in Callers, Read(c)
    PROVE  Inv'
<1>1. /\ call[c] \in Active /\ call[c].stage = "read" /\ call[c].status = "ok"
      /\ UNCHANGED <<holder, stale, dropped>>
  BY ActiveCall DEF Read, At, Inv, LockInv, logVars
<1>2. holder = c
  BY <1>1, StageSets DEF Inv, LockInv
<1>3. CASE GiveUp(c)
  BY <1>1, <1>3, GiveUpInv, StageSets
<1>4. CASE ~GiveUp(c)
  <2>. DEFINE v == Parsed(file)
              x == [stage  |-> IF Store!Affected(call[c].op, v) = {} THEN "unlock"
                                                                    ELSE "open",
                    op     |-> call[c].op,
                    status |-> Store!Verdict(call[c].op, v),
                    seen   |-> v]
  <2>1. v \in Store!Contents
    BY ParsedType DEF Inv, TypeOK
  <2>2. Store!Verdict(call[c].op, v) \in Store!Statuses
    BY DEF Store!Verdict, Store!Statuses
  <2>3. x \in Active /\ x.seen = v /\ x.op = call[c].op
    BY <1>1, <2>1, <2>2, StageSets DEF Active
  <2>4. CASE Store!Affected(call[c].op, v) = {}
    <3>1. x.stage = "unlock"
      BY <1>1, <2>4 DEF Active
    <3>2. call' = [call EXCEPT ![c] = x] /\ UNCHANGED <<file, tmp>>
      BY <1>4 DEF Read
    <3>. HIDE DEF x
    <3>. QED
      BY <1>1, <1>2, <2>3, <3>1, <3>2, OneCall, StageSets DEF Inv, TypeOK
  <2>5. CASE Store!Affected(call[c].op, v) # {}
    <3>1. x.stage = "open" /\ x.status = "ok"
      BY <1>1, <2>5 DEF Active, Store!Verdict
    <3>2. call' = [call EXCEPT ![c] = x] /\ UNCHANGED <<file, tmp>>
      BY <1>4 DEF Read
    <3>. HIDE DEF x
    <3>. QED
      BY <1>1, <1>2, <2>3, <2>5, <3>1, <3>2, OneCall, StageSets DEF Inv, TypeOK
  <2>. QED
    BY <2>4, <2>5
<1>. QED
  BY <1>3, <1>4

\* What the holder of the lock knows while it replaces the file.
LEMMA Holding ==
    ASSUME Inv, NEW c \in Callers, call[c].stage \in Writing
    PROVE  /\ call[c] \in Active /\ holder = c
           /\ call[c].status = "ok" /\ call[c].seen = Parsed(file)
           /\ call[c].seen \in Store!Contents
           /\ Store!Affected(call[c].op, call[c].seen) # {}
           /\ Store!Applied(call[c].op, call[c].seen) \in Store!Contents
           /\ \A d \in Callers : d # c => call[d].stage \notin Locked
<1>1. call[c] \in Active
  BY ActiveCall, StageSets DEF Inv
<1>2. /\ holder = c /\ call[c].status = "ok" /\ call[c].seen = Parsed(file)
      /\ Store!Affected(call[c].op, call[c].seen) # {}
  BY StageSets DEF Inv, LockInv
<1>3. call[c].seen \in Store!Contents
  BY <1>2, ParsedType DEF Inv, TypeOK
<1>4. Store!Applied(call[c].op, call[c].seen) \in Store!Contents
  BY <1>1, <1>3, AppliedType DEF Active
<1>. QED
  BY <1>1, <1>2, <1>3, <1>4 DEF Inv, LockInv

LEMMA OpenFillInv ==
    ASSUME Inv, NEW c \in Callers, Open(c) \/ Fill(c)
    PROVE  Inv'
<1>1. call[c].stage \in Writing /\ UNCHANGED <<holder, stale, dropped>>
  BY StageSets DEF Open, Fill, At, logVars
<1>2. CASE GiveUp(c)
  BY <1>1, <1>2, GiveUpInv, StageSets
<1>3. CASE ~GiveUp(c)
  <2>1. PICK to \in {"fill", "rename"} :
           /\ call' = [call EXCEPT ![c] = [call[c] EXCEPT !.stage = to]]
           /\ UNCHANGED file
           /\ tmp' \in {Torn, Store!Applied(call[c].op, call[c].seen)}
           /\ to = "rename" => tmp' = Store!Applied(call[c].op, call[c].seen)
    BY <1>3 DEF Open, Fill, Goto
  <2>. DEFINE x == [call[c] EXCEPT !.stage = to]
  <2>2. /\ x \in Active /\ x.stage = to /\ x.status = "ok" /\ x.op = call[c].op
        /\ x.seen = call[c].seen
    BY <1>1, Holding, StageSets DEF Active
  <2>. HIDE DEF x
  <2>3. call' = [call EXCEPT ![c] = x] /\ UNCHANGED <<file, holder>>
    BY <1>1, <2>1 DEF x
  <2>4. /\ (x.stage \in Locked) <=> (holder = c)
        /\ x.stage \notin Logging
        /\ x.seen = Parsed(file) /\ Store!Affected(x.op, x.seen) # {}
        /\ tmp' \in Store!Contents \cup {Missing, Torn}
    BY <1>1, <2>1, <2>2, Holding, StageSets
  <2>5. /\ holder = c /\ dropped' \subseteq Runs /\ stale' \subseteq Tasks
        /\ x.stage = "rename" => tmp' = Store!Applied(x.op, x.seen)
    BY <1>1, <2>1, <2>2, Holding DEF Inv, TypeOK
  <2>. QED
    BY <2>2, <2>3, <2>4, <2>5, OneCall
<1>. QED
  BY <1>2, <1>3

LEMMA RenameInv ==
    ASSUME Inv, NEW c \in Callers, Rename(c)
    PROVE  Inv'
<1>1. /\ call[c].stage = "rename" /\ call[c].stage \in Writing
      /\ UNCHANGED <<holder, stale, dropped>>
  BY StageSets DEF Rename, At, logVars
<1>2. CASE GiveUp(c)
  BY <1>1, <1>2, GiveUpInv, StageSets
<1>3. CASE ~GiveUp(c)
  <2>. DEFINE x == [call[c] EXCEPT !.stage = "unlock"]
  <2>1. /\ file' = tmp /\ tmp' = Missing /\ call' = [call EXCEPT ![c] = x]
        /\ tmp \in Store!Contents
    BY <1>1, <1>3, Holding DEF Rename, Goto, Inv, LockInv
  <2>2. x \in Active /\ x.stage = "unlock"
    BY <1>1, Holding, StageSets DEF Active
  <2>. HIDE DEF x
  <2>3. TypeOK'
    BY <1>1, <2>1, <2>2 DEF Inv, TypeOK
  <2>4. \A d \in Callers : call'[d] = IF d = c THEN x ELSE call[d]
    BY <2>1 DEF Inv, TypeOK
  <2>5. \A d \in Callers : d # c => call[d].stage \notin Locked
    BY <1>1, Holding
  <2>6. LockInv'
    BY <1>1, <2>2, <2>4, <2>5, Holding, StageSets DEF Inv, LockInv
  <2>. QED
    BY <2>3, <2>6 DEF Inv
<1>. QED
  BY <1>2, <1>3

LEMMA UnlockInv ==
    ASSUME Inv, NEW c \in Callers, Unlock(c)
    PROVE  Inv'
<1>1. /\ call[c].stage = "unlock" /\ holder' = Nothing
      /\ UNCHANGED <<file, tmp, stale, dropped>>
  BY DEF Unlock, At, logVars
<1>2. \A d \in Callers : call'[d] = IF d = c THEN Store!Idle ELSE call[d]
  BY DEF Unlock, Inv, TypeOK
<1>3. holder = c
  BY <1>1, StageSets DEF Inv, LockInv
<1>4. TypeOK'
  BY <1>1 DEF Unlock, Inv, TypeOK
<1>5. LockInv'
  BY <1>1, <1>2, <1>3, IdleStage, StageSets, AbsentAssumption DEF Inv, LockInv
<1>. QED
  BY <1>4, <1>5 DEF Inv

LEMMA CrashInv == ASSUME Inv, Crash PROVE Inv'
<1>1. /\ call' = [c \in Callers |-> Store!Idle] /\ UNCHANGED <<file, tmp>>
      /\ holder' = Nothing
  BY DEF Crash
<1>2. ASSUME NEW c \in Callers, call[c].stage \in Logging
      PROVE  call[c].op.last \in Runs
  <2>1. call[c] \in Active /\ call[c].op.kind = "finish"
    BY <1>2, ActiveCall, StageSets DEF Inv, LockInv
  <2>. QED
    BY <2>1 DEF Active, Store!Op
<1>3. dropped' \subseteq Runs
  BY <1>2 DEF Crash, Inv, TypeOK
<1>. DEFINE left == LeftRunning
<1>4. left \subseteq Tasks /\ stale' \in {left, {}}
  BY DEF Crash, LeftRunning
<1>. HIDE DEF left
<1>5. TypeOK'
  BY <1>1, <1>3, <1>4 DEF Inv, TypeOK
<1>6. LockInv'
  BY <1>1, IdleStage, StageSets, AbsentAssumption DEF LockInv
<1>. QED
  BY <1>5, <1>6 DEF Inv

LEMMA NextInv == Inv /\ [Next]_vars => Inv'
<1>. SUFFICES ASSUME Inv, [Next]_vars PROVE Inv'
  OBVIOUS
<1>1. CASE UNCHANGED vars
  BY <1>1 DEF vars, taskVars, logVars, Inv, TypeOK, LockInv
<1>2. ASSUME NEW c \in Callers, Step(c) PROVE Inv'
  BY <1>2, ReadInv, OpenFillInv, RenameInv, UnlockInv, LogInv DEF Step
<1>. QED
  BY <1>1, <1>2, BeginInv, StartRunInv, EndRunInv, LockStepInv, CrashInv DEF Next

\* The types, for every value of the constants.
THEOREM FilesTypeCorrect == Spec => []TypeOK
<1>1. Inv => TypeOK
  BY DEF Inv
<1>. QED
  BY <1>1, InitInv, NextInv, PTL DEF Spec

-----------------------------------------------------------------------------
(* The refinement.                                                         *)

LEMMA OutwardIdle == Outward(Store!Idle) = Store!Idle
BY StageSets DEF Outward, Store!Idle

LEMMA InitImplementsStore == Init => Store!Init
<1>. SUFFICES ASSUME Init PROVE Store!Init
  OBVIOUS
<1>1. \A c \in Callers : Outward(call[c]) = Store!Idle
  BY OutwardIdle DEF Init
<1>. QED
  BY <1>1 DEF Init, Parsed, Store!Init

\* A step of one call that is outwardly another call.
LEMMA OutwardStep ==
    ASSUME TypeOK, NEW c \in Callers, NEW x, call' = [call EXCEPT ![c] = x]
    PROVE  [d \in Callers |-> Outward(call[d])]'
             = [[d \in Callers |-> Outward(call[d])] EXCEPT ![c] = Outward(x)]
BY DEF TypeOK

\* What can be seen of a call before and after its effect.
LEMMA OutwardActive ==
    ASSUME NEW x \in Active
    PROVE  /\ x.stage \in Waiting \cup Writing \cup {"read"} =>
                Outward(x) = Store!Called(x.op, x.status)
           /\ x.stage = "unlock" => Outward(x) = Store!Done(x.op, x.status, x.seen)
<1>1. ASSUME x.stage \in Waiting \cup Writing \cup {"read"}
      PROVE  Outward(x) = Store!Called(x.op, x.status)
  BY <1>1, StageSets DEF Outward, Store!Called
<1>2. ASSUME x.stage = "unlock"
      PROVE  Outward(x) = Store!Done(x.op, x.status, x.seen)
  <2>1. Outward(x) = [x EXCEPT !.stage = "done"]
    BY <1>2, StageSets DEF Outward
  <2>. QED
    BY <2>1 DEF Active, Store!Done
<1>. QED
  BY <1>1, <1>2

\* The steps between the start of a call and its effect.
LEMMA Hidden ==
    ASSUME TypeOK, NEW c \in Callers, NEW x \in Active,
           call' = [call EXCEPT ![c] = x], UNCHANGED file,
           call[c].stage \in Waiting \cup Writing \cup {"read"},
           x.stage \in Waiting \cup Writing \cup {"read"},
           x.op = call[c].op, x.status = call[c].status
    PROVE  UNCHANGED Store!vars
<1>1. call[c] \in Active
  BY ActiveCall, StageSets
<1>2. Outward(x) = Outward(call[c])
  BY <1>1, OutwardActive
<1>3. [d \in Callers |-> Outward(call[d])]' = [d \in Callers |-> Outward(call[d])]
  BY <1>2, OutwardStep
<1>4. Parsed(file)' = Parsed(file)
  BY DEF Parsed
<1>. QED
  BY <1>3, <1>4 DEF Store!vars

\* A call that ends, with an effect or without.
LEMMA Ending ==
    ASSUME TypeOK, NEW c \in Callers, NEW x \in Active,
           call' = [call EXCEPT ![c] = x],
           call[c].stage \in Writing \cup {"read"},
           x.stage = "unlock", x.op = call[c].op
    PROVE  /\ Outward(call[c]) = Store!Called(call[c].op, call[c].status)
           /\ [d \in Callers |-> Outward(call[d])]'
                = [[d \in Callers |-> Outward(call[d])] EXCEPT ![c] =
                      Store!Done(call[c].op, x.status, x.seen)]
<1>1. Outward(call[c]) = Store!Called(call[c].op, call[c].status)
  BY ActiveCall, OutwardActive, StageSets
<1>2. Outward(x) = Store!Done(call[c].op, x.status, x.seen)
  BY OutwardActive
<1>. QED
  BY <1>1, <1>2, OutwardStep

LEMMA CalledFields ==
    ASSUME NEW op, NEW status
    PROVE  Store!Called(op, status).stage = "called" /\ Store!Called(op, status).op = op
BY DEF Store!Called

LEMMA GiveUpFails ==
    ASSUME Inv, NEW c \in Callers, GiveUp(c),
           call[c].stage \in Writing \cup {"read"}
    PROVE  Store!Fail(c)
<1>. DEFINE x == [stage |-> "unlock", op |-> call[c].op, status |-> "error",
                  seen |-> Nothing]
<1>1. /\ x \in Active /\ x.stage = "unlock" /\ x.op = call[c].op
      /\ x.status = "error" /\ x.seen = Nothing
  BY ActiveCall, StageSets DEF Inv, Active, Store!Statuses
<1>2. call' = [call EXCEPT ![c] = x] /\ UNCHANGED file
  BY DEF GiveUp
<1>. HIDE DEF x
<1>3. /\ Outward(call[c]) = Store!Called(call[c].op, call[c].status)
      /\ [d \in Callers |-> Outward(call[d])]'
           = [[d \in Callers |-> Outward(call[d])] EXCEPT ![c] =
                 Store!Done(call[c].op, "error", Nothing)]
  BY <1>1, <1>2, Ending DEF Inv
<1>4. Outward(call[c]).stage = "called" /\ Outward(call[c]).op = call[c].op
  BY <1>3, CalledFields
<1>5. Parsed(file)' = Parsed(file)
  BY <1>2 DEF Parsed
<1>. QED
  BY <1>3, <1>4, <1>5 DEF Store!Fail

\* The instant at which a call takes effect: the rename, or the read of a call that
\* finds nothing to change.
LEMMA Effect ==
    ASSUME Inv, NEW c \in Callers, NEW x \in Active,
           call' = [call EXCEPT ![c] = x],
           call[c].stage \in Writing \cup {"read"},
           x.stage = "unlock", x.op = call[c].op, x.seen = Parsed(file),
           x.status = Store!Verdict(call[c].op, Parsed(file)),
           Parsed(file)' = Store!Applied(call[c].op, Parsed(file))
    PROVE  Store!TakeEffect(c)
<1>1. /\ Outward(call[c]) = Store!Called(call[c].op, call[c].status)
      /\ [d \in Callers |-> Outward(call[d])]'
           = [[d \in Callers |-> Outward(call[d])] EXCEPT ![c] =
                 Store!Done(call[c].op, x.status, x.seen)]
  BY Ending DEF Inv
<1>2. Outward(call[c]).stage = "called" /\ Outward(call[c]).op = call[c].op
  BY <1>1, CalledFields
<1>. QED
  BY <1>1, <1>2 DEF Store!TakeEffect

\* The steps that are no step of the store: Log, Lock, and the writing of tmp.
LEMMA InternalSteps ==
    ASSUME Inv, NEW c \in Callers,
           \/ \E t \in Tasks : Log(c, t)
           \/ Lock(c)
           \/ (Open(c) \/ Fill(c)) /\ ~GiveUp(c)
    PROVE  UNCHANGED Store!vars
<1>1. PICK to \in Waiting \cup Writing \cup {"read"} :
         /\ call' = [call EXCEPT ![c] = [call[c] EXCEPT !.stage = to]]
         /\ call[c].stage \in Waiting \cup Writing
         /\ UNCHANGED file
  <2>1. CASE \E t \in Tasks : Log(c, t)
    <3>1. PICK t \in Tasks, from \in Logging, to \in Waiting : LogStep(c, t, from, to)
      BY <2>1, StageSets DEF Log, LoadLog, OpenDraft, FillDraft, RenameDraft, DropRecord
    <3>. QED
      BY <3>1, StageSets DEF LogStep, At, Goto, taskVars
  <2>2. CASE Lock(c)
    BY <2>2, StageSets DEF Lock, At, Goto
  <2>3. CASE (Open(c) \/ Fill(c)) /\ ~GiveUp(c)
    BY <2>3, StageSets DEF Open, Fill, At, Goto
  <2>. QED
    BY <2>1, <2>2, <2>3
<1>. DEFINE x == [call[c] EXCEPT !.stage = to]
<1>2. call[c] \in Active
  BY <1>1, ActiveCall, StageSets DEF Inv
<1>3. x \in Active /\ x.stage = to /\ x.op = call[c].op /\ x.status = call[c].status
  BY <1>1, <1>2, StageSets DEF Active
<1>4. call' = [call EXCEPT ![c] = x]
  BY <1>1
<1>. HIDE DEF x
<1>. QED
  BY <1>1, <1>3, <1>4, Hidden DEF Inv

LEMMA BeginImplements ==
    ASSUME Inv, NEW c \in Callers, NEW op \in Store!Op, NEW stage \in Waiting,
           At(c, "idle"), call' = [call EXCEPT ![c] = Calling(op, stage)], UNCHANGED file
    PROVE  Store!Begin(c, op)
<1>. DEFINE x == Calling(op, stage)
<1>1. x \in Active /\ x.stage = stage /\ x.op = op /\ x.status = "ok"
  BY StageSets DEF Calling, Active, Store!Statuses
<1>. HIDE DEF x
<1>2. Outward(x) = Store!Called(op, "ok")
  BY <1>1, OutwardActive
<1>3. call[c] = Store!Idle /\ Outward(call[c]) = Store!Idle
  <2>1. call[c] = Store!Idle
    <3>1. call[c] \in Active => call[c].stage \in Waiting \cup Locked
      BY DEF Active
    <3>2. "idle" \notin Waiting \cup Locked
      BY StageSets
    <3>. QED
      BY <3>1, <3>2 DEF At, Inv, TypeOK
  <2>. QED
    BY <2>1, OutwardIdle
<1>4. [d \in Callers |-> Outward(call[d])]'
        = [[d \in Callers |-> Outward(call[d])] EXCEPT ![c] = Store!Called(op, "ok")]
  BY <1>2, OutwardStep DEF Inv, x
<1>5. Parsed(file)' = Parsed(file)
  BY DEF Parsed
<1>. QED
  BY <1>3, <1>4, <1>5 DEF Store!Begin

LEMMA ReadImplements ==
    ASSUME Inv, NEW c \in Callers, Read(c)
    PROVE  Store!Fail(c) \/ Store!TakeEffect(c) \/ UNCHANGED Store!vars
<1>. DEFINE v == Parsed(file)
            op == call[c].op
            x == [stage  |-> IF Store!Affected(op, v) = {} THEN "unlock" ELSE "open",
                  op     |-> op,
                  status |-> Store!Verdict(op, v),
                  seen   |-> v]
<1>1. call[c] \in Active /\ call[c].stage = "read" /\ call[c].status = "ok"
  BY ActiveCall DEF Read, At, Inv, LockInv
<1>2. CASE GiveUp(c)
  BY <1>1, <1>2, GiveUpFails
<1>3. CASE ~GiveUp(c)
  <2>1. call' = [call EXCEPT ![c] = x] /\ UNCHANGED file
    BY <1>3 DEF Read
  <2>2. v \in Store!Contents
    BY ParsedType DEF Inv, TypeOK
  <2>3. Store!Verdict(op, v) \in Store!Statuses
    BY DEF Store!Verdict, Store!Statuses
  <2>4. /\ x \in Active /\ x.op = op /\ x.seen = v /\ x.status = Store!Verdict(op, v)
        /\ x.stage = IF Store!Affected(op, v) = {} THEN "unlock" ELSE "open"
    BY <1>1, <2>2, <2>3, StageSets DEF Active
  <2>. HIDE DEF x
  <2>5. CASE Store!Affected(op, v) = {}
    <3>1. Parsed(file)' = Store!Applied(op, v)
      BY <2>1, <2>2, <2>5, NothingToApply DEF Parsed
    <3>. QED
      BY <1>1, <2>1, <2>4, <2>5, <3>1, Effect
  <2>6. CASE Store!Affected(op, v) # {}
    <3>1. x.stage = "open" /\ x.status = "ok"
      BY <2>4, <2>6 DEF Store!Verdict
    <3>. QED
      BY <1>1, <2>1, <2>4, <3>1, Hidden, StageSets DEF Inv
  <2>. QED
    BY <2>5, <2>6
<1>. QED
  BY <1>2, <1>3

LEMMA RenameImplements ==
    ASSUME Inv, NEW c \in Callers, Rename(c)
    PROVE  Store!Fail(c) \/ Store!TakeEffect(c)
<1>1. call[c].stage = "rename" /\ call[c].stage \in Writing
  BY StageSets DEF Rename, At
<1>2. CASE GiveUp(c)
  BY <1>1, <1>2, GiveUpFails
<1>3. CASE ~GiveUp(c)
  <2>. DEFINE v == Parsed(file)
              op == call[c].op
              x == [call[c] EXCEPT !.stage = "unlock"]
  <2>1. file' = tmp /\ call' = [call EXCEPT ![c] = x]
    BY <1>3 DEF Rename, Goto
  <2>2. /\ tmp = Store!Applied(op, v) /\ tmp \in Store!Contents
        /\ call[c] \in Active /\ call[c].status = "ok" /\ call[c].seen = v
        /\ Store!Affected(op, v) # {}
    BY <1>1, Holding DEF Inv, LockInv
  <2>3. /\ x \in Active /\ x.stage = "unlock" /\ x.op = op /\ x.seen = v
        /\ x.status = "ok"
    BY <2>2, StageSets DEF Active
  <2>. HIDE DEF x
  <2>4. Store!Verdict(op, v) = "ok"
    BY <2>2 DEF Store!Verdict
  <2>5. Parsed(file)' = Store!Applied(op, v)
    BY <2>1, <2>2, AbsentAssumption DEF Parsed
  <2>. QED
    BY <1>1, <2>1, <2>3, <2>4, <2>5, Effect
<1>. QED
  BY <1>2, <1>3

LEMMA UnlockImplements ==
    ASSUME Inv, NEW c \in Callers, Unlock(c)
    PROVE  Store!End(c)
<1>1. call[c] \in Active /\ call[c].stage = "unlock"
  BY ActiveCall DEF Unlock, At, Inv
<1>2. Outward(call[c]).stage = "done"
  BY <1>1, OutwardActive DEF Store!Done
<1>4. [d \in Callers |-> Outward(call[d])]'
        = [[d \in Callers |-> Outward(call[d])] EXCEPT ![c] = Store!Idle]
  BY OutwardIdle, OutwardStep DEF Unlock, Inv
<1>5. Parsed(file)' = Parsed(file)
  BY DEF Unlock, Parsed
<1>. QED
  BY <1>2, <1>4, <1>5 DEF Store!End

LEMMA CrashImplements == ASSUME Crash PROVE Store!Die
<1>2. [d \in Callers |-> Outward(call[d])]' = [d \in Callers |-> Store!Idle]
  BY OutwardIdle DEF Crash
<1>3. Parsed(file)' = Parsed(file)
  BY DEF Crash, Parsed
<1>. QED
  BY <1>2, <1>3 DEF Store!Die

LEMMA NextImplementsStore == Inv /\ [Next]_vars => [Store!Next]_(Store!vars)
<1>. SUFFICES ASSUME Inv, [Next]_vars PROVE [Store!Next]_(Store!vars)
  OBVIOUS
<1>1. CASE UNCHANGED vars
  BY <1>1 DEF vars, taskVars, Store!vars, Parsed
<1>2. ASSUME NEW c \in Callers, NEW op \in Requests, Begin(c, op)
      PROVE  Store!Next
  <2>1. op \in Store!Op /\ "lock" \in Waiting
    BY RequestsAssumption, StageSets
  <2>2. Store!Begin(c, op)
    BY <1>2, <2>1, BeginImplements DEF Begin, taskVars
  <2>. QED
    BY <2>1, <2>2 DEF Store!Next
<1>3. ASSUME NEW c \in Callers, NEW t \in Tasks, EndRun(c, t)
      PROVE  Store!Next
  <2>. DEFINE op == [kind |-> "finish", tasks |-> {t}, last |-> LastRun + 1]
  <2>1. op \in Store!Op /\ "load log" \in Waiting
    BY <1>3, StageSets DEF EndRun, Store!Op
  <2>2. /\ At(c, "idle") /\ UNCHANGED file
        /\ call' = [call EXCEPT ![c] = Calling(op, "load log")]
    BY <1>3 DEF EndRun, taskVars
  <2>. HIDE DEF op
  <2>3. Store!Begin(c, op)
    BY <2>1, <2>2, BeginImplements
  <2>. QED
    BY <2>1, <2>3 DEF Store!Next
<1>8. ASSUME NEW c \in Callers, NEW t \in Tasks, StartRun(c, t) \/ Reset(c, t)
      PROVE  Store!Next
  <2>1. PICK kind \in {"mark", "reset"} :
           call' = [call EXCEPT ![c] = Calling([kind |-> kind, tasks |-> {t}], "lock")]
    BY <1>8 DEF StartRun, Reset
  <2>. DEFINE op == [kind |-> kind, tasks |-> {t}]
  <2>2. op \in Store!Op /\ "lock" \in Waiting
    BY StageSets DEF Store!Op
  <2>3. At(c, "idle") /\ UNCHANGED file /\ call' = [call EXCEPT ![c] = Calling(op, "lock")]
    BY <1>8, <2>1 DEF StartRun, Reset, taskVars
  <2>. HIDE DEF op
  <2>4. Store!Begin(c, op)
    BY <2>2, <2>3, BeginImplements
  <2>. QED
    BY <2>2, <2>4 DEF Store!Next
<1>4. ASSUME NEW c \in Callers, Lock(c) \/ \E t \in Tasks : Log(c, t)
      PROVE  UNCHANGED Store!vars
  BY <1>4, InternalSteps
<1>5. ASSUME NEW c \in Callers, Open(c) \/ Fill(c)
      PROVE  [Store!Next]_(Store!vars)
  <2>1. CASE GiveUp(c)
    <3>1. Store!Fail(c)
      BY <1>5, <2>1, GiveUpFails, StageSets DEF Open, Fill, At
    <3>. QED
      BY <3>1 DEF Store!Next
  <2>2. CASE ~GiveUp(c)
    BY <1>5, <2>2, InternalSteps
  <2>. QED
    BY <2>1, <2>2
<1>6. ASSUME NEW c \in Callers, Read(c) \/ Rename(c) \/ Unlock(c)
      PROVE  [Store!Next]_(Store!vars)
  <2>1. \/ Store!Fail(c) \/ Store!TakeEffect(c) \/ Store!End(c)
        \/ UNCHANGED Store!vars
    BY <1>6, ReadImplements, RenameImplements, UnlockImplements
  <2>. QED
    BY <2>1 DEF Store!Next
<1>7. ASSUME Crash PROVE Store!Next
  BY <1>7, CrashImplements DEF Store!Next
<1>. QED
  BY <1>1, <1>2, <1>3, <1>4, <1>5, <1>6, <1>7, <1>8 DEF Next, Step

\* The file, its lock and its temporary file are an atomic store, for any number of
\* callers, whichever system calls fail and wherever the process dies.
THEOREM FilesImplementStore == Spec => ImplementsAtomicStore
<1>. QED
  BY InitImplementsStore, NextImplementsStore, InitInv, NextInv, PTL
     DEF Spec, ImplementsAtomicStore, Store!Spec

-----------------------------------------------------------------------------
(* A run that has ended has its record.                                    *)

Drafting == {"open draft", "fill draft", "rename draft"}

Descending(s) == \A i, j \in DOMAIN s : i < j => s[i] > s[j]

\* Run n of t is in the history, or does not belong there.
Covered(t, n) ==
    \/ n \in dropped \cup {0, Running, Lost, Sent}
    \/ n \in ToSet(Readable(t))
    \/ Len(Readable(t)) = Cap /\ \A m \in ToSet(Readable(t)) : m > n

AllRuns == UNION {ToSet(ended[t]) : t \in Tasks}

LogTypes ==
    /\ ended \in [Tasks -> Seq(Runs)]
    /\ history \in [Tasks -> Seq(Runs) \cup {Missing}]
    /\ draft \in [Tasks -> Seq(Runs) \cup {Missing, Torn}]
    /\ entries \in [Tasks -> Seq(Runs)]
    /\ LastRun \in Nat /\ AllRuns = 1..LastRun

Histories ==
    \A t \in Tasks :
        /\ Len(Readable(t)) <= Cap /\ Descending(Readable(t))
        /\ \A m \in ToSet(Readable(t)) : m <= LastRun

Finishing(c) == ~At(c, "idle") /\ call[c].op.kind = "finish"

\* What a run that is being written down has in its files.
Records(c, t) ==
    LET n == call[c].op.last IN
    /\ n \in 1..LastRun
    /\ call[c].stage \in Logging => \A m \in ToSet(Readable(t)) : m < n
    /\ call[c].stage \in Drafting => entries[t] = Newest(<<n>> \o Readable(t))
    /\ call[c].stage = "rename draft" => draft[t] = entries[t]
    /\ call[c].stage \notin Logging => Covered(t, n)

\* A task has one run at a time.
RunsAlone ==
    /\ \A c \in Callers : Finishing(c) => \E t \in Tasks : call[c].op.tasks = {t}
    /\ \A c, d \in Callers :
          Finishing(c) /\ Finishing(d) /\ call[c].op.tasks = call[d].op.tasks => c = d

FinishRight ==
    \A c \in Callers, t \in Tasks :
        Finishing(c) /\ call[c].op.tasks = {t} => Records(c, t)

HistoryInv == LogTypes /\ Histories /\ RunsAlone /\ FinishRight /\ OutcomeHasRecord

LEMMA DraftingStages ==
    Drafting \subseteq Logging /\ "load log" \notin Drafting /\ Logging = Drafting \cup {"load log"}
    /\ "idle" \notin Logging \cup Drafting \cup {"lock"}
BY StageSets DEF Drafting

LEMMA OutcomeIsCovered ==
    OutcomeHasRecord <=>
        \A t \in Tasks : Parsed(file)[t] # NoTask => Covered(t, Parsed(file)[t].last)
BY DEF OutcomeHasRecord, Covered

LEMMA NewestIs ==
    ASSUME NEW s \in Seq(Runs)
    PROVE  /\ Newest(s) \in Seq(Runs)
           /\ Len(Newest(s)) = IF Len(s) > Cap THEN Cap ELSE Len(s)
           /\ \A i \in 1..Len(Newest(s)) : Newest(s)[i] = s[i]
BY CapAssumption DEF Newest

LEMMA PushIs ==
    ASSUME NEW s \in Seq(Runs), NEW n \in Runs
    PROVE  /\ <<n>> \o s \in Seq(Runs) /\ Len(<<n>> \o s) = Len(s) + 1
           /\ (<<n>> \o s)[1] = n
           /\ \A i \in 1..Len(s) : (<<n>> \o s)[i + 1] = s[i]
           /\ ToSet(<<n>> \o s) = {n} \cup ToSet(s)
<1>. DEFINE p == <<n>> \o s
<1>1. /\ p \in Seq(Runs) /\ Len(p) = Len(s) + 1 /\ p[1] = n
      /\ \A i \in 1..Len(s) : p[i + 1] = s[i]
      /\ DOMAIN p = 1..(Len(s) + 1) /\ DOMAIN s = 1..Len(s) /\ Len(s) \in Nat
  OBVIOUS
<1>. HIDE DEF p
<1>2. ToSet(p) \subseteq {n} \cup ToSet(s)
  <2>. SUFFICES ASSUME NEW i \in 1..(Len(s) + 1) PROVE p[i] \in {n} \cup ToSet(s)
    BY <1>1 DEF ToSet
  <2>1. CASE i = 1
    BY <1>1, <2>1
  <2>2. CASE i # 1
    <3>1. i - 1 \in 1..Len(s) /\ (i - 1) + 1 = i
      BY <1>1, <2>2
    <3>. QED
      BY <1>1, <3>1 DEF ToSet
  <2>. QED
    BY <2>1, <2>2
<1>3. {n} \cup ToSet(s) \subseteq ToSet(p)
  <2>1. n \in ToSet(p)
    BY <1>1 DEF ToSet
  <2>2. ASSUME NEW i \in 1..Len(s) PROVE s[i] \in ToSet(p)
    <3>1. i + 1 \in 1..(Len(s) + 1)
      BY <1>1
    <3>. QED
      BY <1>1, <3>1 DEF ToSet
  <2>. QED
    BY <1>1, <2>1, <2>2 DEF ToSet
<1>. QED
  BY <1>1, <1>2, <1>3 DEF p

LEMMA ReadableType ==
    ASSUME LogTypes, NEW t \in Tasks
    PROVE  Readable(t) \in Seq(Runs) /\ (history[t] # Missing => Readable(t) = history[t])
<1>1. history[t] # Torn
  BY AbsentAssumption DEF LogTypes
<1>. QED
  BY <1>1 DEF LogTypes, Readable

\* What the newest records of a history and one more run are.
LEMMA Pushed ==
    ASSUME NEW s \in Seq(Runs), NEW n \in Runs, Len(s) <= Cap, Descending(s),
           \A m \in ToSet(s) : m < n,
           NEW q, q = Newest(<<n>> \o s)
    PROVE  /\ q \in Seq(Runs) /\ Len(q) <= Cap /\ Descending(q)
           /\ n \in ToSet(q) /\ ToSet(q) \subseteq {n} \cup ToSet(s)
           /\ \A m \in ToSet(s) : m \notin ToSet(q) =>
                 Len(q) = Cap /\ \A k \in ToSet(q) : k > m
           /\ Len(s) = Cap => Len(q) = Cap
<1>. DEFINE p == <<n>> \o s
<1>1. /\ p \in Seq(Runs) /\ Len(p) = Len(s) + 1 /\ p[1] = n
      /\ \A i \in 1..Len(s) : p[i + 1] = s[i]
  BY PushIs
<1>2. Len(s) \in Nat /\ DOMAIN s = 1..Len(s) /\ \A i \in 1..Len(s) : s[i] \in Nat /\ s[i] < n
  <2>1. Len(s) \in Nat /\ DOMAIN s = 1..Len(s) /\ \A i \in 1..Len(s) : s[i] \in Runs
    OBVIOUS
  <2>. QED
    BY <2>1, MaxRunsAssumption DEF ToSet, Runs
<1>. HIDE DEF p
<1>3. /\ q \in Seq(Runs) /\ Len(q) = (IF Len(p) > Cap THEN Cap ELSE Len(p))
      /\ \A i \in 1..Len(q) : q[i] = p[i]
  BY <1>1, NewestIs DEF p
<1>4. Len(q) \in Nat /\ DOMAIN q = 1..Len(q) /\ Len(q) > 0
  BY <1>1, <1>2, <1>3, CapAssumption
<1>5. Len(q) <= Cap /\ Len(q) <= Len(s) + 1 /\ (Len(s) = Cap => Len(q) = Cap)
  <2>. DEFINE a == Len(p)  b == Len(q)  d == Len(s)
  <2>1. d \in Nat /\ a = d + 1 /\ b = (IF a > Cap THEN Cap ELSE a) /\ d <= Cap
    BY <1>1, <1>2, <1>3
  <2>. HIDE DEF a, b, d
  <2>2. b <= Cap /\ b <= d + 1 /\ (d = Cap => b = Cap)
    BY <2>1, CapAssumption
  <2>. QED
    BY <2>2 DEF b, d
<1>6. ASSUME NEW i \in 1..Len(q), i # 1
      PROVE  i - 1 \in 1..Len(s) /\ q[i] = s[i - 1]
  <2>1. i - 1 \in 1..Len(s) /\ (i - 1) + 1 = i
    BY <1>2, <1>4, <1>5, <1>6
  <2>. QED
    BY <1>1, <1>3, <2>1
<1>7. q[1] = n
  BY <1>1, <1>3, <1>4
<1>8. Descending(q)
  <2>. SUFFICES ASSUME NEW i \in 1..Len(q), NEW j \in 1..Len(q), i < j PROVE q[i] > q[j]
    BY <1>4 DEF Descending
  <2>1. j # 1 /\ j - 1 \in 1..Len(s) /\ q[j] = s[j - 1]
    BY <1>4, <1>6
  <2>2. CASE i = 1
    BY <1>2, <1>7, <2>1, <2>2, MaxRunsAssumption DEF Runs
  <2>3. CASE i # 1
    <3>1. i - 1 \in 1..Len(s) /\ q[i] = s[i - 1] /\ i - 1 < j - 1
      BY <1>4, <1>6, <2>3
    <3>. QED
      BY <1>2, <2>1, <3>1 DEF Descending
  <2>. QED
    BY <2>2, <2>3
<1>9. n \in ToSet(q)
  BY <1>4, <1>7 DEF ToSet
<1>10. ToSet(q) \subseteq {n} \cup ToSet(s)
  <2>. SUFFICES ASSUME NEW i \in 1..Len(q) PROVE q[i] \in {n} \cup ToSet(s)
    BY <1>4 DEF ToSet
  <2>. QED
    BY <1>2, <1>6, <1>7 DEF ToSet
<1>11. ASSUME NEW m \in ToSet(s), m \notin ToSet(q)
       PROVE  Len(q) = Cap /\ \A k \in ToSet(q) : k > m
  <2>1. PICK j \in 1..Len(s) : m = s[j]
    BY <1>2 DEF ToSet
  <2>2. ~(j + 1 \in 1..Len(q))
    <3>. SUFFICES ASSUME j + 1 \in 1..Len(q) PROVE FALSE
      OBVIOUS
    <3>1. q[j + 1] = s[j]
      BY <1>1, <1>3
    <3>. QED
      BY <1>4, <1>11, <2>1, <3>1 DEF ToSet
  <2>3. Len(q) <= j /\ Len(q) = Cap
    BY <1>1, <1>2, <1>3, <1>4, <2>2, CapAssumption
  <2>4. ASSUME NEW i \in 1..Len(q) PROVE q[i] > m
    <3>1. CASE i = 1
      BY <1>2, <1>7, <2>1, <3>1, MaxRunsAssumption DEF Runs
    <3>2. CASE i # 1
      <4>1. i - 1 \in 1..Len(s) /\ q[i] = s[i - 1] /\ i - 1 < j
        BY <1>4, <1>6, <2>3, <3>2
      <4>. QED
        BY <1>2, <2>1, <4>1 DEF Descending
    <3>. QED
      BY <3>1, <3>2
  <2>. QED
    BY <1>4, <2>3, <2>4 DEF ToSet
<1>. QED
  BY <1>3, <1>5, <1>8, <1>9, <1>10, <1>11

-----------------------------------------------------------------------------
(* What a step leaves as it was.                                           *)

LEMMA CoveredKept ==
    ASSUME NEW t, NEW n, Readable(t)' = Readable(t), dropped \subseteq dropped', Covered(t, n)
    PROVE  Covered(t, n)'
BY DEF Covered

LEMMA OutcomeKept ==
    ASSUME TypeOK, OutcomeHasRecord, UNCHANGED file,
           \A t \in Tasks, n \in Runs : Covered(t, n) => Covered(t, n)'
    PROVE  OutcomeHasRecord'
<1>1. \A t \in Tasks : Parsed(file)[t] # NoTask => Parsed(file)[t].last \in Store!Lasts
  <2>1. Parsed(file) \in Store!Contents
    BY ParsedType DEF TypeOK
  <2>. QED
    BY <2>1 DEF Store!Contents
<1>2. ASSUME NEW t \in Tasks, Parsed(file)[t] # NoTask
      PROVE  Covered(t, Parsed(file)[t].last)'
  <2>. DEFINE n == Parsed(file)[t].last
  <2>1. n \in Store!Lasts /\ Covered(t, n) /\ n' = n
    BY <1>1, <1>2, OutcomeIsCovered
  <2>. HIDE DEF n
  <2>2. CASE n \in Runs
    BY <2>1, <2>2 DEF n
  <2>3. CASE n \in {Running, Lost, Sent}
    BY <2>1, <2>3 DEF Covered, n
  <2>. QED
    BY <2>1, <2>2, <2>3 DEF Store!Lasts
<1>. QED
  BY <1>2 DEF OutcomeHasRecord, Covered

\* A call of which nothing has changed.
LEMMA RecordsKept ==
    ASSUME NEW d \in Callers, NEW t \in Tasks, LogTypes,
           Records(d, t), call'[d] = call[d],
           Readable(t)' = Readable(t), entries'[t] = entries[t], draft'[t] = draft[t],
           dropped \subseteq dropped', LastRun' \in Nat, LastRun <= LastRun'
    PROVE  Records(d, t)'
<1>0. call[d].op.last \in 1..LastRun /\ LastRun \in Nat
  BY DEF Records, LogTypes
<1>1. call[d].op.last \in 1..LastRun'
  BY <1>0
<1>2. call[d].stage \notin Logging => Covered(t, call[d].op.last)'
  BY CoveredKept DEF Records
<1>. QED
  BY <1>1, <1>2 DEF Records

LEMMA AloneKept ==
    ASSUME RunsAlone,
           \A d \in Callers : Finishing(d)' => Finishing(d) /\ call'[d].op = call[d].op
    PROVE  RunsAlone'
BY DEF RunsAlone, Finishing

\* A step of one call that does not touch the histories.
LEMMA QuietStep ==
    ASSUME HistoryInv, NEW c \in Callers, UNCHANGED logVars,
           \A d \in Callers \ {c} : call'[d] = call[d],
           \/ ~Finishing(c)'
           \/ /\ Finishing(c) /\ call'[c].op = call[c].op
              /\ call[c].stage \notin Logging /\ call'[c].stage \notin Logging
    PROVE  LogTypes' /\ Histories' /\ RunsAlone' /\ FinishRight'
<1>1. LogTypes' /\ Histories'
  BY DEF HistoryInv, LogTypes, AllRuns, Histories, LastRun, logVars, Readable, Descending
<1>2. \A t : Readable(t)' = Readable(t)
  BY DEF Readable, logVars
<1>3. LastRun' = LastRun /\ LastRun \in Nat
  BY DEF LastRun, logVars, HistoryInv, LogTypes
<1>4. \A d \in Callers : Finishing(d)' => Finishing(d) /\ call'[d].op = call[d].op
  BY DEF Finishing, At
<1>5. RunsAlone'
  BY <1>4, AloneKept DEF HistoryInv
<1>6. FinishRight'
  <2>. SUFFICES ASSUME NEW d \in Callers, NEW t \in Tasks,
                       Finishing(d)', call'[d].op.tasks = {t}
                PROVE  Records(d, t)'
    BY DEF FinishRight
  <2>1. Records(d, t)
    BY <1>4 DEF HistoryInv, FinishRight
  <2>2. CASE d # c
    BY <1>2, <1>3, <2>1, <2>2, RecordsKept DEF logVars, HistoryInv
  <2>3. CASE d = c
    <3>1. PICK n : n = call[d].op.last
      OBVIOUS
    <3>2. Covered(t, n) /\ n \in 1..LastRun /\ call'[d].op.last = n
      BY <1>4, <2>1, <2>3, <3>1 DEF Records
    <3>3. Covered(t, n)' /\ n \in 1..LastRun'
      BY <1>2, <1>3, <3>2, CoveredKept DEF logVars
    <3>4. call'[d].stage \notin Logging \cup Drafting /\ call'[d].stage # "rename draft"
      BY <2>3, DraftingStages DEF Drafting
    <3>. QED
      BY <3>2, <3>3, <3>4 DEF Records
  <2>. QED
    BY <2>2, <2>3
<1>. QED
  BY <1>1, <1>5, <1>6

\* Begin, Lock, and the steps under the lock.
LEMMA CallQuiet ==
    ASSUME Inv, HistoryInv, NEW c \in Callers,
           \/ \E op \in Requests : Begin(c, op)
           \/ \E t \in Tasks : StartRun(c, t) \/ Reset(c, t)
           \/ Lock(c) \/ Read(c) \/ Open(c) \/ Fill(c) \/ Rename(c) \/ Unlock(c)
    PROVE  LogTypes' /\ Histories' /\ RunsAlone' /\ FinishRight'
<1>0. call \in [Callers -> {Store!Idle} \cup Active]
  BY DEF Inv, TypeOK
<1>1. UNCHANGED logVars
  BY DEF Begin, StartRun, Reset, Lock, Read, Open, Fill, Rename, Unlock, logVars
<1>2. \A d \in Callers \ {c} : call'[d] = call[d]
  BY <1>0 DEF Begin, StartRun, Reset, Lock, Read, Open, Fill, Rename, Unlock, GiveUp, Goto
<1>3. CASE \E op \in Requests : Begin(c, op)
  <2>1. ~Finishing(c)'
    BY <1>0, <1>3, RequestsAssumption DEF Begin, Calling, Finishing
  <2>. QED
    BY <1>1, <1>2, <2>1, QuietStep
<1>6. CASE \E t \in Tasks : StartRun(c, t) \/ Reset(c, t)
  <2>1. PICK op \in [kind : {"mark", "reset"}, tasks : SUBSET Tasks] :
           call' = [call EXCEPT ![c] = Calling(op, "lock")]
    <3>1. PICK t \in Tasks : StartRun(c, t) \/ Reset(c, t)
      BY <1>6
    <3>2. PICK kind \in {"mark", "reset"} :
             call' = [call EXCEPT ![c] = Calling([kind |-> kind, tasks |-> {t}], "lock")]
      BY <3>1 DEF StartRun, Reset
    <3>. QED
      BY <3>2
  <2>2. call'[c] = Calling(op, "lock")
    BY <1>0, <2>1
  <2>3. call'[c].op = op /\ op.kind # "finish"
    BY <2>2 DEF Calling
  <2>. QED
    BY <1>1, <1>2, <2>3, QuietStep DEF Finishing
<1>4. CASE Unlock(c)
  <2>1. ~Finishing(c)'
    BY <1>0, <1>4 DEF Unlock, Finishing, At, Store!Idle
  <2>. QED
    BY <1>1, <1>2, <2>1, QuietStep
<1>5. CASE Lock(c) \/ Read(c) \/ Open(c) \/ Fill(c) \/ Rename(c)
  <2>1. call[c].stage \in {"lock", "read", "open", "fill", "rename"}
    BY <1>5 DEF Lock, Read, Open, Fill, Rename, At
  <2>0. call[c].stage \notin Logging \cup {"idle"}
    BY <2>1 DEF Logging
  <2>2. call[c].stage \notin Logging \cup {"idle"} /\ call[c] \in Active
    BY <2>0, ActiveCall DEF Inv
  <2>3. /\ call'[c].op = call[c].op
        /\ call'[c].stage \in {"read", "open", "fill", "rename", "unlock"}
    BY <1>0, <1>5, <2>2 DEF Lock, Read, Open, Fill, Rename, GiveUp, Goto, Active
  <2>4. call'[c].stage \notin Logging \cup {"idle"}
    BY <2>3, StageSets
  <2>. QED
    BY <1>1, <1>2, <2>2, <2>3, <2>4, QuietStep DEF Finishing, At
<1>. QED
  BY <1>3, <1>4, <1>5, <1>6

-----------------------------------------------------------------------------
(* A run ends, and is written down.                                        *)

LEMMA EndRunHistory ==
    ASSUME Inv, HistoryInv, NEW c \in Callers, NEW t \in Tasks, EndRun(c, t)
    PROVE  HistoryInv'
<1>0. call \in [Callers -> {Store!Idle} \cup Active]
  BY DEF Inv, TypeOK
<1>1. PICK n : n = LastRun + 1
  OBVIOUS
<1>2. /\ n \in Runs /\ ended' = [ended EXCEPT ![t] = <<n>> \o @] /\ ~Busy(t, "finish")
      /\ UNCHANGED <<file, history, draft, entries, dropped>>
      /\ call' = [call EXCEPT ![c] =
                     Calling([kind |-> "finish", tasks |-> {t}, last |-> n], "load log")]
  BY <1>1 DEF EndRun, Quiet, taskVars
<1>3. ended' \in [Tasks -> Seq(Runs)] /\ LastRun' = n /\ AllRuns' = 1..n
  <2>0. LogTypes /\ n = LastRun + 1 /\ n \in Runs /\ ended' = [ended EXCEPT ![t] = <<n>> \o @]
    BY <1>1, <1>2 DEF HistoryInv
  <2>1. ended[t] \in Seq(Runs) /\ LastRun \in Nat
    BY <2>0 DEF LogTypes
  <2>2. <<n>> \o ended[t] \in Seq(Runs) /\ ToSet(<<n>> \o ended[t]) = {n} \cup ToSet(ended[t])
    BY <2>0, <2>1, PushIs
  <2>3. ended' \in [Tasks -> Seq(Runs)]
        /\ \A u \in Tasks : ToSet(ended'[u]) = IF u = t THEN {n} \cup ToSet(ended[u])
                                                      ELSE ToSet(ended[u])
    BY <2>0, <2>2 DEF LogTypes
  <2>4. UNION {ToSet(ended'[u]) : u \in Tasks} = {n} \cup UNION {ToSet(ended[u]) : u \in Tasks}
    <3>1. ASSUME NEW u \in Tasks, NEW x \in ToSet(ended'[u])
          PROVE  x = n \/ x \in UNION {ToSet(ended[w]) : w \in Tasks}
      BY <2>3, <3>1
    <3>2. ASSUME NEW u \in Tasks, NEW x \in ToSet(ended[u])
          PROVE  x \in UNION {ToSet(ended'[w]) : w \in Tasks}
      BY <2>3, <3>2
    <3>3. n \in UNION {ToSet(ended'[w]) : w \in Tasks}
      <4>1. n \in ToSet(ended'[t])
        BY <2>3
      <4>. QED
        BY <4>1
    <3>. QED
      BY <3>1, <3>2, <3>3
  <2>5. UNION {ToSet(ended[u]) : u \in Tasks} = 1..LastRun
    BY <2>0 DEF LogTypes, AllRuns
  <2>6. UNION {ToSet(ended'[u]) : u \in Tasks} = 1..n
    <3>1. {n} \cup 1..LastRun = 1..n
      BY <2>0, <2>1
    <3>. QED
      BY <2>4, <2>5, <3>1
  <2>7. Cardinality(1..n) = n
    BY <2>0, <2>1, FS_Interval
  <2>. QED
    BY <2>3, <2>6, <2>7 DEF LastRun, AllRuns
<1>4. LastRun \in Nat /\ LastRun' \in Nat /\ LastRun <= LastRun' /\ LastRun < n /\ n \in Nat
  BY <1>1, <1>3 DEF HistoryInv, LogTypes
<1>5. LogTypes'
  BY <1>2, <1>3, <1>4 DEF HistoryInv, LogTypes
<1>6. \A u : Readable(u)' = Readable(u)
  BY <1>2 DEF Readable
<1>7. \A u \in Tasks : \A m \in ToSet(Readable(u)) : m \in Nat /\ m < n /\ m <= LastRun'
  <2>. SUFFICES ASSUME NEW u \in Tasks, NEW m \in ToSet(Readable(u))
                PROVE  m \in Nat /\ m < n /\ m <= LastRun'
    OBVIOUS
  <2>1. m <= LastRun
    BY DEF HistoryInv, Histories
  <2>2. m \in Nat
    BY ReadableType, MaxRunsAssumption DEF HistoryInv, ToSet, Runs
  <2>. QED
    BY <1>4, <2>1, <2>2
<1>8. Histories'
  BY <1>6, <1>7 DEF HistoryInv, Histories, Descending
<1>9. /\ call'[c] = Calling([kind |-> "finish", tasks |-> {t}, last |-> n], "load log")
      /\ \A d \in Callers \ {c} : call'[d] = call[d]
  BY <1>0, <1>2
<1>10. /\ call'[c].stage = "load log" /\ call'[c].op.kind = "finish"
       /\ call'[c].op.tasks = {t} /\ call'[c].op.last = n
  <2>. DEFINE op == [kind |-> "finish", tasks |-> {t}, last |-> n]
              x  == Calling(op, "load log")
  <2>1. op.kind = "finish" /\ op.tasks = {t} /\ op.last = n
    OBVIOUS
  <2>. HIDE DEF op
  <2>2. x.stage = "load log" /\ x.op = op
    BY DEF Calling
  <2>3. call'[c] = x
    BY <1>9 DEF op
  <2>. QED
    BY <2>1, <2>2, <2>3
<1>11. \A d \in Callers : Finishing(d) => t \notin call[d].op.tasks
  BY <1>2 DEF Busy, Finishing
<1>12. \A d \in Callers \ {c} : Finishing(d)' => Finishing(d) /\ call'[d] = call[d]
  BY <1>9 DEF Finishing, At
<1>13. RunsAlone'
  <2>1. ASSUME NEW d \in Callers, Finishing(d)'
        PROVE  \E u \in Tasks : call'[d].op.tasks = {u}
    BY <1>10, <1>12, <2>1 DEF HistoryInv, RunsAlone
  <2>2. ASSUME NEW d \in Callers, NEW e \in Callers, Finishing(d)', Finishing(e)',
               call'[d].op.tasks = call'[e].op.tasks
        PROVE  d = e
    <3>1. CASE d # c /\ e # c
      BY <1>12, <2>2, <3>1 DEF HistoryInv, RunsAlone
    <3>2. CASE d = c \/ e = c
      BY <1>10, <1>11, <1>12, <2>2, <3>2
    <3>. QED
      BY <3>1, <3>2
  <2>. QED
    BY <2>1, <2>2 DEF RunsAlone
<1>14. FinishRight'
  <2>. SUFFICES ASSUME NEW d \in Callers, NEW u \in Tasks,
                       Finishing(d)', call'[d].op.tasks = {u}
                PROVE  Records(d, u)'
    BY DEF FinishRight
  <2>1. CASE d # c
    <3>1. Records(d, u)
      BY <1>12, <2>1 DEF HistoryInv, FinishRight
    <3>. QED
      BY <1>2, <1>3, <1>4, <1>6, <1>12, <2>1, <3>1, RecordsKept DEF HistoryInv
  <2>2. CASE d = c
    <3>1. u = t
      BY <1>10, <2>2
    <3>0. n \in 1..LastRun'
      BY <1>1, <1>3, <1>4
    <3>2. n \in 1..LastRun' /\ call'[d].stage \in Logging \ Drafting
          /\ call'[d].stage # "rename draft"
      BY <1>10, <2>2, <3>0, DraftingStages
    <3>. QED
      BY <1>6, <1>7, <1>10, <2>2, <3>1, <3>2 DEF Records
  <2>. QED
    BY <2>1, <2>2
<1>15. OutcomeHasRecord'
  BY <1>2, <1>6, CoveredKept, OutcomeKept DEF HistoryInv, Inv
<1>. QED
  BY <1>5, <1>8, <1>13, <1>14, <1>15 DEF HistoryInv

\* A step of Log, for what it does to the files of t and to its own call.
LEMMA LogStepRight ==
    ASSUME Inv, HistoryInv, NEW c \in Callers, NEW t \in Tasks,
           NEW from \in Logging, NEW to \in Waiting, LogStep(c, t, from, to),
           LogTypes', Histories', dropped \subseteq dropped',
           \A u \in Tasks \ {t} : /\ Readable(u)' = Readable(u)
                                  /\ entries'[u] = entries[u] /\ draft'[u] = draft[u],
           \A m \in Runs : Covered(t, m) => Covered(t, m)',
           Records(c, t)'
    PROVE  HistoryInv'
<1>0. call[c] \in Active /\ call[c].stage = from
  BY ActiveCall, DraftingStages DEF LogStep, At, Inv
<1>1. /\ call'[c] = [call[c] EXCEPT !.stage = to]
      /\ \A d \in Callers \ {c} : call'[d] = call[d]
      /\ call[c].op.tasks = {t} /\ UNCHANGED <<file, ended>>
  BY DEF LogStep, Goto, Inv, TypeOK, taskVars
<1>2. call'[c].op = call[c].op
  BY <1>0, <1>1 DEF Active
<1>3. Finishing(c)
  BY <1>0, StageSets, DraftingStages DEF Finishing, At, Inv, LockInv
<1>4. \A d \in Callers : Finishing(d)' => Finishing(d) /\ call'[d].op = call[d].op
  BY <1>1, <1>2, <1>3 DEF Finishing, At
<1>5. RunsAlone'
  BY <1>4, AloneKept DEF HistoryInv
<1>6. LastRun' = LastRun /\ LastRun \in Nat
  BY <1>1 DEF LastRun, HistoryInv, LogTypes
<1>7. FinishRight'
  <2>. SUFFICES ASSUME NEW d \in Callers, NEW u \in Tasks,
                       Finishing(d)', call'[d].op.tasks = {u}
                PROVE  Records(d, u)'
    BY DEF FinishRight
  <2>1. CASE d = c
    BY <1>1, <1>2, <2>1
  <2>2. CASE d # c
    <3>1. Finishing(d) /\ call[d].op.tasks = {u} /\ call'[d] = call[d]
      BY <1>1, <1>4, <2>2
    <3>2. u # t
      BY <1>1, <1>3, <2>2, <3>1 DEF HistoryInv, RunsAlone
    <3>3. Records(d, u) /\ LogTypes
      BY <3>1 DEF HistoryInv, FinishRight
    <3>. QED
      BY <1>6, <3>1, <3>2, <3>3, RecordsKept
  <2>. QED
    BY <2>1, <2>2
<1>8. \A u \in Tasks, m \in Runs : Covered(u, m) => Covered(u, m)'
  BY CoveredKept
<1>9. OutcomeHasRecord'
  BY <1>1, <1>8, OutcomeKept DEF HistoryInv, Inv
<1>. QED
  BY <1>5, <1>7, <1>9 DEF HistoryInv

\* What is known of the run that takes a step of Log.
LEMMA Writer ==
    ASSUME Inv, HistoryInv, NEW c \in Callers, NEW t \in Tasks,
           call[c].stage \in Logging, call[c].op.tasks = {t}
    PROVE  /\ Records(c, t) /\ call[c] \in Active
           /\ call[c].op.last \in Runs /\ call[c].op.last \in 1..LastRun
           /\ \A m \in ToSet(Readable(t)) : m < call[c].op.last
<1>1. call[c] \in Active /\ Finishing(c) /\ call[c].op.kind = "finish"
  BY ActiveCall, DraftingStages DEF Inv, LockInv, Finishing, At
<1>2. Records(c, t)
  BY <1>1 DEF HistoryInv, FinishRight
<1>3. call[c].op.last \in Runs
  BY <1>1 DEF Active, Store!Op
<1>. QED
  BY <1>1, <1>2, <1>3 DEF Records

LEMMA LoadLogHistory ==
    ASSUME "readHistory" \notin Faults, Inv, HistoryInv,
           NEW c \in Callers, NEW t \in Tasks, LoadLog(c, t)
    PROVE  HistoryInv'
<1>. DEFINE n == call[c].op.last
            q == Newest(<<n>> \o Readable(t))
<1>1. /\ LogStep(c, t, "load log", "open draft") /\ UNCHANGED <<history, draft, dropped>>
      /\ entries' = [entries EXCEPT ![t] = q]
  BY DEF LoadLog
<1>2. /\ call[c].stage = "load log" /\ call[c].op.tasks = {t}
      /\ call'[c] = [call[c] EXCEPT !.stage = "open draft"] /\ UNCHANGED ended
  BY <1>1 DEF LogStep, At, Goto, Inv, TypeOK
<1>3. Records(c, t) /\ call[c] \in Active /\ n \in Runs /\ n \in 1..LastRun
      /\ \A m \in ToSet(Readable(t)) : m < n
  BY <1>2, Writer, DraftingStages
<1>4. Readable(t) \in Seq(Runs)
  BY ReadableType DEF HistoryInv
<1>5. q \in Seq(Runs)
  BY <1>3, <1>4, PushIs, NewestIs
<1>. HIDE DEF q
<1>6. \A u : Readable(u)' = Readable(u)
  BY <1>1 DEF Readable
<1>7. LastRun' = LastRun
  BY <1>2 DEF LastRun
<1>8. LogTypes'
  BY <1>1, <1>2, <1>5, <1>7 DEF HistoryInv, LogTypes, AllRuns
<1>9. Histories'
  BY <1>6, <1>7 DEF HistoryInv, Histories, Descending
<1>10. /\ call'[c].stage = "open draft" /\ call'[c].op = call[c].op
       /\ entries'[t] = q
  BY <1>1, <1>2, <1>3 DEF Active, HistoryInv, LogTypes
<1>11. Records(c, t)'
  <2>1. /\ "open draft" \in Logging /\ call'[c].op.last = n
        /\ entries'[t] = Newest(<<call'[c].op.last>> \o Readable(t)')
    BY <1>6, <1>10, DraftingStages DEF q, Drafting
  <2>. QED
    BY <1>3, <1>6, <1>7, <1>10, <2>1 DEF Records
<1>12. \A m \in Runs : Covered(t, m) => Covered(t, m)'
  BY <1>1, <1>6, CoveredKept
<1>. QED
  BY <1>1, <1>6, <1>8, <1>9, <1>11, <1>12, LogStepRight, DraftingStages, StageSets
  DEF HistoryInv, LogTypes

LEMMA DraftHistory ==
    ASSUME Inv, HistoryInv, NEW c \in Callers, NEW t \in Tasks,
           OpenDraft(c, t) \/ FillDraft(c, t)
    PROVE  HistoryInv'
<1>. DEFINE n == call[c].op.last
<1>1. PICK from \in {"open draft", "fill draft"}, to \in {"fill draft", "rename draft"},
           x \in {Torn, entries[t]} :
         /\ LogStep(c, t, from, to) /\ UNCHANGED <<history, entries, dropped>>
         /\ draft' = [draft EXCEPT ![t] = x]
         /\ to = "rename draft" => x = entries[t]
  BY DEF OpenDraft, FillDraft
<1>2. /\ call[c].stage = from /\ call[c].op.tasks = {t}
      /\ call'[c] = [call[c] EXCEPT !.stage = to] /\ UNCHANGED ended
  BY <1>1 DEF LogStep, At, Goto, Inv, TypeOK
<1>3. /\ from \in Drafting /\ to \in Drafting /\ from \in Logging /\ to \in Logging
      /\ to \in Waiting
  BY StageSets DEF Drafting
<1>4. Records(c, t) /\ call[c] \in Active /\ n \in 1..LastRun
      /\ \A m \in ToSet(Readable(t)) : m < n
  BY <1>2, <1>3, Writer
<1>5. entries[t] = Newest(<<n>> \o Readable(t)) /\ entries[t] \in Seq(Runs)
  BY <1>2, <1>3, <1>4 DEF Records, HistoryInv, LogTypes
<1>6. \A u : Readable(u)' = Readable(u)
  BY <1>1 DEF Readable
<1>7. LastRun' = LastRun
  BY <1>2 DEF LastRun
<1>8. draft' \in [Tasks -> Seq(Runs) \cup {Missing, Torn}] /\ draft'[t] = x
      /\ \A u \in Tasks \ {t} : draft'[u] = draft[u]
  BY <1>1, <1>5 DEF HistoryInv, LogTypes
<1>9. LogTypes'
  <2>0. ended' = ended /\ AllRuns' = AllRuns
    BY <1>2 DEF AllRuns
  <2>3. ended \in [Tasks -> Seq(Runs)] /\ LastRun \in Nat /\ AllRuns = 1..LastRun
    BY DEF HistoryInv, LogTypes
  <2>1. ended' \in [Tasks -> Seq(Runs)] /\ LastRun' \in Nat /\ AllRuns' = 1..LastRun'
    BY <1>7, <2>0, <2>3
  <2>2. history' \in [Tasks -> Seq(Runs) \cup {Missing}] /\ entries' \in [Tasks -> Seq(Runs)]
    BY <1>1 DEF HistoryInv, LogTypes
  <2>. QED
    BY <1>8, <2>1, <2>2 DEF LogTypes
<1>10. Histories'
  BY <1>6, <1>7 DEF HistoryInv, Histories, Descending
<1>11. call'[c].stage = to /\ call'[c].op = call[c].op
  BY <1>2, <1>4 DEF Active
<1>12. Records(c, t)'
  <2>1. /\ call'[c].op.last = n /\ to = "rename draft" => draft'[t] = entries'[t]
        /\ entries'[t] = Newest(<<call'[c].op.last>> \o Readable(t)')
    BY <1>1, <1>5, <1>6, <1>8, <1>11
  <2>. QED
    BY <1>3, <1>4, <1>6, <1>7, <1>11, <2>1 DEF Records
<1>13. \A m \in Runs : Covered(t, m) => Covered(t, m)'
  BY <1>1, <1>6, CoveredKept
<1>. QED
  BY <1>1, <1>3, <1>6, <1>8, <1>9, <1>10, <1>12, <1>13, LogStepRight

\* What the rename makes of the history, and of the runs it had.
LEMMA DraftRenamed ==
    ASSUME Inv, HistoryInv, NEW c \in Callers, NEW t \in Tasks, RenameDraft(c, t),
           NEW n, n = call[c].op.last, NEW q, q = entries[t]
    PROVE  /\ n \in Runs /\ n \in 1..LastRun /\ q \in Seq(Runs) /\ draft[t] = q
           /\ Len(q) <= Cap /\ Descending(q)
           /\ ToSet(q) \subseteq {n} \cup ToSet(Readable(t))
           /\ Readable(t)' = q /\ \A u \in Tasks \ {t} : Readable(u)' = Readable(u)
           /\ Covered(t, n)'
           /\ \A m \in Runs : Covered(t, m) => Covered(t, m)'
<1>. DEFINE s == Readable(t)
<1>1. /\ LogStep(c, t, "rename draft", "lock") /\ UNCHANGED dropped
      /\ history' = [history EXCEPT ![t] = draft[t]]
  BY DEF RenameDraft
<1>2. call[c].stage = "rename draft" /\ call[c].op.tasks = {t}
  BY <1>1 DEF LogStep, At
<1>3. "rename draft" \in Drafting /\ "rename draft" \in Logging
  BY StageSets DEF Drafting
<1>4. Records(c, t) /\ n \in 1..LastRun /\ n \in Runs
      /\ \A m \in ToSet(s) : m < n
  BY <1>2, <1>3, Writer
<1>5. q = Newest(<<n>> \o s) /\ draft[t] = q
  BY <1>2, <1>3, <1>4 DEF Records
<1>6. s \in Seq(Runs) /\ Len(s) <= Cap /\ Descending(s)
  BY ReadableType DEF HistoryInv, Histories
<1>. HIDE DEF s
<1>7. /\ q \in Seq(Runs) /\ Len(q) <= Cap /\ Descending(q)
      /\ n \in ToSet(q) /\ ToSet(q) \subseteq {n} \cup ToSet(s)
      /\ \A m \in ToSet(s) : m \notin ToSet(q) =>
            Len(q) = Cap /\ \A k \in ToSet(q) : k > m
      /\ Len(s) = Cap => Len(q) = Cap
  BY <1>4, <1>5, <1>6, Pushed
<1>8. Readable(t)' = q /\ \A u \in Tasks \ {t} : Readable(u)' = Readable(u)
  <2>1. history'[t] = q /\ q \notin {Missing, Torn}
    BY <1>1, <1>5, <1>7, AbsentAssumption DEF HistoryInv, LogTypes
  <2>2. \A u \in Tasks \ {t} : history'[u] = history[u]
    BY <1>1 DEF HistoryInv, LogTypes
  <2>. QED
    BY <2>1, <2>2 DEF Readable
<1>9. Covered(t, n)'
  BY <1>7, <1>8 DEF Covered
<1>10. ASSUME NEW m \in Runs, Covered(t, m) PROVE Covered(t, m)'
  <2>1. CASE m \in dropped \cup {0, Running, Lost, Sent}
    BY <1>1, <2>1 DEF Covered
  <2>2. CASE m \in ToSet(s)
    BY <1>7, <1>8, <2>2 DEF Covered
  <2>3. CASE Len(s) = Cap /\ \A k \in ToSet(s) : k > m
    <3>1. s[1] \in ToSet(s) /\ s[1] \in Runs
      BY <1>6, <2>3, CapAssumption DEF ToSet
    <3>2. s[1] > m /\ s[1] < n /\ s[1] \in Nat /\ m \in Nat /\ n \in Nat
      BY <1>4, <2>3, <3>1, MaxRunsAssumption DEF Runs
    <3>3. \A k \in ToSet(q) : k > m
      BY <1>7, <2>3, <3>2
    <3>. QED
      BY <1>7, <1>8, <2>3, <3>3 DEF Covered
  <2>. QED
    BY <1>10, <2>1, <2>2, <2>3 DEF Covered, s
<1>. QED
  BY <1>4, <1>5, <1>7, <1>8, <1>9, <1>10 DEF s

LEMMA RenameDraftHistory ==
    ASSUME Inv, HistoryInv, NEW c \in Callers, NEW t \in Tasks, RenameDraft(c, t)
    PROVE  HistoryInv'
<1>0. PICK n, q : n = call[c].op.last /\ q = entries[t]
  OBVIOUS
<1>1. /\ LogStep(c, t, "rename draft", "lock") /\ UNCHANGED dropped
      /\ history' = [history EXCEPT ![t] = draft[t]]
      /\ draft' = [draft EXCEPT ![t] = Missing]
      /\ entries' = [entries EXCEPT ![t] = <<>>]
  BY DEF RenameDraft
<1>2. /\ call[c].stage = "rename draft" /\ call[c].op.tasks = {t}
      /\ call'[c] = [call[c] EXCEPT !.stage = "lock"] /\ UNCHANGED ended
  BY <1>1 DEF LogStep, At, Goto, Inv, TypeOK
<1>3. "rename draft" \in Logging
  BY StageSets
<1>4. call[c] \in Active
  BY <1>2, <1>3, Writer
<1>5. /\ n \in 1..LastRun /\ q \in Seq(Runs) /\ draft[t] = q
      /\ Len(q) <= Cap /\ Descending(q)
      /\ ToSet(q) \subseteq {n} \cup ToSet(Readable(t))
      /\ Readable(t)' = q /\ \A u \in Tasks \ {t} : Readable(u)' = Readable(u)
      /\ Covered(t, n)'
      /\ \A m \in Runs : Covered(t, m) => Covered(t, m)'
  BY <1>0, DraftRenamed
<1>6. LastRun' = LastRun
  BY <1>2 DEF LastRun
<1>7. LogTypes'
  <2>1. /\ history' \in [Tasks -> Seq(Runs) \cup {Missing}]
        /\ draft' \in [Tasks -> Seq(Runs) \cup {Missing, Torn}]
        /\ entries' \in [Tasks -> Seq(Runs)]
    <3>1. history \in [Tasks -> Seq(Runs) \cup {Missing}] /\ draft[t] \in Seq(Runs)
      BY <1>5 DEF HistoryInv, LogTypes
    <3>2. history' \in [Tasks -> Seq(Runs) \cup {Missing}]
      BY <1>1, <3>1
    <3>3. draft' \in [Tasks -> Seq(Runs) \cup {Missing, Torn}]
      BY <1>1 DEF HistoryInv, LogTypes
    <3>4. entries' \in [Tasks -> Seq(Runs)]
      <4>1. entries \in [Tasks -> Seq(Runs)] /\ entries' = [entries EXCEPT ![t] = <<>>]
        BY <1>1 DEF HistoryInv, LogTypes
      <4>2. <<>> \in Seq(Runs)
        OBVIOUS
      <4>. QED
        BY <4>1, <4>2
    <3>. QED
      BY <3>2, <3>3, <3>4
  <2>2. ended' \in [Tasks -> Seq(Runs)] /\ LastRun' \in Nat /\ AllRuns' = 1..LastRun'
    BY <1>2, <1>6 DEF HistoryInv, LogTypes, AllRuns
  <2>. QED
    BY <2>1, <2>2 DEF LogTypes
<1>8. Histories'
  <2>1. \A m \in ToSet(q) : m <= LastRun
    <3>1. n <= LastRun
      BY <1>5 DEF HistoryInv, LogTypes
    <3>2. \A m \in ToSet(Readable(t)) : m <= LastRun
      BY DEF HistoryInv, Histories
    <3>. QED
      BY <1>5, <3>1, <3>2
  <2>. SUFFICES ASSUME NEW u \in Tasks
                PROVE  /\ Len(Readable(u)') <= Cap /\ Descending(Readable(u)')
                       /\ \A m \in ToSet(Readable(u)') : m <= LastRun'
    BY DEF Histories, Descending
  <2>2. CASE u = t
    BY <1>5, <1>6, <2>1, <2>2
  <2>3. CASE u # t
    BY <1>5, <1>6, <2>3 DEF HistoryInv, Histories
  <2>. QED
    BY <2>2, <2>3
<1>9. Records(c, t)'
  <2>1. call'[c].stage = "lock" /\ call'[c].op = call[c].op
    BY <1>2, <1>4 DEF Active
  <2>2. "lock" \notin Logging \cup Drafting
    BY DraftingStages, StageSets
  <2>. QED
    BY <1>0, <1>5, <1>6, <2>1, <2>2 DEF Records
<1>. QED
  <2>1. \A u \in Tasks \ {t} : entries'[u] = entries[u] /\ draft'[u] = draft[u]
    BY <1>1 DEF HistoryInv, LogTypes
  <2>. QED
    BY <1>1, <1>3, <1>5, <1>7, <1>8, <1>9, <2>1, LogStepRight, StageSets

LEMMA DropRecordHistory ==
    ASSUME Inv, HistoryInv, NEW c \in Callers, NEW t \in Tasks, DropRecord(c, t)
    PROVE  HistoryInv'
<1>0. PICK n : n = call[c].op.last
  OBVIOUS
<1>1. PICK from \in Logging :
         /\ LogStep(c, t, from, "lock") /\ UNCHANGED <<history, draft>>
         /\ dropped' = dropped \cup {n}
         /\ entries' = [entries EXCEPT ![t] = <<>>]
  BY <1>0 DEF DropRecord
<1>2. /\ call[c].stage = from /\ call[c].op.tasks = {t}
      /\ call'[c] = [call[c] EXCEPT !.stage = "lock"] /\ UNCHANGED ended
  BY <1>1 DEF LogStep, At, Goto, Inv, TypeOK
<1>3. Records(c, t) /\ call[c] \in Active /\ n \in 1..LastRun
  BY <1>0, <1>2, Writer
<1>4. \A u : Readable(u)' = Readable(u)
  BY <1>1 DEF Readable
<1>5. LastRun' = LastRun
  BY <1>2 DEF LastRun
<1>6. LogTypes'
  <2>1. ended' \in [Tasks -> Seq(Runs)] /\ LastRun' \in Nat /\ AllRuns' = 1..LastRun'
    BY <1>2, <1>5 DEF HistoryInv, LogTypes, AllRuns
  <2>2. /\ history' \in [Tasks -> Seq(Runs) \cup {Missing}]
        /\ draft' \in [Tasks -> Seq(Runs) \cup {Missing, Torn}]
    BY <1>1 DEF HistoryInv, LogTypes
  <2>3. entries' \in [Tasks -> Seq(Runs)] /\ \A u \in Tasks \ {t} : entries'[u] = entries[u]
    BY <1>1 DEF HistoryInv, LogTypes
  <2>. QED
    BY <2>1, <2>2, <2>3 DEF LogTypes
<1>7. Histories'
  BY <1>4, <1>5 DEF HistoryInv, Histories, Descending
<1>8. Covered(t, n)'
  BY <1>1 DEF Covered
<1>9. Records(c, t)'
  <2>1. call'[c].stage = "lock" /\ call'[c].op = call[c].op
    BY <1>2, <1>3 DEF Active
  <2>2. "lock" \notin Logging \cup Drafting
    BY DraftingStages, StageSets
  <2>. QED
    BY <1>0, <1>3, <1>5, <1>8, <2>1, <2>2 DEF Records
<1>10. \A m \in Runs : Covered(t, m) => Covered(t, m)'
  BY <1>1, <1>4, CoveredKept
<1>. QED
  <2>1. \A u \in Tasks \ {t} : entries'[u] = entries[u] /\ draft'[u] = draft[u]
    BY <1>1 DEF HistoryInv, LogTypes
  <2>. QED
    BY <1>1, <1>4, <1>6, <1>7, <1>9, <1>10, <2>1, LogStepRight, StageSets

-----------------------------------------------------------------------------
(* The file of tasks, and the end of the process.                          *)

\* The outcome that comes into the file is that of a run that has been written down.
LEMMA RenameHistory ==
    ASSUME Inv, HistoryInv, NEW c \in Callers, Rename(c)
    PROVE  HistoryInv'
<1>1. LogTypes' /\ Histories' /\ RunsAlone' /\ FinishRight'
  BY CallQuiet
<1>2. UNCHANGED logVars
  BY DEF Rename
<1>3. \A t : Readable(t)' = Readable(t) /\ dropped' = dropped
  BY <1>2 DEF Readable, logVars
<1>4. \A t, n : Covered(t, n) => Covered(t, n)'
  BY <1>3 DEF Covered
<1>5. CASE UNCHANGED file
  BY <1>1, <1>4, <1>5, OutcomeKept DEF HistoryInv, Inv
<1>6. CASE ~UNCHANGED file
  <2>. DEFINE op == call[c].op
              v  == Parsed(file)
  <2>1. call[c].stage = "rename" /\ call[c].stage \in Writing /\ call[c].stage \notin Logging
    BY StageSets DEF Rename, At
  <2>2. call[c] \in Active /\ v \in Store!Contents /\ Store!Applied(op, v) \in Store!Contents
    BY <2>1, Holding
  <2>3. file' = Store!Applied(op, v)
    BY <1>6, <2>1, Holding DEF Rename, GiveUp, Inv, LockInv
  <2>4. Parsed(file') = Store!Applied(op, v)
    BY <2>2, <2>3, AbsentAssumption DEF Parsed
  <2>5. ASSUME NEW t \in Tasks, Store!Applied(op, v)[t] # NoTask
        PROVE  Covered(t, Store!Applied(op, v)[t].last)
    <3>1. CASE t \notin Store!Affected(op, v)
      <4>1. Store!Applied(op, v)[t] = v[t]
        BY <3>1 DEF Store!Applied
      <4>. QED
        BY <2>5, <4>1, OutcomeIsCovered DEF HistoryInv
    <3>2. CASE t \in Store!Affected(op, v)
      <4>1. Store!Applied(op, v)[t] = Store!Changed(op, v[t])
        BY <3>2 DEF Store!Applied
      <4>2. op \in Store!Op
        BY <2>2 DEF Active
      <4>3. CASE op.kind = "create"
        <5>1. Store!Applied(op, v)[t].last \in {0, Running, Sent}
          BY <4>1, <4>2, <4>3 DEF Store!Changed, Store!Op
        <5>. QED
          BY <5>1 DEF Covered
      <4>4. CASE op.kind = "update"
        <5>1. v[t] # NoTask /\ v[t] \in [def : Defs, last : Store!Lasts]
          BY <2>2, <3>2, <4>4 DEF Store!Affected, Store!Contents
        <5>2. Store!Applied(op, v)[t].last = IF op.last = 0 THEN v[t].last ELSE op.last
          BY <4>1, <4>4, <5>1 DEF Store!Changed
        <5>3. op.last \in {0, Running, Sent}
          BY <4>2, <4>4 DEF Store!Op
        <5>4. CASE op.last = 0
          BY <5>1, <5>2, <5>4, OutcomeIsCovered DEF HistoryInv
        <5>5. CASE op.last # 0
          BY <5>2, <5>3, <5>5 DEF Covered
        <5>. QED
          BY <5>4, <5>5
      <4>5. CASE op.kind = "finish"
        <5>1. v[t] # NoTask /\ t \in op.tasks /\ v[t] \in [def : Defs, last : Store!Lasts]
          BY <2>2, <3>2, <4>5 DEF Store!Affected, Store!Contents
        <5>2. Store!Applied(op, v)[t].last = op.last
          BY <4>1, <4>5, <5>1 DEF Store!Changed
        <5>3. Finishing(c)
          BY <2>1, <4>5, DraftingStages DEF Finishing, At
        <5>4. op.tasks = {t}
          BY <5>1, <5>3 DEF HistoryInv, RunsAlone
        <5>5. Records(c, t)
          BY <5>3, <5>4 DEF HistoryInv, FinishRight
        <5>. QED
          BY <2>1, <5>2, <5>5 DEF Records
      <4>6. CASE op.kind \in {"delete", "load"}
        BY <2>5, <4>1, <4>6 DEF Store!Changed
      <4>7. CASE op.kind \in {"mark", "reset"}
        <5>1. v[t] # NoTask /\ v[t] \in [def : Defs, last : Store!Lasts]
          BY <2>2, <3>2, <4>7 DEF Store!Affected, Store!Contents
        <5>2. Store!Applied(op, v)[t].last \in {Running, Lost}
          BY <4>1, <4>7, <5>1 DEF Store!Changed
        <5>. QED
          BY <5>2 DEF Covered
      <4>. QED
        BY <4>2, <4>3, <4>4, <4>5, <4>6, <4>7 DEF Store!Op
    <3>. QED
      BY <3>1, <3>2
  <2>6. ASSUME NEW t \in Tasks, Parsed(file')[t] # NoTask
        PROVE  Covered(t, Parsed(file)[t].last)'
    <3>1. PICK n : n = Parsed(file')[t].last
      OBVIOUS
    <3>2. Covered(t, n)
      BY <2>4, <2>5, <2>6, <3>1
    <3>. QED
      BY <1>4, <3>1, <3>2
  <2>7. OutcomeHasRecord'
    BY <2>6 DEF OutcomeHasRecord, Covered
  <2>. QED
    BY <1>1, <2>7 DEF HistoryInv
<1>. QED
  BY <1>5, <1>6

LEMMA CrashHistory ==
    ASSUME Inv, HistoryInv, Crash
    PROVE  HistoryInv'
<1>1. /\ \A c \in Callers : call'[c].stage = "idle"
      /\ dropped \subseteq dropped' /\ entries' = [t \in Tasks |-> <<>>]
      /\ UNCHANGED <<file, history, draft, ended>>
  BY DEF Crash, Store!Idle
<1>2. \A t : Readable(t)' = Readable(t)
  BY <1>1 DEF Readable
<1>3. LastRun' = LastRun /\ AllRuns' = AllRuns
  BY <1>1 DEF LastRun, AllRuns
<1>4. LogTypes'
  <2>1. entries' \in [Tasks -> Seq(Runs)]
    BY <1>1
  <2>. QED
    BY <1>1, <1>3, <2>1 DEF HistoryInv, LogTypes
<1>5. Histories'
  BY <1>2, <1>3 DEF HistoryInv, Histories, Descending
<1>6. \A c \in Callers : ~Finishing(c)'
  BY <1>1 DEF Finishing, At
<1>7. OutcomeHasRecord'
  BY <1>1, <1>2, CoveredKept, OutcomeKept DEF HistoryInv, Inv
<1>. QED
  BY <1>4, <1>5, <1>6, <1>7 DEF HistoryInv, RunsAlone, FinishRight

LEMMA InitHistory == Init => HistoryInv
<1>. SUFFICES ASSUME Init PROVE HistoryInv
  OBVIOUS
<1>1. AllRuns = {} /\ LastRun = 0
  <2>1. \A t \in Tasks : ToSet(ended[t]) = {}
    BY DEF Init, ToSet
  <2>2. UNION {ToSet(ended[t]) : t \in Tasks} = {}
    BY <2>1
  <2>. QED
    BY <2>2, FS_EmptySet DEF AllRuns, LastRun
<1>2. LogTypes
  BY <1>1 DEF Init, LogTypes
<1>3. \A t \in Tasks : Readable(t) = <<>>
  BY DEF Init, Readable
<1>4. Histories
  BY <1>3, CapAssumption DEF Histories, Descending, ToSet
<1>5. \A c \in Callers : ~Finishing(c)
  BY DEF Init, Finishing, At, Store!Idle
<1>6. OutcomeHasRecord
  BY DEF Init, OutcomeHasRecord, Parsed
<1>. QED
  BY <1>2, <1>4, <1>5, <1>6 DEF HistoryInv, RunsAlone, FinishRight

LEMMA NextHistory ==
    ASSUME "readHistory" \notin Faults, Inv, HistoryInv, [Next]_vars
    PROVE  HistoryInv'
<1>1. ASSUME NEW c \in Callers, NEW t \in Tasks, EndRun(c, t) PROVE HistoryInv'
  BY <1>1, EndRunHistory
<1>2. ASSUME NEW c \in Callers, NEW t \in Tasks, Log(c, t) PROVE HistoryInv'
  BY <1>2, LoadLogHistory, DraftHistory, RenameDraftHistory, DropRecordHistory DEF Log
<1>3. ASSUME NEW c \in Callers, Rename(c) PROVE HistoryInv'
  BY <1>3, RenameHistory
<1>4. ASSUME NEW c \in Callers,
             \/ \E op \in Requests : Begin(c, op)
             \/ \E t \in Tasks : StartRun(c, t) \/ Reset(c, t)
             \/ Lock(c) \/ Read(c) \/ Open(c) \/ Fill(c) \/ Unlock(c)
      PROVE  HistoryInv'
  <2>1. LogTypes' /\ Histories' /\ RunsAlone' /\ FinishRight'
    BY <1>4, CallQuiet
  <2>2. UNCHANGED logVars /\ UNCHANGED file
    BY <1>4 DEF Begin, StartRun, Reset, Lock, Read, Open, Fill, Unlock, GiveUp, taskVars
  <2>3. \A t, n : Covered(t, n) => Covered(t, n)'
    BY <2>2 DEF Covered, Readable, logVars
  <2>. QED
    BY <2>1, <2>2, <2>3, OutcomeKept DEF HistoryInv, Inv
<1>5. CASE UNCHANGED vars
  <2>1. UNCHANGED logVars /\ UNCHANGED call /\ UNCHANGED file
    BY <1>5 DEF vars, taskVars
  <2>2. /\ \A t : Readable(t)' = Readable(t)
        /\ LastRun' = LastRun /\ AllRuns' = AllRuns
    BY <2>1 DEF logVars, Readable, LastRun, AllRuns
  <2>3. LogTypes' /\ Histories'
    BY <2>1, <2>2 DEF HistoryInv, LogTypes, Histories, logVars, Descending
  <2>4. RunsAlone'
    BY <2>1, AloneKept DEF HistoryInv, Finishing, At
  <2>5. \A d \in Callers : Finishing(d)' => Finishing(d) /\ call'[d] = call[d]
    BY <2>1 DEF Finishing, At
  <2>6. FinishRight'
    <3>. SUFFICES ASSUME NEW d \in Callers, NEW t \in Tasks,
                         Finishing(d)', call'[d].op.tasks = {t}
                  PROVE  Records(d, t)'
      BY DEF FinishRight
    <3>1. Records(d, t)
      BY <2>5 DEF HistoryInv, FinishRight
    <3>2. LastRun' \in Nat /\ LastRun <= LastRun'
      BY <2>2 DEF HistoryInv, LogTypes
    <3>. QED
      BY <2>1, <2>2, <3>1, <3>2, RecordsKept DEF HistoryInv, logVars
  <2>7. OutcomeHasRecord'
    BY <2>1, <2>2, CoveredKept, OutcomeKept DEF HistoryInv, Inv, logVars
  <2>. QED
    BY <2>3, <2>4, <2>6, <2>7 DEF HistoryInv
<1>. QED
  BY <1>1, <1>2, <1>3, <1>4, <1>5, CrashHistory DEF Next, Step

\* logstore.go and scheduler.go: the record of a run is written before its outcome, so
\* an outcome that clients see can be looked up, unless its record could not be written or
\* newer ones have pushed it out.  Any write may fail and the process may die at any
\* point; what is assumed is that a history that is there can be read.
THEOREM OutcomesHaveRecords ==
    ASSUME "readHistory" \notin Faults
    PROVE  Spec => []OutcomeHasRecord
<1>1. Init => Inv /\ HistoryInv
  BY InitInv, InitHistory
<1>2. Inv /\ HistoryInv /\ [Next]_vars => Inv' /\ HistoryInv'
  BY NextInv, NextHistory
<1>3. HistoryInv => OutcomeHasRecord
  BY DEF HistoryInv
<1>. QED
  BY <1>1, <1>2, <1>3, PTL DEF Spec

-----------------------------------------------------------------------------
(* Between runs, a history has the newest records.                         *)

\* Run n of t is being written down.
Logs(c, t, n) ==
    call[c].stage \in Logging /\ call[c].op.tasks = {t} /\ call[c].op.last = n

\* A history has records of its own task's runs, and a run is in it, or does not belong
\* there, unless it is being written down.
OwnRuns ==
    /\ \A t \in Tasks : ToSet(Readable(t)) \subseteq ToSet(ended[t]) \ dropped
    /\ \A t, u \in Tasks : t # u => ToSet(ended[t]) \cap ToSet(ended[u]) = {}
    /\ dropped \subseteq AllRuns
    /\ \A c \in Callers, t \in Tasks, n \in Runs :
          Logs(c, t, n) => n \in ToSet(ended[t]) \ dropped
    /\ \A t \in Tasks : \A n \in ToSet(ended[t]) :
          Covered(t, n) \/ \E c \in Callers : Logs(c, t, n)

LEMMA EndedRuns ==
    ASSUME LogTypes, NEW t \in Tasks, NEW n \in ToSet(ended[t])
    PROVE  n \in Runs \ {0, Running, Lost, Sent} /\ n \in AllRuns
<1>1. n \in AllRuns
  BY DEF AllRuns
<1>2. n # 0
  BY <1>1 DEF LogTypes
<1>3. n \in Runs
  BY DEF LogTypes, ToSet
<1>. QED
  BY <1>1, <1>2, <1>3, AbsentAssumption

\* A run that is being written down has a task and a number, and is the only one of it.
LEMMA LoggingRun ==
    ASSUME Inv, HistoryInv, NEW c \in Callers, call[c].stage \in Logging
    PROVE  /\ \E t \in Tasks : Logs(c, t, call[c].op.last)
           /\ call[c].op.last \in Runs
           /\ \A d \in Callers, t \in Tasks : \A n, m : Logs(c, t, n) /\ Logs(d, t, m) => c = d
<1>1. ASSUME NEW d \in Callers, call[d].stage \in Logging
      PROVE  Finishing(d) /\ call[d].op.last \in Runs
  <2>1. call[d] \in Active /\ call[d].op.kind = "finish" /\ Finishing(d)
    BY <1>1, ActiveCall, DraftingStages DEF Inv, LockInv, Finishing, At
  <2>. QED
    BY <2>1 DEF Active, Store!Op
<1>2. \E t \in Tasks : call[c].op.tasks = {t}
  BY <1>1 DEF HistoryInv, RunsAlone
<1>. QED
  BY <1>1, <1>2 DEF HistoryInv, RunsAlone, Logs

\* A step that leaves the histories and the runs that are being written down.
LEMMA OwnRunsKept ==
    ASSUME OwnRuns, UNCHANGED <<history, ended, dropped>>,
           \A c \in Callers, t \in Tasks, n \in Runs : Logs(c, t, n)' <=> Logs(c, t, n),
           LogTypes
    PROVE  OwnRuns'
<1>1. \A t : Readable(t)' = Readable(t)
  BY DEF Readable
<1>2. \A t, n : Covered(t, n)' <=> Covered(t, n)
  BY <1>1 DEF Covered
<1>3. AllRuns' = AllRuns
  BY DEF AllRuns
<1>4. \A t \in Tasks : \A n \in ToSet(ended[t]) : n \in Runs
  BY EndedRuns
<1>. QED
  BY <1>1, <1>2, <1>3, <1>4 DEF OwnRuns

LEMMA EndRunOwn ==
    ASSUME Inv, HistoryInv, OwnRuns, NEW c \in Callers, NEW t \in Tasks, EndRun(c, t)
    PROVE  OwnRuns'
<1>1. PICK n : n = LastRun + 1
  OBVIOUS
<1>2. /\ n \in Runs /\ ended' = [ended EXCEPT ![t] = <<n>> \o @]
      /\ UNCHANGED <<history, dropped>> /\ At(c, "idle")
      /\ call' = [call EXCEPT ![c] =
                     Calling([kind |-> "finish", tasks |-> {t}, last |-> n], "load log")]
  BY <1>1 DEF EndRun
<1>3. LogTypes
  BY DEF HistoryInv
<1>4. n \notin AllRuns
  <2>1. LastRun \in Nat /\ AllRuns = 1..LastRun
    BY <1>3 DEF LogTypes
  <2>. QED
    BY <1>1, <2>1
<1>5. \A u \in Tasks : ToSet(ended'[u]) = IF u = t THEN {n} \cup ToSet(ended[u])
                                                  ELSE ToSet(ended[u])
  <2>1. ToSet(<<n>> \o ended[t]) = {n} \cup ToSet(ended[t])
    BY <1>2, <1>3, PushIs DEF LogTypes
  <2>2. \A u \in Tasks : ended'[u] = IF u = t THEN <<n>> \o ended[t] ELSE ended[u]
    BY <1>2, <1>3 DEF LogTypes
  <2>. QED
    BY <2>1, <2>2
<1>6. \A u : Readable(u)' = Readable(u)
  BY <1>2 DEF Readable
<1>7. \A u, m : Covered(u, m)' <=> Covered(u, m)
  BY <1>2, <1>6 DEF Covered
<1>8. Logs(c, t, n)' /\ \A u \in Tasks, m \in Runs : Logs(c, u, m)' => u = t /\ m = n
  <2>. DEFINE op == [kind |-> "finish", tasks |-> {t}, last |-> n]
              x  == Calling(op, "load log")
  <2>1. op.tasks = {t} /\ op.last = n
    OBVIOUS
  <2>2. call'[c] = x
    BY <1>2 DEF Inv, TypeOK
  <2>. HIDE DEF op
  <2>3. x.stage = "load log" /\ x.op = op
    BY DEF Calling
  <2>. HIDE DEF x
  <2>4. call'[c].stage \in Logging /\ call'[c].op.tasks = {t} /\ call'[c].op.last = n
    BY <2>1, <2>2, <2>3, StageSets
  <2>. QED
    BY <2>4 DEF Logs
<1>9. \A d \in Callers \ {c}, u \in Tasks, m \in Runs : Logs(d, u, m)' <=> Logs(d, u, m)
  BY <1>2 DEF Logs, Inv, TypeOK
<1>10. \A u \in Tasks, m \in Runs : ~Logs(c, u, m)
  BY <1>2, DraftingStages DEF Logs, At
<1>11. \A u \in Tasks : ToSet(ended[u]) \subseteq AllRuns
  BY EndedRuns, <1>3
<1>12. AllRuns \subseteq AllRuns' /\ n \notin dropped
  <2>1. ASSUME NEW m \in AllRuns PROVE m \in AllRuns'
    <3>1. PICK u \in Tasks : m \in ToSet(ended[u])
      BY <2>1 DEF AllRuns
    <3>2. m \in ToSet(ended'[u])
      BY <1>5, <3>1
    <3>. QED
      BY <3>2 DEF AllRuns
  <2>. QED
    BY <1>4, <2>1 DEF OwnRuns
<1>13. dropped' = dropped /\ \A u \in Tasks : ToSet(ended[u]) \subseteq ToSet(ended'[u])
  <2>1. ASSUME NEW u \in Tasks, NEW m \in ToSet(ended[u]) PROVE m \in ToSet(ended'[u])
    BY <1>5
  <2>. QED
    BY <1>2, <2>1
<1>14. \A u \in Tasks : ToSet(Readable(u)') \subseteq ToSet(ended'[u]) \ dropped'
  <2>. SUFFICES ASSUME NEW u \in Tasks, NEW m \in ToSet(Readable(u)')
                PROVE  m \in ToSet(ended'[u]) \ dropped'
    OBVIOUS
  <2>1. m \in ToSet(Readable(u))
    BY <1>6
  <2>2. m \in ToSet(ended[u]) \ dropped
    BY <2>1 DEF OwnRuns
  <2>. QED
    BY <1>13, <2>2
<1>15. \A u, v \in Tasks : u # v => ToSet(ended'[u]) \cap ToSet(ended'[v]) = {}
  <2>. SUFFICES ASSUME NEW u \in Tasks, NEW v \in Tasks, u # v,
                       NEW m \in ToSet(ended'[u]), m \in ToSet(ended'[v])
                PROVE  FALSE
    OBVIOUS
  <2>1. m \in ToSet(ended[u]) \/ (u = t /\ m = n)
    BY <1>5
  <2>2. m \in ToSet(ended[v]) \/ (v = t /\ m = n)
    BY <1>5
  <2>3. ~(m \in ToSet(ended[u]) /\ m \in ToSet(ended[v]))
    BY DEF OwnRuns
  <2>. QED
    BY <1>4, <1>11, <2>1, <2>2, <2>3
<1>16. \A d \in Callers, u \in Tasks, m \in Runs :
          Logs(d, u, m)' => m \in ToSet(ended'[u]) \ dropped'
  <2>. SUFFICES ASSUME NEW d \in Callers, NEW u \in Tasks, NEW m \in Runs, Logs(d, u, m)'
                PROVE  m \in ToSet(ended'[u]) \ dropped'
    OBVIOUS
  <2>1. CASE d = c
    <3>1. u = t /\ m = n
      BY <1>8, <2>1
    <3>2. n \in ToSet(ended'[t])
      BY <1>5
    <3>. QED
      BY <1>12, <1>13, <3>1, <3>2
  <2>2. CASE d # c
    <3>1. Logs(d, u, m)
      BY <1>9, <2>2
    <3>2. m \in ToSet(ended[u]) \ dropped
      BY <3>1 DEF OwnRuns
    <3>. QED
      BY <1>13, <3>2
  <2>. QED
    BY <2>1, <2>2
<1>17. \A u \in Tasks : \A m \in ToSet(ended'[u]) :
          Covered(u, m)' \/ \E d \in Callers : Logs(d, u, m)'
  <2>. SUFFICES ASSUME NEW u \in Tasks, NEW m \in ToSet(ended'[u])
                PROVE  Covered(u, m)' \/ \E d \in Callers : Logs(d, u, m)'
    OBVIOUS
  <2>1. CASE m \in ToSet(ended[u])
    <3>1. CASE Covered(u, m)
      BY <1>7, <3>1
    <3>2. ASSUME NEW d \in Callers, Logs(d, u, m) PROVE Logs(d, u, m)'
      BY <1>3, <1>9, <1>10, <2>1, <3>2, EndedRuns
    <3>. QED
      BY <2>1, <3>1, <3>2 DEF OwnRuns
  <2>2. CASE m \notin ToSet(ended[u])
    BY <1>5, <1>8, <2>2
  <2>. QED
    BY <2>1, <2>2
<1>18. (dropped \subseteq AllRuns)'
  BY <1>2, <1>12 DEF OwnRuns
<1>. QED
  BY <1>14, <1>15, <1>16, <1>17, <1>18 DEF OwnRuns

\* A step of Log that goes on to another step of it.
LEMMA DraftOwn ==
    ASSUME Inv, HistoryInv, OwnRuns, NEW c \in Callers, NEW t \in Tasks,
           LoadLog(c, t) \/ OpenDraft(c, t) \/ FillDraft(c, t)
    PROVE  OwnRuns'
<1>1. PICK from \in Logging, to \in Logging :
         LogStep(c, t, from, to) /\ UNCHANGED <<history, dropped>>
  BY StageSets DEF LoadLog, OpenDraft, FillDraft
<1>2. /\ call[c].stage = from /\ UNCHANGED ended
      /\ call' = [call EXCEPT ![c].stage = to]
  BY <1>1 DEF LogStep, At, Goto
<1>3. call[c] \in Active
  BY <1>2, ActiveCall, DraftingStages DEF Inv
<1>4. call'[c].stage = to /\ call'[c].op = call[c].op
      /\ \A d \in Callers \ {c} : call'[d] = call[d]
  BY <1>2, <1>3 DEF Inv, TypeOK, Active
<1>5. \A d \in Callers, u \in Tasks, n \in Runs : Logs(d, u, n)' <=> Logs(d, u, n)
  BY <1>2, <1>4 DEF Logs
<1>. QED
  BY <1>1, <1>2, <1>5, OwnRunsKept DEF HistoryInv

\* The last step of Log: its run need not be written down any more.
LEMMA LoggedOwn ==
    ASSUME Inv, HistoryInv, OwnRuns, NEW c \in Callers, NEW t \in Tasks,
           NEW from \in Logging, LogStep(c, t, from, "lock"),
           NEW n, n = call[c].op.last,
           \A u \in Tasks : ToSet(Readable(u)') \subseteq ToSet(ended[u]) \ dropped',
           dropped' \subseteq dropped \cup {n}, dropped \subseteq dropped',
           \A u \in Tasks, m \in Runs : Covered(u, m) => Covered(u, m)',
           Covered(t, n)'
    PROVE  OwnRuns'
<1>1. /\ call[c].stage = from /\ call[c].op.tasks = {t} /\ UNCHANGED ended
      /\ call' = [call EXCEPT ![c].stage = "lock"]
  BY DEF LogStep, At, Goto
<1>2. call'[c].stage = "lock" /\ \A d \in Callers \ {c} : call'[d] = call[d]
  <2>1. call[c] \in Active
    BY <1>1, ActiveCall, DraftingStages DEF Inv
  <2>. QED
    BY <1>1, <2>1 DEF Inv, TypeOK, Active
<1>3. \A d \in Callers, u \in Tasks, m \in Runs :
         Logs(d, u, m)' <=> d # c /\ Logs(d, u, m)
  BY <1>2, StageSets DEF Logs
<1>4. Logs(c, t, n) /\ n \in Runs /\ n \in ToSet(ended[t]) /\ LogTypes
  BY <1>1, LoggingRun DEF Logs, OwnRuns, HistoryInv
<1>5. ASSUME NEW d \in Callers \ {c}, NEW u \in Tasks, NEW m \in Runs, Logs(d, u, m)
      PROVE  m \in ToSet(ended[u]) /\ m \notin dropped'
  <2>1. u # t
    BY <1>1, <1>4, <1>5, LoggingRun
  <2>2. m \in ToSet(ended[u]) \ dropped /\ m # n
    BY <1>4, <1>5, <2>1 DEF OwnRuns
  <2>. QED
    BY <2>2
<1>6. ASSUME NEW u \in Tasks, NEW m \in ToSet(ended[u])
      PROVE  Covered(u, m)' \/ \E d \in Callers : Logs(d, u, m)'
  <2>0. m \in Runs
    BY <1>4, <1>6, EndedRuns
  <2>1. CASE Covered(u, m)
    BY <2>0, <2>1
  <2>2. ASSUME NEW d \in Callers, Logs(d, u, m)
        PROVE  Covered(u, m)' \/ Logs(d, u, m)'
    <3>1. CASE d # c
      BY <1>3, <2>0, <2>2, <3>1
    <3>2. CASE d = c
      <4>1. u = t /\ m = n
        BY <1>1, <2>2, <3>2 DEF Logs
      <4>. QED
        BY <4>1
    <3>. QED
      BY <3>1, <3>2
  <2>. QED
    BY <1>6, <2>1, <2>2 DEF OwnRuns
<1>7. dropped' \subseteq AllRuns'
  <2>1. AllRuns' = AllRuns /\ n \in AllRuns
    BY <1>1, <1>4, EndedRuns DEF AllRuns
  <2>. QED
    BY <2>1 DEF OwnRuns
<1>8. \A u, v \in Tasks : u # v => ToSet(ended[u])' \cap ToSet(ended[v])' = {}
  BY <1>1 DEF OwnRuns
<1>9. \A d \in Callers, u \in Tasks, m \in Runs :
         Logs(d, u, m)' => m \in ToSet(ended[u])' \ dropped'
  BY <1>1, <1>3, <1>5
<1>10. \A u \in Tasks : \A m \in ToSet(ended[u])' :
          Covered(u, m)' \/ \E d \in Callers : Logs(d, u, m)'
  BY <1>1, <1>6
<1>11. \A u \in Tasks : ToSet(Readable(u)') \subseteq ToSet(ended[u])' \ dropped'
  BY <1>1
<1>. QED
  BY <1>7, <1>8, <1>9, <1>10, <1>11 DEF OwnRuns

LEMMA RenameDraftOwn ==
    ASSUME Inv, HistoryInv, OwnRuns, NEW c \in Callers, NEW t \in Tasks, RenameDraft(c, t)
    PROVE  OwnRuns'
<1>0. PICK n, q : n = call[c].op.last /\ q = entries[t]
  OBVIOUS
<1>1. /\ n \in Runs /\ ToSet(q) \subseteq {n} \cup ToSet(Readable(t))
      /\ Readable(t)' = q /\ \A u \in Tasks \ {t} : Readable(u)' = Readable(u)
      /\ Covered(t, n)'
      /\ \A m \in Runs : Covered(t, m) => Covered(t, m)'
  BY <1>0, DraftRenamed
<1>2. LogStep(c, t, "rename draft", "lock") /\ UNCHANGED dropped
  BY DEF RenameDraft
<1>3. "rename draft" \in Logging
  BY StageSets
<1>4. Logs(c, t, n)
  BY <1>0, <1>2, <1>3 DEF LogStep, At, Logs
<1>5. \A u \in Tasks : ToSet(Readable(u)') \subseteq ToSet(ended[u]) \ dropped'
  <2>. SUFFICES ASSUME NEW u \in Tasks
                PROVE  ToSet(Readable(u)') \subseteq ToSet(ended[u]) \ dropped
    BY <1>2
  <2>1. CASE u = t
    BY <1>1, <1>4, <2>1 DEF OwnRuns
  <2>2. CASE u # t
    BY <1>1, <2>2 DEF OwnRuns
  <2>. QED
    BY <2>1, <2>2
<1>6. \A u \in Tasks, m \in Runs : Covered(u, m) => Covered(u, m)'
  BY <1>1, <1>2, CoveredKept
<1>. QED
  BY <1>0, <1>1, <1>2, <1>3, <1>5, <1>6, LoggedOwn

LEMMA DropRecordOwn ==
    ASSUME Inv, HistoryInv, OwnRuns, NEW c \in Callers, NEW t \in Tasks, DropRecord(c, t)
    PROVE  OwnRuns'
<1>0. PICK n : n = call[c].op.last
  OBVIOUS
<1>1. PICK from \in Logging :
         /\ LogStep(c, t, from, "lock") /\ UNCHANGED history
         /\ dropped' = dropped \cup {n}
  BY <1>0 DEF DropRecord
<1>2. call[c].stage \in Logging /\ call[c].op.tasks = {t}
  BY <1>1 DEF LogStep, At
<1>3. \A u : Readable(u)' = Readable(u)
  BY <1>1 DEF Readable
<1>4. /\ n \in Runs /\ Logs(c, t, n) /\ n \in ToSet(ended[t])
      /\ \A m \in ToSet(Readable(t)) : m < n
  BY <1>0, <1>2, Writer DEF Logs, OwnRuns
<1>5. \A u \in Tasks : n \notin ToSet(Readable(u))
  <2>1. n \notin ToSet(Readable(t))
    BY <1>4, MaxRunsAssumption DEF Runs
  <2>. QED
    BY <1>4, <2>1 DEF OwnRuns
<1>6. \A u \in Tasks : ToSet(Readable(u)') \subseteq ToSet(ended[u]) \ dropped'
  BY <1>1, <1>3, <1>5 DEF OwnRuns
<1>7. \A u \in Tasks, m \in Runs : Covered(u, m) => Covered(u, m)'
  BY <1>1, <1>3, CoveredKept
<1>8. Covered(t, n)'
  BY <1>1 DEF Covered
<1>. QED
  BY <1>0, <1>1, <1>6, <1>7, <1>8, LoggedOwn

LEMMA CrashOwn ==
    ASSUME Inv, HistoryInv, OwnRuns, Crash
    PROVE  OwnRuns'
<1>1. /\ \A c \in Callers : call'[c].stage = "idle"
      /\ dropped' = dropped \cup
            {call[c].op.last : c \in {d \in Callers : call[d].stage \in Logging}}
      /\ UNCHANGED <<history, ended>>
  BY DEF Crash, Store!Idle
<1>2. ASSUME NEW c \in Callers, call[c].stage \in Logging
      PROVE  /\ call[c].op.last \in AllRuns
             /\ \A u \in Tasks : call[c].op.last \notin ToSet(Readable(u))
  <2>1. PICK t \in Tasks, n \in Runs : n = call[c].op.last /\ Logs(c, t, n)
    BY <1>2, LoggingRun
  <2>2. n \in ToSet(ended[t]) /\ \A m \in ToSet(Readable(t)) : m < n
    BY <1>2, <2>1, Writer DEF Logs, OwnRuns
  <2>3. n \notin ToSet(Readable(t))
    BY <2>2, MaxRunsAssumption DEF Runs
  <2>. QED
    BY <2>1, <2>2, <2>3, EndedRuns DEF OwnRuns, HistoryInv
<1>3. \A u : Readable(u)' = Readable(u)
  BY <1>1 DEF Readable
<1>4. \A u, m : Covered(u, m) => Covered(u, m)'
  BY <1>1, <1>3, CoveredKept
<1>5. \A c, t, n : c \in Callers => ~Logs(c, t, n)'
  BY <1>1, DraftingStages DEF Logs
<1>6. \A u \in Tasks : ToSet(Readable(u)') \subseteq ToSet(ended[u])' \ dropped'
  BY <1>1, <1>2, <1>3 DEF OwnRuns
<1>7. \A u \in Tasks : \A m \in ToSet(ended[u]) : Covered(u, m)'
  <2>. SUFFICES ASSUME NEW u \in Tasks, NEW m \in ToSet(ended[u]), ~Covered(u, m)
                PROVE  m \in dropped'
    BY <1>4 DEF Covered
  <2>1. PICK c \in Callers : Logs(c, u, m)
    BY DEF OwnRuns
  <2>. QED
    BY <1>1, <2>1 DEF Logs
<1>8. dropped' \subseteq AllRuns'
  <2>1. AllRuns' = AllRuns
    BY <1>1 DEF AllRuns
  <2>. QED
    BY <1>1, <1>2, <2>1 DEF OwnRuns
<1>9. \A u, v \in Tasks : u # v => ToSet(ended[u])' \cap ToSet(ended[v])' = {}
  BY <1>1 DEF OwnRuns
<1>10. \A u \in Tasks : \A m \in ToSet(ended[u])' : Covered(u, m)'
  BY <1>1, <1>7
<1>. QED
  BY <1>5, <1>6, <1>8, <1>9, <1>10 DEF OwnRuns

LEMMA InitOwn == Init => OwnRuns
<1>. SUFFICES ASSUME Init PROVE OwnRuns
  OBVIOUS
<1>1. \A t \in Tasks : Readable(t) = <<>> /\ ended[t] = <<>>
  BY DEF Init, Readable
<1>2. \A t \in Tasks : ToSet(Readable(t)) = {} /\ ToSet(ended[t]) = {}
  BY <1>1 DEF ToSet
<1>3. \A c \in Callers : \A t, n : ~Logs(c, t, n)
  BY DraftingStages DEF Init, Logs, Store!Idle
<1>4. dropped = {}
  BY DEF Init
<1>. QED
  BY <1>2, <1>3, <1>4 DEF OwnRuns

LEMMA NextOwn ==
    ASSUME Inv, HistoryInv, OwnRuns, [Next]_vars
    PROVE  OwnRuns'
<1>1. ASSUME NEW c \in Callers, NEW t \in Tasks, EndRun(c, t) PROVE OwnRuns'
  BY <1>1, EndRunOwn
<1>2. ASSUME NEW c \in Callers, NEW t \in Tasks, Log(c, t) PROVE OwnRuns'
  BY <1>2, DraftOwn, RenameDraftOwn, DropRecordOwn DEF Log
<1>3. ASSUME NEW c \in Callers,
             \/ \E op \in Requests : Begin(c, op)
             \/ \E t \in Tasks : StartRun(c, t) \/ Reset(c, t)
             \/ Lock(c) \/ Read(c) \/ Open(c) \/ Fill(c) \/ Rename(c) \/ Unlock(c)
      PROVE  OwnRuns'
  <2>1. UNCHANGED <<history, ended, dropped>>
    BY <1>3 DEF Begin, StartRun, Reset, Lock, Read, Open, Fill, Rename, Unlock, logVars
  <2>2. /\ call[c].stage \notin Logging
        /\ \A d \in Callers \ {c} : call'[d] = call[d]
    BY <1>3, StageSets, DraftingStages
    DEF Begin, StartRun, Reset, Lock, Read, Open, Fill, Rename, Unlock, GiveUp, Goto, At, Inv, TypeOK
  <2>3. call'[c].stage \notin Logging
    <3>1. CASE \E op \in Requests : Begin(c, op)
      <4>1. PICK op \in Requests : call' = [call EXCEPT ![c] = Calling(op, "lock")]
        BY <3>1 DEF Begin
      <4>2. call'[c] = Calling(op, "lock")
        BY <4>1 DEF Inv, TypeOK
      <4>3. call'[c].stage = "lock"
        BY <4>2 DEF Calling
      <4>. QED
        BY <4>3, StageSets
    <3>4. CASE \E t \in Tasks : StartRun(c, t) \/ Reset(c, t)
      <4>1. PICK op : call' = [call EXCEPT ![c] = Calling(op, "lock")]
        BY <3>4 DEF StartRun, Reset
      <4>2. call'[c] = Calling(op, "lock")
        BY <4>1 DEF Inv, TypeOK
      <4>3. call'[c].stage = "lock"
        BY <4>2 DEF Calling
      <4>. QED
        BY <4>3, StageSets
    <3>2. CASE Unlock(c)
      BY <3>2, DraftingStages DEF Unlock, Store!Idle, Inv, TypeOK
    <3>3. CASE Lock(c) \/ Read(c) \/ Open(c) \/ Fill(c) \/ Rename(c)
      <4>1. call[c].stage \in {"lock", "read", "open", "fill", "rename"}
        BY <3>3 DEF Lock, Read, Open, Fill, Rename, At
      <4>2. call[c] \in Active
        BY <4>1, ActiveCall DEF Inv
      <4>3. call'[c].stage \in {"read", "open", "fill", "rename", "unlock"}
        BY <3>3, <4>2 DEF Lock, Read, Open, Fill, Rename, GiveUp, Goto, Active, Inv, TypeOK
      <4>. QED
        BY <4>3, StageSets
    <3>. QED
      BY <1>3, <3>1, <3>2, <3>3, <3>4
  <2>4. \A d \in Callers, u \in Tasks, n \in Runs : Logs(d, u, n)' <=> Logs(d, u, n)
    BY <2>2, <2>3 DEF Logs
  <2>. QED
    BY <2>1, <2>4, OwnRunsKept DEF HistoryInv
<1>4. CASE UNCHANGED vars
  <2>1. UNCHANGED <<history, ended, dropped, call>>
    BY <1>4 DEF vars, logVars
  <2>2. \A d \in Callers, u \in Tasks, n \in Runs : Logs(d, u, n)' <=> Logs(d, u, n)
    BY <2>1 DEF Logs
  <2>. QED
    BY <2>1, <2>2, OwnRunsKept DEF HistoryInv
<1>. QED
  BY <1>1, <1>2, <1>3, <1>4, CrashOwn DEF Next, Step

LEMMA OwnRunsAreRecent ==
    ASSUME Inv, HistoryInv, OwnRuns
    PROVE  HistoryIsRecent
<1>. SUFFICES ASSUME NEW t \in Tasks,
                     \A c \in Callers : call[c].stage \in Logging => t \notin call[c].op.tasks
              PROVE  LET h        == Readable(t)
                         recorded == ToSet(ended[t]) \ dropped
                     IN /\ \A i, j \in DOMAIN h : i < j => h[i] > h[j]
                        /\ Len(h) <= Cap /\ ToSet(h) \subseteq recorded
                        /\ \A n \in recorded \ ToSet(h) :
                              Len(h) = Cap /\ \A m \in ToSet(h) : m > n
  BY DEF HistoryIsRecent
<1>1. Len(Readable(t)) <= Cap /\ Descending(Readable(t))
  BY DEF HistoryInv, Histories
<1>2. ToSet(Readable(t)) \subseteq ToSet(ended[t]) \ dropped
  BY DEF OwnRuns
<1>3. ASSUME NEW n \in ToSet(ended[t]) \ dropped, n \notin ToSet(Readable(t))
      PROVE  Len(Readable(t)) = Cap /\ \A m \in ToSet(Readable(t)) : m > n
  <2>1. \A c \in Callers : ~Logs(c, t, n)
    BY DEF Logs
  <2>2. n \notin {0, Running, Lost, Sent} /\ Covered(t, n)
    BY <2>1, EndedRuns DEF OwnRuns, HistoryInv
  <2>. QED
    BY <1>3, <2>2 DEF Covered
<1>. QED
  BY <1>1, <1>2, <1>3 DEF Descending

\* logstore.go: between its runs a task's history is the newest of the records of its
\* runs, in their order, whatever failed or crashed while they were written, for any
\* number of tasks whose runs end at the same time.
THEOREM HistoriesAreRecent ==
    ASSUME "readHistory" \notin Faults
    PROVE  Spec => []HistoryIsRecent
<1>1. Init => Inv /\ HistoryInv /\ OwnRuns
  BY InitInv, InitHistory, InitOwn
<1>2. Inv /\ HistoryInv /\ OwnRuns /\ [Next]_vars => Inv' /\ HistoryInv' /\ OwnRuns'
  BY NextInv, NextHistory, NextOwn
<1>3. Inv /\ HistoryInv /\ OwnRuns => HistoryIsRecent
  BY OwnRunsAreRecent
<1>. QED
  BY <1>1, <1>2, <1>3, PTL DEF Spec

=============================================================================
