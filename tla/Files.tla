-------------------------------- MODULE Files --------------------------------
(***************************************************************************)
(* The two kinds of file the scheduler keeps (store.go, logstore.go):      *)
(* tasks.json, which every handler and run reads and rewrites under        *)
(* TaskStore.mu, and the history of each task, which the one run that the  *)
(* task may have rewrites without a lock.  Both are written to a temporary *)
(* file that is renamed over the old one.  A step is one system call.      *)
(*                                                                         *)
(* A run begins with SetLastRun "running" and ends with LogStore.Log and   *)
(* then SetLastRun (scheduler.go), so a call of kind "finish" goes through *)
(* both files; what lies between is in Scheduler and TaskRun.  A process   *)
(* that starts resets the tasks the last one left running.                 *)
(***************************************************************************)
EXTENDS Naturals, FiniteSets, Sequences, SequencesExt

CONSTANTS
    Callers, Tasks, Defs, MaxRuns, Running, Lost, Sent, NoTask, Nothing,
    Missing,        \* a file that does not exist
    Torn,           \* a file that was cut off while it was being written
    Cap,            \* maxLogEntries
    Requests,       \* the operations that clients ask for
    Faults          \* "io", a system call fails; "crash"; "readHistory", a history
                    \* file that is there cannot be read

Runs == 0..MaxRuns

ASSUME FaultsAssumption == Faults \subseteq {"io", "crash", "readHistory"}
ASSUME CapAssumption == Cap \in Nat \ {0}
ASSUME MaxRunsAssumption == MaxRuns \in Nat

VARIABLES
    file,       \* tasks.json
    tmp,        \* tasks.json.tmp
    holder,     \* who holds TaskStore.mu: a caller, or Nothing
    stale,      \* what LoadAllTasks has still to reset at start-up
    call,       \* per caller: where it is, its operation, what it has read and
                \* what it returns
    history,    \* the history file of each task, newest first
    draft,      \* per task: its history's temporary file
    entries,    \* per task: the history that Log is about to write
    ended,      \* observation: the runs of each task, newest first
    dropped     \* observation: runs without a record, for a failure or a crash

taskVars == <<file, tmp, holder, stale>>
logVars  == <<history, draft, entries, ended, dropped>>
vars     == <<taskVars, call, logVars>>

-----------------------------------------------------------------------------
(* What the store promises, and the view of a file it is kept in.          *)

Parsed(f) == IF f = Missing THEN [t \in Tasks |-> NoTask] ELSE f

Logging == {"load log", "open draft", "fill draft", "rename draft"}
Waiting == Logging \cup {"lock"}
Writing == {"open", "fill", "rename"}
Locked  == Writing \cup {"read", "unlock"}

\* What an observer of the store can tell of a call.
Outward(x) ==
    CASE x.stage \in Waiting \cup Writing \cup {"read"} ->
           [stage |-> "called", op |-> x.op, status |-> x.status, seen |-> Nothing]
      [] x.stage = "unlock" -> [x EXCEPT !.stage = "done"]
      [] x.stage = "idle"   -> x

Store == INSTANCE AtomicStore WITH
            value <- Parsed(file), call <- [c \in Callers |-> Outward(call[c])]

ASSUME RequestsAssumption ==
    Requests \subseteq {op \in Store!Op : op.kind \notin {"mark", "finish", "reset"}}
ASSUME AbsentAssumption ==
    /\ Nothing \notin Callers
    /\ Missing \notin Store!Contents /\ Torn \notin Store!Contents \cup {Missing}
    /\ Missing \notin Seq(Runs) /\ Torn \notin Seq(Runs)
    /\ {Running, Lost, Sent} \cap Runs = {}

-----------------------------------------------------------------------------
(* TaskStore.                                                              *)

At(c, stage)   == call[c].stage = stage
Goto(c, stage) == call' = [call EXCEPT ![c].stage = stage]

\* A system call fails: the call returns an error and leaves tmp as it is.
GiveUp(c) ==
    /\ "io" \in Faults
    /\ call' = [call EXCEPT ![c] = [stage |-> "unlock", op |-> @.op,
                                    status |-> "error", seen |-> Nothing]]
    /\ UNCHANGED <<file, tmp>>

Busy(t, kind) == \E c \in Callers : /\ ~At(c, "idle")
                                    /\ call[c].op.kind = kind
                                    /\ t \in call[c].op.tasks

\* generateID never gives an id twice.
Unused(t) == Parsed(file)[t] = NoTask /\ ended[t] = <<>> /\ ~Busy(t, "create")

Calling(op, stage) == [stage |-> stage, op |-> op, status |-> "ok", seen |-> Nothing]

\* main has called LoadAllTasks, and now come the server and the ticker.
Serving == stale = {} /\ \A t \in Tasks : ~Busy(t, "reset")

\* A handler, or the tick, calls the store.
Begin(c, op) ==
    /\ At(c, "idle")
    /\ Serving
    /\ op.kind = "create" => \A t \in op.tasks : Unused(t)
    /\ call' = [call EXCEPT ![c] = Calling(op, "lock")]
    /\ UNCHANGED <<taskVars, logVars>>

\* No run of t is in the store: a task has one at most (Scheduler, NoOverlap).
Quiet(t) == ~Busy(t, "mark") /\ ~Busy(t, "finish")

\* A run of t has begun: SetLastRun "running".
StartRun(c, t) ==
    /\ At(c, "idle")
    /\ Serving
    /\ Parsed(file)[t] # NoTask
    /\ Quiet(t)
    /\ call' = [call EXCEPT ![c] = Calling([kind |-> "mark", tasks |-> {t}], "lock")]
    /\ UNCHANGED <<taskVars, logVars>>

\* LoadAllTasks goes through the tasks that the last process left running, one at a
\* time.
Reset(c, t) ==
    /\ t \in stale
    /\ \A d \in Callers : At(d, "idle")
    /\ stale' = stale \ {t}
    /\ call' = [call EXCEPT ![c] = Calling([kind |-> "reset", tasks |-> {t}], "lock")]
    /\ UNCHANGED <<file, tmp, holder, logVars>>

Lock(c) ==
    /\ At(c, "lock")
    /\ holder = Nothing
    /\ holder' = c
    /\ Goto(c, "read")
    /\ UNCHANGED <<file, tmp, stale, logVars>>

\* readLocked.  A call that has nothing to change returns.
Read(c) ==
    /\ At(c, "read")
    /\ \/ GiveUp(c)
       \/ /\ file # Torn
          /\ LET v  == Parsed(file)
                 op == call[c].op
             IN call' = [call EXCEPT ![c] =
                   [stage  |-> IF Store!Affected(op, v) = {} THEN "unlock" ELSE "open",
                    op     |-> op,
                    status |-> Store!Verdict(op, v),
                    seen   |-> v]]
          /\ UNCHANGED <<file, tmp>>
    /\ UNCHANGED <<holder, stale, logVars>>

\* Bug: tasks.json is written in place.
BugInPlace(c) ==
    /\ At(c, "open")
    /\ file' = Torn /\ Goto(c, "fill") /\ UNCHANGED tmp
    /\ UNCHANGED <<holder, stale, logVars>>

\* writeLocked, as os.WriteFile and os.Rename do it: the old contents of tmp are
\* cut off, the new ones written, and tmp takes the place of tasks.json.
Open(c) ==
    /\ At(c, "open")
    /\ \/ GiveUp(c)
       \/ tmp' = Torn /\ Goto(c, "fill") /\ UNCHANGED file
    /\ UNCHANGED <<holder, stale, logVars>>

Fill(c) ==
    /\ At(c, "fill")
    /\ \/ GiveUp(c)
       \/ /\ tmp' = Store!Applied(call[c].op, call[c].seen)
          /\ Goto(c, "rename")
          /\ UNCHANGED file
    /\ UNCHANGED <<holder, stale, logVars>>

\* Bug: an error of the rename is not reported.
BugRenameUnchecked(c) ==
    /\ At(c, "rename")
    /\ \/ "io" \in Faults /\ UNCHANGED <<file, tmp>>
       \/ file' = tmp /\ tmp' = Missing
    /\ Goto(c, "unlock")
    /\ UNCHANGED <<holder, stale, logVars>>

Rename(c) ==
    /\ At(c, "rename")
    /\ \/ GiveUp(c)
       \/ file' = tmp /\ tmp' = Missing /\ Goto(c, "unlock")
    /\ UNCHANGED <<holder, stale, logVars>>

\* Bug: the lock is not released when the call returns an error.
BugErrorKeepsLock(c) ==
    /\ At(c, "unlock")
    /\ holder' = IF call[c].status = "error" THEN holder ELSE Nothing
    /\ call' = [call EXCEPT ![c] = Store!Idle]
    /\ UNCHANGED <<file, tmp, stale, logVars>>

\* The deferred unlock, as the call returns.
Unlock(c) ==
    /\ At(c, "unlock")
    /\ holder' = Nothing
    /\ call' = [call EXCEPT ![c] = Store!Idle]
    /\ UNCHANGED <<file, tmp, stale, logVars>>

-----------------------------------------------------------------------------
(* LogStore.                                                               *)

\* The last run to have started, of any task.
LastRun == Cardinality(UNION {ToSet(ended[t]) : t \in Tasks})

\* Bug: a run leaves its outcome and no record.
BugUnlogged(c, t) ==
    LET n == LastRun + 1 IN
    /\ At(c, "idle")
    /\ Serving
    /\ n \in Runs
    /\ Parsed(file)[t] # NoTask
    /\ Quiet(t)
    /\ call' = [call EXCEPT ![c] =
                  Calling([kind |-> "finish", tasks |-> {t}, last |-> n], "lock")]
    /\ ended' = [ended EXCEPT ![t] = <<n>> \o @]
    /\ UNCHANGED <<taskVars, history, draft, entries, dropped>>

\* A run of t is over: Log and SetLastRun.
EndRun(c, t) ==
    LET n == LastRun + 1 IN
    /\ At(c, "idle")
    /\ Serving
    /\ n \in Runs
    /\ Parsed(file)[t] # NoTask
    /\ Quiet(t)
    /\ call' = [call EXCEPT ![c] =
                  Calling([kind |-> "finish", tasks |-> {t}, last |-> n], "load log")]
    /\ ended' = [ended EXCEPT ![t] = <<n>> \o @]
    /\ UNCHANGED <<taskVars, history, draft, entries, dropped>>

LogStep(c, t, from, to) ==
    /\ At(c, from)
    /\ call[c].op.tasks = {t}
    /\ Goto(c, to)
    /\ UNCHANGED <<taskVars, ended>>

\* Load: a file that cannot be read is as good as none.
Readable(t) == IF history[t] \in {Missing, Torn} THEN <<>> ELSE history[t]

Newest(s) == SubSeq(s, 1, IF Len(s) > Cap THEN Cap ELSE Len(s))

\* Bug: the cap keeps the oldest records.
BugKeepsOldest(c, t) ==
    /\ LogStep(c, t, "load log", "open draft")
    /\ entries' = [entries EXCEPT ![t] = IF Len(Readable(t)) >= Cap THEN Readable(t)
                                         ELSE <<call[c].op.last>> \o Readable(t)]
    /\ UNCHANGED <<history, draft, dropped>>

LoadLog(c, t) ==
    /\ LogStep(c, t, "load log", "open draft")
    /\ \E old \in {Readable(t)} \cup (IF "readHistory" \in Faults THEN {<<>>} ELSE {}) :
         entries' = [entries EXCEPT ![t] = Newest(<<call[c].op.last>> \o old)]
    /\ UNCHANGED <<history, draft, dropped>>

OpenDraft(c, t) ==
    /\ LogStep(c, t, "open draft", "fill draft")
    /\ draft' = [draft EXCEPT ![t] = Torn]
    /\ UNCHANGED <<history, entries, dropped>>

FillDraft(c, t) ==
    /\ LogStep(c, t, "fill draft", "rename draft")
    /\ draft' = [draft EXCEPT ![t] = entries[t]]
    /\ UNCHANGED <<history, entries, dropped>>

RenameDraft(c, t) ==
    /\ LogStep(c, t, "rename draft", "lock")
    /\ history' = [history EXCEPT ![t] = draft[t]]
    /\ draft' = [draft EXCEPT ![t] = Missing]
    /\ entries' = [entries EXCEPT ![t] = <<>>]
    /\ UNCHANGED dropped

\* Log gives up on any error; the run goes on.
DropRecord(c, t) ==
    /\ "io" \in Faults
    /\ \E from \in Logging : LogStep(c, t, from, "lock")
    /\ dropped' = dropped \cup {call[c].op.last}
    /\ entries' = [entries EXCEPT ![t] = <<>>]
    /\ UNCHANGED <<history, draft>>

-----------------------------------------------------------------------------
(* The process dies: the files are what is left.                           *)

LeftRunning == {t \in Tasks : Parsed(file)[t] # NoTask /\ Parsed(file)[t].last = Running}

\* LoadAllTasks reads the file before anything else runs.  When it cannot, main goes
\* on without.
Crash ==
    /\ "crash" \in Faults
    /\ stale' \in {LeftRunning} \cup (IF "io" \in Faults THEN {{}} ELSE {})
    /\ call' = [c \in Callers |-> Store!Idle]
    /\ holder' = Nothing
    /\ dropped' = dropped \cup
          {call[c].op.last : c \in {d \in Callers : call[d].stage \in Logging}}
    /\ entries' = [t \in Tasks |-> <<>>]
    /\ UNCHANGED <<file, tmp, history, draft, ended>>

-----------------------------------------------------------------------------
Init ==
    /\ file = Missing /\ tmp = Missing
    /\ holder = Nothing
    /\ stale = {}
    /\ call = [c \in Callers |-> Store!Idle]
    /\ history = [t \in Tasks |-> Missing]
    /\ draft = [t \in Tasks |-> Missing]
    /\ entries = [t \in Tasks |-> <<>>]
    /\ ended = [t \in Tasks |-> <<>>]
    /\ dropped = {}

Log(c, t) == LoadLog(c, t) \/ OpenDraft(c, t) \/ FillDraft(c, t) \/ RenameDraft(c, t)
                \/ DropRecord(c, t)

Step(c) == Read(c) \/ Open(c) \/ Fill(c) \/ Rename(c) \/ Unlock(c)
              \/ \E t \in Tasks : Log(c, t)

Next ==
    \/ \E c \in Callers :
          \/ \E op \in Requests : Begin(c, op)
          \/ \E t \in Tasks : StartRun(c, t) \/ EndRun(c, t) \/ Reset(c, t)
          \/ Lock(c)
          \/ Step(c)
    \/ Crash

Spec == Init /\ [][Next]_vars

\* System calls return, and Go's mutex starves nobody.
FairSpec == Spec /\ \A c \in Callers : WF_vars(Step(c)) /\ SF_vars(Lock(c))

-----------------------------------------------------------------------------
(* Properties.                                                             *)

Active == [stage : Waiting \cup Locked, op : Store!Op, status : Store!Statuses,
           seen : Store!Contents \cup {Nothing}]

TypeOK ==
    /\ file \in Store!Contents \cup {Missing}
    /\ tmp \in Store!Contents \cup {Missing, Torn}
    /\ holder \in Callers \cup {Nothing}
    /\ stale \subseteq Tasks
    /\ call \in [Callers -> {Store!Idle} \cup Active]
    /\ dropped \subseteq Runs

\* store.go "a crash mid-write cannot corrupt tasks.json", and what every caller
\* takes for granted: a call reads and replaces one list that nobody changes in
\* between; it reports an error only if it changed nothing, and what it reported
\* done is there after a crash.
ImplementsAtomicStore == Store!Spec

\* LogStore "newest first, capped at maxLogEntries", without a lock: between runs the
\* history of a task has the newest of the records that were not given up, in their
\* order, none lost to a crash half way through a write, none twice.
HistoryIsRecent ==
    \A t \in Tasks :
        LET h        == Readable(t)
            recorded == ToSet(ended[t]) \ dropped
        IN (\A c \in Callers : call[c].stage \in Logging => t \notin call[c].op.tasks)
             => /\ \A i, j \in DOMAIN h : i < j => h[i] > h[j]
                /\ Len(h) <= Cap /\ ToSet(h) \subseteq recorded
                /\ \A n \in recorded \ ToSet(h) :
                      Len(h) = Cap /\ \A m \in ToSet(h) : m > n

\* A run whose outcome a client sees can be looked up: its record is written before
\* its outcome, so unless writing the record failed or newer runs pushed it out, it
\* is in the history, after a crash, too.  The "error" that LoadAllTasks gives a run
\* that died is not such an outcome (README "That run has no history entry"), nor is
\* a status that a client has sent.
OutcomeHasRecord ==
    \A t \in Tasks :
        LET n == Parsed(file)[t].last IN
        Parsed(file)[t] # NoTask /\ n \notin dropped \cup {0, Running, Lost, Sent} =>
            \/ n \in ToSet(Readable(t))
            \/ Len(Readable(t)) = Cap /\ \A m \in ToSet(Readable(t)) : m > n

\* No call is stuck behind another, whichever way that one ended.
CallsReturn == \A c \in Callers : ~At(c, "idle") ~> At(c, "idle")

=============================================================================
