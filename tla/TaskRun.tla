------------------------------- MODULE TaskRun -------------------------------
(***************************************************************************)
(* The runs of one task, in full: executeTask, runPtyTask and failRun of   *)
(* scheduler.go against relay, which holds the chat sessions and terminals *)
(* the runs create (client.go), the history file (logstore.go), and the    *)
(* events that clients see.  Scheduler models the same runs as the three   *)
(* steps "mark", "body" and "final"; here a step is one call.              *)
(*                                                                         *)
(* Runs of a task never overlap (Scheduler, NoOverlap), so one place in    *)
(* the code stands for all of them.  Between any two calls clients edit or *)
(* delete the task and the process may die, and any access to a file may   *)
(* fail: the code logs that and goes on.                                   *)
(***************************************************************************)
EXTENDS Naturals, Sequences, FiniteSets

CONSTANTS
    Ids,            \* ids relay may give to sessions and terminals
    Projects,
    NoId,           \* no session and no terminal
    Edits,          \* what clients may do to the task: "type", "project", "delete"
    Bodies,         \* the run state that the bodies of clients' requests carry
    Faults,         \* "crash", "io", "lostReply", "cleanupFails", "evict"
    MaxRuns,        \* bound: runs started
    MaxMishaps      \* bound: kinds of mishap that one state shows the traces of

ASSUME EditsAssumption == Edits \subseteq {"type", "project", "delete"}
ASSUME FaultsAssumption ==
    Faults \subseteq {"crash", "io", "lostReply", "cleanupFails", "evict"}
ASSUME NoIdAssumption == NoId \notin Ids
ASSUME RunsAssumption == {MaxRuns, MaxMishaps} \subseteq Nat

Types    == {"headless", "pty"}
Outcomes == {"success", "error", "timeout"}

\* lastStatus, lastSessionId and lastTerminalId, empty as "none" and NoId.
RunState == [status : Outcomes \cup {"none", "running"},
             lastSession : Ids \cup {NoId}, lastTerminal : Ids \cup {NoId}]

ASSUME BodiesAssumption == Bodies \subseteq RunState

VARIABLES
    stored,     \* the task in the file: type, project, status, its two last ids
    exists,     \* whether it is in the file
    sessions,   \* relay: chat sessions that exist
    terminals,  \* relay: terminals that exist
    working,    \* relay: those with a reply being generated or a process running
    spent,      \* relay: ids given out so far
    history,    \* the history file of each project and this task, newest first
    pc,         \* the next call of the current run; "idle" between runs and
                \* "down" while the scheduler is
    run,        \* executeTask's locals: the snapshot, exec.Status, the run's own id
    events,     \* observation: lifecycle events of the current or last run
    started,    \* observation: runs started so far, which numbers them
    mishaps,    \* observation: the faults that have occurred ("io" where an id
                \* was at stake), "type" once the type has been edited, and
                \* "runState" once a client has sent an id of its own
    amiss       \* observation: which of "status", "id" and "record" on file is not
                \* the last run's, for an access failed or a client sent its own

vars == <<stored, exists, sessions, terminals, working, spent, history, pc, run,
          events, started, mishaps, amiss>>

Stored == [type : Types, project : Projects, status : Outcomes \cup {"none", "running"},
           lastSession : Ids \cup {NoId}, lastTerminal : Ids \cup {NoId}]

Last(task) == IF task.type = "pty" THEN task.lastTerminal ELSE task.lastSession

\* The bound leaves room for one more mishap.
Room == Cardinality(mishaps \cup amiss) < MaxMishaps

-----------------------------------------------------------------------------
(* Clients.                                                                *)

\* What of the run state a body sets.
Sent(body) ==
    (IF body.status # "none" THEN {"status"} ELSE {})
        \cup (IF {body.lastSession, body.lastTerminal} # {NoId} THEN {"id"} ELSE {})

\* TaskStore.Update keeps the run state where the body leaves it empty.
Update(type, project, body) ==
    /\ exists /\ pc # "down"
    /\ type # stored.type => "type" \in Edits
    /\ project # stored.project => "project" \in Edits
    /\ (type = stored.type /\ Sent(body) = {}) \/ Room
    /\ stored' =
         [type |-> type, project |-> project,
          status       |-> IF body.status # "none" THEN body.status ELSE stored.status,
          lastSession  |-> IF body.lastSession # NoId THEN body.lastSession
                                                      ELSE stored.lastSession,
          lastTerminal |-> IF body.lastTerminal # NoId THEN body.lastTerminal
                                                       ELSE stored.lastTerminal]
    /\ amiss' = amiss \cup Sent(body)
    /\ mishaps' = mishaps \cup (IF type # stored.type THEN {"type"} ELSE {})
                          \cup (IF "id" \in Sent(body) THEN {"runState"} ELSE {})
    /\ UNCHANGED <<exists, sessions, terminals, working, spent, history, pc, run,
                   events, started>>

Delete ==
    /\ "delete" \in Edits
    /\ exists /\ pc # "down"
    /\ exists' = FALSE
    /\ UNCHANGED <<stored, sessions, terminals, working, spent, history, pc, run,
                   events, started, mishaps, amiss>>

-----------------------------------------------------------------------------
(* Relay.                                                                  *)

\* Relay never gives an id twice; which one it gives does not matter.
NewId == CHOOSE id \in Ids : id \notin spent

\* fireAndForget swallows every error, so a cleanup call may do nothing.
Mishap(works) == IF works THEN mishaps ELSE mishaps \cup {"cleanupFails"}
CleanupWorks  == IF "cleanupFails" \in Faults /\ Room THEN BOOLEAN ELSE {TRUE}

\* A file access may fail; what it was to write is then amiss.
FileWorks == IF "io" \in Faults /\ Room THEN BOOLEAN ELSE {TRUE}
Amiss(what, works) == IF works THEN amiss \ {what} ELSE amiss \cup {what}

\* A reply is complete or a process exits, seen by the run or not.
Settles(id) ==
    /\ id \in working
    /\ working' = working \ {id}
    /\ UNCHANGED <<stored, exists, sessions, terminals, spent, history, pc, run,
                   events, started, mishaps, amiss>>

\* Relay restarts, or collects a terminal that has been idle for long.
Evict(id) ==
    /\ "evict" \in Faults /\ Room
    /\ id \in sessions \cup terminals
    /\ sessions' = sessions \ {id}
    /\ terminals' = terminals \ {id}
    /\ working' = working \ {id}
    /\ mishaps' = mishaps \cup {"evict"}
    /\ UNCHANGED <<stored, exists, spent, history, pc, run, events, started, amiss>>

-----------------------------------------------------------------------------
(* The run.                                                                *)

Step(from, to) == pc = from /\ pc' = to

\* The event's view: with no id of its own it falls back to the snapshot's last.
Event(type, id) ==
    [type |-> type, runId |-> IF id # NoId THEN id ELSE Last(run.task)]

Start ==
    /\ exists
    /\ started < MaxRuns
    /\ started' = started + 1
    /\ Step("idle", "clean")
    /\ run' = [task |-> stored, status |-> "running", id |-> NoId]
    /\ events' = <<>>
    /\ UNCHANGED <<stored, exists, sessions, terminals, working, spent, history, mishaps, amiss>>

\* Bug: only chat sessions are removed.
BugRemoveSessionsOnly ==
    /\ Step("clean", "mark")
    /\ sessions' = sessions \ {stored.lastSession}
    /\ working' = working \ {stored.lastSession}
    /\ UNCHANGED <<stored, exists, terminals, spent, history, run, events, started, mishaps, amiss>>

\* DELETE of the previous run's session or terminal, by the type and the id that
\* are stored, if they can be read.
RemovePrevious ==
    /\ Step("clean", "mark")
    /\ \E read \in FileWorks, works \in CleanupWorks :
         LET gone == IF exists /\ read /\ works THEN {Last(stored)} ELSE {}
             pty  == stored.type = "pty"
         IN /\ sessions'  = IF pty THEN sessions ELSE sessions \ gone
            /\ terminals' = IF pty THEN terminals \ gone ELSE terminals
            /\ working'   = working \ gone
            /\ mishaps'   = Mishap(works) \cup (IF read THEN {} ELSE {"io"})
    /\ UNCHANGED <<stored, exists, spent, history, run, events, started, amiss>>

\* SetLastRun, by updateTask: nothing happens to a task that is gone, and a
\* failed access leaves what there was.
SetStatus(status) ==
    IF ~exists THEN UNCHANGED <<stored, amiss>>
    ELSE \E works \in FileWorks :
           /\ stored' = IF works THEN [stored EXCEPT !.status = status] ELSE stored
           /\ amiss' = Amiss("status", works)

MarkRunning ==
    /\ Step("mark", "create")
    /\ SetStatus("running")
    /\ UNCHANGED <<exists, sessions, terminals, working, spent, history, run,
                   events, started, mishaps>>

\* Bug: a run that cannot start leaves no history.
BugFailUnlogged ==
    /\ Step("create", "record")
    /\ run' = [run EXCEPT !.status = "error"]
    /\ UNCHANGED <<stored, exists, sessions, terminals, working, spent, history,
                   events, started, mishaps, amiss>>

\* failRun: the run has failed before it had an id.
Fail == Step("create", "log") /\ run' = [run EXCEPT !.status = "error"]

\* No model or template, an unknown project, or a create that relay refuses.
FailToCreate ==
    /\ Fail
    /\ UNCHANGED <<stored, exists, sessions, terminals, working, spent, history,
                   events, started, mishaps, amiss>>

\* CreateSessionWithTools or CreateTerminal.  When only the reply is lost, relay
\* has made one and the run knows nothing of it.
Create ==
    /\ Ids \ spent # {}
    /\ LET id == NewId IN
       /\ spent' = spent \cup {id}
       /\ working' = working \cup {id}
       /\ IF run.task.type = "pty"
          THEN terminals' = terminals \cup {id} /\ UNCHANGED sessions
          ELSE sessions' = sessions \cup {id} /\ UNCHANGED terminals
       /\ \/ Step("create", "save") /\ run' = [run EXCEPT !.id = id] /\ UNCHANGED mishaps
          \/ /\ "lostReply" \in Faults /\ Room
             /\ Fail
             /\ mishaps' = mishaps \cup {"lostReply"}
    /\ UNCHANGED <<stored, exists, history, events, started, amiss>>

\* SetLastSessionID or SetLastTerminalID.
SaveId ==
    /\ Step("save", "started")
    /\ IF ~exists THEN UNCHANGED <<stored, mishaps, amiss>>
       ELSE \E works \in FileWorks :
              /\ stored' = CASE ~works -> stored
                             [] works /\ run.task.type = "pty" ->
                                  [stored EXCEPT !.lastTerminal = run.id]
                             [] works /\ run.task.type # "pty" ->
                                  [stored EXCEPT !.lastSession = run.id]
              /\ mishaps' = mishaps \cup (IF works THEN {} ELSE {"io"})
              /\ amiss' = Amiss("id", works)
    /\ UNCHANGED <<exists, sessions, terminals, working, spent, history, run,
                   events, started>>

AnnounceStart ==
    /\ Step("started", "wait")
    /\ events' = Append(events, Event("task_started", run.id))
    /\ UNCHANGED <<stored, exists, sessions, terminals, working, spent, history,
                   run, started, mishaps, amiss>>

Finished == run.id \notin working

\* What RunChatAndWait returns: the reply once it is complete; an error, or the
\* end of the connection, at any time; a timeout.
ChatOutcomes == {"error", "timeout"} \cup (IF Finished THEN {"success"} ELSE {})

\* What runPtyTask makes of AttachTerminalAndWait.  The process has ended when its
\* exit code comes; an output file that is not there makes a success an error.
TerminalStatus(exit, outputThere) ==
    CASE exit = "timeout" -> "timeout"
      [] exit = "zero" /\ outputThere -> "success"
      [] OTHER -> "error"

TerminalOutcomes ==
    {TerminalStatus(exit, outputThere) :
        exit \in {"timeout", "lost"} \cup (IF Finished THEN {"zero", "nonzero"} ELSE {}),
        outputThere \in BOOLEAN}

\* Bug: a timeout is an error like any other.
BugNoReap ==
    /\ Step("wait", "log")
    /\ \E status \in Outcomes :
         /\ status = "success" => run.id \notin working
         /\ run' = [run EXCEPT !.status = status]
    /\ UNCHANGED <<stored, exists, sessions, terminals, working, spent, history,
                   events, started, mishaps, amiss>>

WaitEnds ==
    /\ pc = "wait"
    /\ \E status \in IF run.task.type = "pty"
                     THEN TerminalOutcomes ELSE ChatOutcomes :
         /\ run' = [run EXCEPT !.status = status]
         /\ pc' = IF status = "timeout" THEN "reap" ELSE "log"
    /\ UNCHANGED <<stored, exists, sessions, terminals, working, spent, history,
                   events, started, mishaps, amiss>>

\* Bug: a chat that timed out is deleted and not just stopped.
BugReapDeletes ==
    /\ Step("reap", "log")
    /\ working' = working \ {run.id}
    /\ terminals' = terminals \ {run.id}
    /\ sessions' = sessions \ {run.id}
    /\ UNCHANGED <<stored, exists, spent, history, run, events, started, mishaps, amiss>>

\* After a timeout: StopGeneration, which keeps the session, or CloseTerminal.
Reap ==
    /\ Step("reap", "log")
    /\ \E works \in CleanupWorks :
         /\ working' = IF works THEN working \ {run.id} ELSE working
         /\ terminals' = IF works THEN terminals \ {run.id} ELSE terminals
         /\ mishaps' = Mishap(works)
    /\ UNCHANGED <<stored, exists, sessions, spent, history, run, events, started, amiss>>

\* LogStore.Log, under the project of the snapshot.  A history that cannot be read
\* counts as empty, one that cannot be written stays as it is.
Log ==
    /\ Step("log", "record")
    /\ \E read \in FileWorks, works \in FileWorks :
         /\ history' =
              IF works
              THEN [history EXCEPT ![run.task.project] =
                      <<[run |-> started, id |-> run.id, status |-> run.status]>>
                          \o (IF read THEN @ ELSE <<>>)]
              ELSE history
         /\ amiss' = Amiss("record", works)
    /\ UNCHANGED <<stored, exists, sessions, terminals, working, spent, run,
                   events, started, mishaps>>

RecordOutcome ==
    /\ Step("record", "finish")
    /\ SetStatus(run.status)
    /\ UNCHANGED <<exists, sessions, terminals, working, spent, history, run,
                   events, started, mishaps>>

\* The last broadcast; what follows is rescheduleOrDisable, see Scheduler.
AnnounceEnd ==
    /\ Step("finish", "idle")
    /\ events' = Append(events, Event(IF run.status = "success" THEN "task_completed"
                                                               ELSE "task_error",
                                      run.id))
    /\ UNCHANGED <<stored, exists, sessions, terminals, working, spent, history,
                   run, started, mishaps, amiss>>

\* The scheduler dies in a run, whose locals are lost; relay and the files live on.
Crash ==
    /\ "crash" \in Faults /\ Room
    /\ pc \notin {"down", "idle"}
    /\ pc' = "down"
    /\ run' = [run EXCEPT !.status = "died"]
    /\ mishaps' = mishaps \cup {"crash"}
    /\ UNCHANGED <<stored, exists, sessions, terminals, working, spent, history,
                   events, started, amiss>>

\* Bug: the status of a run that died is left as it is.
BugLoadAsIs ==
    /\ Step("down", "idle")
    /\ UNCHANGED <<stored, exists, sessions, terminals, working, spent, history, run,
                   events, started, mishaps, amiss>>

\* LoadAllTasks corrects the status of a run that died.
LoadTask ==
    /\ Step("down", "idle")
    /\ IF stored.status = "running" THEN SetStatus("error")
       ELSE stored' = stored /\ amiss' = amiss \ {"status"}
    /\ UNCHANGED <<exists, sessions, terminals, working, spent, history, run,
                   events, started, mishaps>>

-----------------------------------------------------------------------------
Init ==
    /\ \E type \in Types, project \in Projects, body \in Bodies :
         /\ stored = [type |-> type, project |-> project, status |-> body.status,
                      lastSession |-> body.lastSession,
                      lastTerminal |-> body.lastTerminal]
         /\ amiss = Sent(body)
         /\ mishaps = IF "id" \in Sent(body) THEN {"runState"} ELSE {}
    /\ exists = TRUE
    /\ sessions = {} /\ terminals = {} /\ working = {} /\ spent = {}
    /\ history = [p \in Projects |-> <<>>]
    /\ pc = "down"
    /\ run = [task |-> stored, status |-> "died", id |-> NoId]
    /\ events = <<>>
    /\ started = 0

Next ==
    \/ \E type \in Types, project \in Projects, body \in Bodies :
         Update(type, project, body)
    \/ Delete
    \/ \E id \in Ids : Settles(id) \/ Evict(id)
    \/ Start \/ RemovePrevious \/ MarkRunning \/ FailToCreate \/ Create \/ SaveId
    \/ AnnounceStart \/ WaitEnds \/ Reap \/ Log \/ RecordOutcome \/ AnnounceEnd
    \/ Crash \/ LoadTask

Spec == Init /\ [][Next]_vars

-----------------------------------------------------------------------------
(* Properties.                                                             *)

Records == [run : 0..MaxRuns, id : Ids \cup {NoId}, status : Outcomes]
Executions == [task : Stored, status : Outcomes \cup {"running", "died"}, id : Ids \cup {NoId}]
Events == [type : {"task_started", "task_completed", "task_error"}, runId : Ids \cup {NoId}]

TypeOK ==
    /\ stored \in Stored
    /\ exists \in BOOLEAN
    /\ sessions \subseteq spent /\ terminals \subseteq spent /\ spent \subseteq Ids
    /\ working \subseteq sessions \cup terminals
    /\ history \in [Projects -> Seq(Records)]
    /\ pc \in {"down", "idle", "clean", "mark", "create", "save", "started", "wait",
               "reap", "log", "record", "finish"}
    /\ run \in Executions
    /\ events \in Seq(Events)
    /\ started \in 0..MaxRuns
    /\ mishaps \subseteq Edits \cup Faults \cup {"runState"}
    /\ amiss \subseteq {"status", "id", "record"}

\* README "One live run per task. Starting a run deletes the previous run's chat
\* session or closes its terminal": relay never holds two of the task's, as long as
\* the task is there to say what the previous one was, and no failure and no client
\* has come between an id and its place in the file.
OneLiveRun ==
    exists /\ mishaps \subseteq {"evict"} => Cardinality(sessions \cup terminals) <= 1

\* The run that ended last, if it did not die.
Ended == pc = "idle" /\ run.status \in Outcomes

Recorded(p) == {history[p][i] : i \in DOMAIN history[p]}

\* The outcome that the last event tells.
Told(status) ==
    events[Len(events)].type = IF status = "success" THEN "task_completed" ELSE "task_error"

\* The accounts of one run agree, each with every other: the run leaves exactly one
\* history record, whose outcome is the task's status and the last event's, and
\* clients were told of a start exactly when the record names a session or terminal.
\* An account whose file access failed (the record is lost, the status stays) or that
\* a client has overwritten since is left out, but the others still agree.
AccountsAgree ==
    Ended =>
        LET mine(p) == {rec \in Recorded(p) : rec.run = started}
            status  == exists /\ "status" \notin amiss
        IN
        /\ "record" \notin amiss => \E p \in Projects : Cardinality(mine(p)) = 1
        /\ "record" \in amiss => \A p \in Projects : mine(p) = {}
        /\ status => Told(stored.status)
        /\ \A p \in Projects : \A rec \in mine(p) :
             /\ Told(rec.status)
             /\ status => stored.status = rec.status
             /\ (events[1].type = "task_started") <=> (rec.id # NoId)

\* README "so the last run stays open in eve until the next one starts": the id in
\* the file is the run's own, and relay still has what it names, unless the run
\* was a terminal that timed out.  Crashes, lost replies, failed clean-up, and ids that
\* failed to be saved in earlier runs make no difference; an id of this run that was
\* not saved, or that a client has overwritten, does.
LastRunStaysOpen ==
    /\ Ended /\ exists /\ run.id # NoId
    /\ mishaps \cap {"type", "evict"} = {} /\ "id" \notin amiss
    => /\ Last(stored) = run.id
       /\ (run.status = "timeout" /\ stored.type = "pty")
            \/ run.id \in sessions \cup terminals

\* README "Timeouts. A chat run past maxDurationSeconds is stopped ... A terminal
\* run past it is killed": once that is on record, nothing works on it.
TimeoutStopsWork ==
    run.status = "timeout" /\ pc # "reap" /\ "cleanupFails" \notin mishaps =>
        run.id \notin working

\* To a client that polls the task, these runs look like any of RunStatus.
StatusOf == [t \in {u \in {"task"} : exists} |-> stored.status]
Status == INSTANCE RunStatus WITH
    Tasks <- {"task"}, status <- StatusOf, known <- {"task"},
    unsure <- {u \in {"task"} : exists /\ "status" \in amiss}, up <- (pc # "down")
ImplementsRunStatus == Status!Spec

=============================================================================
