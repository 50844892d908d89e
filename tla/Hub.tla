--------------------------------- MODULE Hub ---------------------------------
(***************************************************************************)
(* What clients of /ws/tasks are told (hub.go, wshandler.go).  A handler   *)
(* registers its connection, reads the task file, writes what it read as   *)
(* task_status and leaves a read pump behind, while runs write the file    *)
(* and broadcast.  Frames are written under Hub.mu, so they reach a client *)
(* in that order; the file has a lock of its own.                          *)
(*                                                                         *)
(* The runs are those of one task, numbered in the order they start.  A    *)
(* client may delete the task, or PUT it with a status of its own, at any  *)
(* time.                                                                   *)
(***************************************************************************)
EXTENDS Naturals, Sequences

CONSTANTS
    Conns,          \* connections, each used once
    MaxRuns,        \* bound: runs started
    MaxMishaps      \* bound: deletions, PUTs of a status and failed writes of one

ASSUME RunsAssumption == {MaxRuns, MaxMishaps} \subseteq Nat

Runs == 1..MaxRuns

VARIABLES
    file,       \* the task's last status: of which run, and whether "running"
    gone,       \* whether the task has been deleted from the file
    mishaps,    \* how many there were
    amiss,      \* observation: the file is not as the run that wrote last meant it
    claimed,    \* whether the task is in Scheduler.running
    stage,      \* what each run does next
    clients,    \* Hub.clients
    handler,    \* where the handler of each connection is
    read,       \* what SendStatus read: the run that was running, or 0
    link,       \* "up"; "mute", when a write has failed, which fails those after
                \* it; "closed", by either side, which ends the read pump
    frames,     \* the frames written to each connection
    unsure      \* observation: the runs that a status may be wrong about, as the
                \* file was amiss when it was read

fileVars == <<file, gone, mishaps, amiss>>
runVars  == <<fileVars, claimed, stage>>
connVars == <<clients, handler, read, link, frames, unsure>>
vars     == <<runVars, connVars>>

Frame(type, n) == [type |-> type, run |-> n]
Frames == [type : {"status"}, run : 0..MaxRuns] \cup [type : {"started", "ended"}, run : Runs]

-----------------------------------------------------------------------------
(* Hub.                                                                    *)

\* Any write may fail: the client is gone or has been slow for writeWait.
CanWrite(c) == link[c] # "mute"

\* Bug: a client whose write fails stays in the hub.
BugKeepsClient(frame) ==
    \E written \in SUBSET {c \in clients : CanWrite(c)} :
        /\ frames' = [c \in Conns |-> IF c \in written THEN Append(frames[c], frame)
                                                       ELSE frames[c]]
        /\ link' = [c \in Conns |-> IF c \in clients \ written THEN "mute"
                                                               ELSE link[c]]
        /\ UNCHANGED <<clients, handler, read, unsure>>

Broadcast(frame) ==
    \E written \in SUBSET {c \in clients : CanWrite(c)} :
        /\ frames' = [c \in Conns |-> IF c \in written THEN Append(frames[c], frame)
                                                       ELSE frames[c]]
        /\ link' = [c \in Conns |-> IF c \in clients \ written THEN "closed"
                                                               ELSE link[c]]
        /\ clients' = written
        /\ UNCHANGED <<handler, read, unsure>>

Handles(c, from, to) == handler[c] = from /\ handler' = [handler EXCEPT ![c] = to]

\* HandleWS, once the connection is upgraded.
Register(c) ==
    /\ Handles(c, "new", "load")
    /\ clients' = clients \cup {c}
    /\ UNCHANGED <<runVars, read, link, frames, unsure>>

Announced == {n \in Runs : stage[n] \in {"live", "announce", "release", "done"}}

\* SendStatus reads the file before it takes Hub.mu; a failing read ends it.
LoadStatus(c) ==
    /\ \/ /\ Handles(c, "load", "write")
          /\ read' = [read EXCEPT ![c] = IF file.running /\ ~gone THEN file.run ELSE 0]
          /\ unsure' = [unsure EXCEPT ![c] = IF amiss THEN Announced ELSE {}]
       \/ Handles(c, "load", "pump") /\ UNCHANGED <<read, unsure>>
    /\ UNCHANGED <<runVars, clients, link, frames>>

WriteStatus(c) ==
    /\ Handles(c, "write", "pump")
    /\ \/ /\ CanWrite(c)
          /\ frames' = [frames EXCEPT ![c] = Append(@, Frame("status", read[c]))]
          /\ UNCHANGED link
       \/ /\ link' = [link EXCEPT ![c] = IF @ = "closed" THEN @ ELSE "mute"]
          /\ UNCHANGED frames
    /\ UNCHANGED <<runVars, clients, read, unsure>>

\* Bug: the read pump closes the connection and forgets the hub.
BugPumpEnds(c) ==
    /\ link[c] = "closed"
    /\ Handles(c, "pump", "done")
    /\ UNCHANGED <<runVars, clients, read, link, frames, unsure>>

\* The read pump's read fails: Unregister.
PumpEnds(c) ==
    /\ link[c] = "closed"
    /\ Handles(c, "pump", "done")
    /\ clients' = clients \ {c}
    /\ UNCHANGED <<runVars, read, link, frames, unsure>>

ClientLeaves(c) ==
    /\ link[c] # "closed"
    /\ link' = [link EXCEPT ![c] = "closed"]
    /\ UNCHANGED <<runVars, clients, handler, read, frames, unsure>>

-----------------------------------------------------------------------------
(* The task file.                                                          *)

Mishap ==
    /\ mishaps < MaxMishaps
    /\ mishaps' = mishaps + 1
    /\ amiss' = TRUE

DeleteTask ==
    /\ ~gone /\ Mishap
    /\ gone' = TRUE
    /\ UNCHANGED <<file, claimed, stage, connVars>>

\* A PUT whose body has another lastStatus than the file, as one that an earlier GET
\* returned: the store keeps its own only where the body has none.
PutStatus ==
    /\ ~gone /\ Mishap
    /\ file' = [file EXCEPT !.running = ~@]
    /\ UNCHANGED <<gone, claimed, stage, connVars>>

\* A run's write of its status: of a task that is gone there is nothing to write, and a
\* failing access is logged and leaves the file as it was.
SetLastRun(n, running) ==
    /\ \/ /\ ~gone
          /\ file' = [run |-> n, running |-> running]
          /\ amiss' = FALSE /\ UNCHANGED mishaps
       \/ gone /\ UNCHANGED <<file, mishaps, amiss>>
       \/ ~gone /\ Mishap /\ UNCHANGED file
    /\ UNCHANGED gone

-----------------------------------------------------------------------------
(* The runs, as far as they write the status or broadcast.                 *)

Step(n, from, to) == stage[n] = from /\ stage' = [stage EXCEPT ![n] = to]

\* Claimed by the tick or by RunTaskNow.
Begin(n) ==
    /\ ~claimed
    /\ \A m \in 1..(n - 1) : stage[m] # "new"
    /\ Step(n, "new", "mark")
    /\ claimed' = TRUE
    /\ UNCHANGED <<fileVars, connVars>>

\* Bug: the status that says running is not written.
BugUnmarked(n) ==
    /\ Step(n, "mark", "create")
    /\ UNCHANGED <<fileVars, claimed, connVars>>

MarkRunning(n) ==
    /\ Step(n, "mark", "create")
    /\ SetLastRun(n, TRUE)
    /\ UNCHANGED <<claimed, connVars>>

AnnounceStart(n) ==
    /\ Step(n, "create", "live")
    /\ Broadcast(Frame("started", n))
    /\ UNCHANGED <<fileVars, claimed>>

FailToCreate(n) ==
    /\ Step(n, "create", "failed")
    /\ UNCHANGED <<fileVars, claimed, connVars>>

\* Bug: the end is announced, and the file written after it.
BugRecordLater(n) ==
    /\ Step(n, "live", "announce") \/ Step(n, "failed", "announce")
    /\ UNCHANGED <<fileVars, claimed, connVars>>

RecordOutcome(n) ==
    /\ Step(n, "live", "announce") \/ Step(n, "failed", "announce")
    /\ SetLastRun(n, FALSE)
    /\ UNCHANGED <<claimed, connVars>>

\* Bug: the claim is given back before the end is announced.
BugEndUnclaimed(n) ==
    \/ /\ claimed /\ stage[n] = "announce"
       /\ claimed' = FALSE
       /\ UNCHANGED <<fileVars, stage, connVars>>
    \/ /\ Step(n, "announce", "release")
       /\ Broadcast(Frame("ended", n))
       /\ UNCHANGED <<fileVars, claimed>>

\* task_completed or task_error.
AnnounceEnd(n) ==
    /\ Step(n, "announce", "release")
    /\ Broadcast(Frame("ended", n))
    /\ UNCHANGED <<fileVars, claimed>>

Release(n) ==
    /\ Step(n, "release", "done")
    /\ claimed' = FALSE
    /\ UNCHANGED <<fileVars, connVars>>

-----------------------------------------------------------------------------
Init ==
    /\ file = [run |-> 0, running |-> FALSE] /\ gone = FALSE /\ mishaps = 0 /\ amiss = FALSE
    /\ claimed = FALSE
    /\ stage = [n \in Runs |-> "new"]
    /\ clients = {}
    /\ handler = [c \in Conns |-> "new"]
    /\ read = [c \in Conns |-> 0]
    /\ link = [c \in Conns |-> "up"]
    /\ frames = [c \in Conns |-> <<>>]
    /\ unsure = [c \in Conns |-> {}]

Handler(c) == Register(c) \/ LoadStatus(c) \/ WriteStatus(c) \/ PumpEnds(c)

Next ==
    \/ \E c \in Conns : Handler(c) \/ ClientLeaves(c)
    \/ DeleteTask \/ PutStatus
    \/ \E n \in Runs :
          \/ Begin(n) \/ MarkRunning(n) \/ AnnounceStart(n) \/ FailToCreate(n)
          \/ RecordOutcome(n) \/ AnnounceEnd(n) \/ Release(n)

Spec == Init /\ [][Next]_vars

\* Goroutines that can go on do; nothing makes a run start or a client leave.
FairSpec == Spec /\ \A c \in Conns : WF_vars(Handler(c))

-----------------------------------------------------------------------------
(* Properties.                                                             *)

TypeOK ==
    /\ file \in [run : 0..MaxRuns, running : BOOLEAN]
    /\ claimed \in BOOLEAN /\ gone \in BOOLEAN /\ amiss \in BOOLEAN
    /\ mishaps \in 0..MaxMishaps
    /\ stage \in [Runs -> {"new", "mark", "create", "live", "failed", "announce",
                           "release", "done"}]
    /\ clients \subseteq Conns
    /\ handler \in [Conns -> {"new", "load", "write", "pump", "done"}]
    /\ read \in [Conns -> 0..MaxRuns]
    /\ link \in [Conns -> {"up", "mute", "closed"}]
    /\ frames \in [Conns -> Seq(Frames)]
    /\ unsure \in [Conns -> SUBSET Runs]

Got(c, type, n) == \E i \in DOMAIN frames[c] : frames[c][i] = Frame(type, n)
Heard(c, n)     == Got(c, "status", n) \/ Got(c, "started", n)
HasStatus(c)    == \E n \in 0..MaxRuns : Got(c, "status", n)

\* A registered client with its task_status has been told of every run with a
\* session or terminal: nothing falls between the status and the broadcasts.  Of runs
\* announced before its status was read it can know from the file alone, so they are left
\* out if that was amiss: the task deleted, its mark not written, or a client's own.
NoRunUnheard ==
    \A c \in clients : \A n \in Runs \ unsure[c] :
        HasStatus(c) /\ stage[n] = "live" => Heard(c, n)

\* A client that was told of a run is told of its end, as long as it is registered;
\* unless the file told it of a run that was over, as its end had not been written.
EndIsHeard ==
    \A c \in clients : \A n \in Runs \ unsure[c] :
        Heard(c, n) /\ stage[n] \in {"release", "done"} => Got(c, "ended", n)

\* Events of a task reach a client in the order of its runs, the start of a run
\* before its end: they are sent while the run still has its claim.
EventsInOrder ==
    \A c \in Conns : \A i, j \in DOMAIN frames[c] :
        LET a == frames[c][i]
            b == frames[c][j]
        IN i < j /\ a.type # "status" /\ b.type # "status" =>
               a.run < b.run \/ (a.run = b.run /\ a.type = "started" /\ b.type = "ended")

\* A client that reads the task list on an event finds what the event says, or the
\* state of a later run: the file is written first.  If the last write of a run came to
\* nothing, or a client has written since, the file says what it did before, or that.
EventsFollowFile ==
    ~amiss => \A c \in Conns, n \in Runs :
        /\ Got(c, "started", n) => file.run >= n
        /\ Got(c, "ended", n) => file # [run |-> n, running |-> TRUE]

\* A connection that is closed leaves Hub.clients, even when nothing is broadcast.
ClosedLeaves == \A c \in Conns : link[c] = "closed" ~> c \notin clients

=============================================================================
