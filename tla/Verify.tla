-------------------------------- MODULE Verify --------------------------------
(***************************************************************************)
(* devboxverify: one run of the tool that grades an installed scheduler    *)
(* (cmd/devboxverify).  It checks which build is running, takes the WORLD  *)
(* lock, checks again, creates a routine through relay's front door, runs  *)
(* it, reads its history, cleans up, and posts what it saw to a PR.        *)
(*                                                                         *)
(* Around it: the lock, which devlock leases to one holder at a time; its  *)
(* other holders, who may install another build or restart the service;    *)
(* the service, which runs the routine; requests that are refused or whose *)
(* reply is lost; Ctrl-C at any point.                                     *)
(***************************************************************************)
EXTENDS Naturals

CONSTANTS
    Post,           \* whether --post was given
    RequestTime,    \* frontendRequestTimeout
    PollEvery,      \* pollEvery
    RunDeadline,    \* runDeadline
    JourneyTime,    \* the journey's Timeout
    GhTime,         \* the time a gh command may take, with its WaitDelay
    Lease,          \* --minutes of devlock take
    MaxSecond,      \* bound: seconds in which builds are installed
    Faults          \* "refuse", "lose", "interrupt", "takeKilled", "releaseFails"

ASSUME PostAssumption == Post \in BOOLEAN
ASSUME FaultsAssumption ==
    Faults \subseteq {"refuse", "lose", "interrupt", "takeKilled", "releaseFails"}
ASSUME TimesAssumption ==
    /\ {RequestTime, PollEvery, RunDeadline, JourneyTime, GhTime, Lease, MaxSecond}
          \subseteq Nat
    /\ PollEvery > 0
\* lock.go "The lease is 10 minutes, longer than one journey run": with its clean-up
\* of four requests and the two commands that post.
ASSUME LeaseAssumption ==
    JourneyTime + 4 * RequestTime + 2 * GhTime < Lease

Builds   == {"head", "other"}   \* "other" is any other commit, or a modified tree
Verdicts == {"PASS", "FAIL", "BLOCKED"}
NotYet   == 3                   \* no exit code

VARIABLES
    at,             \* what the tool does next; "exit" when it has ended
    verdict,        \* the journey's result, "none" before it
    known,          \* whether the tool has the id of its routine
    began,          \* when it asked for the run
    deleted,        \* whether its DELETE of the routine was answered
    named,          \* whether the result names a routine that was left behind
    code,           \* the exit code
    interrupted,    \* whether SIGINT or SIGTERM has come
    cut,            \* observation: it came before the results were counted
    lock,           \* who holds WORLD: "free", "verify" or "other"
    held,           \* time since the tool took it
    leaked,         \* observation: devlock was killed too late, or failed to release
    second,         \* the wall clock, in the resolution of ps
    binary,         \* the installed binary: its build and when it was written
    service,        \* the process: the build it runs and when it started
    routine,        \* "none", "there" or "gone"
    run,            \* its run: "none", "accepted", "created", "saved" or "ended"
    outcome,        \* the history record of the run
    terminal,       \* the terminal of the run: "none", "there" or "closed"
    served,         \* observation: the build that accepted the run
    comment,        \* what the PR's comment says, "none" before it
    status          \* the commit status devbox/verify

toolVars  == <<verdict, known, began, deleted, named, code>>
signals   == <<interrupted, cut, leaked>>
lockVars  == <<lock, held>>
buildVars == <<second, binary, service>>
relayVars == <<routine, run, outcome, terminal, served>>
prVars    == <<comment, status>>
vars == <<at, toolVars, signals, lockVars, buildVars, relayVars, prVars>>

Step(from, to) == at = from /\ at' = to
Least(S) == CHOOSE n \in S : \A m \in S : n <= m

-----------------------------------------------------------------------------
(* The other holders of WORLD.                                             *)

OtherTakes ==
    /\ lock = "free" /\ lock' = "other"
    /\ UNCHANGED <<at, toolVars, signals, held, buildVars, relayVars, prVars>>

OtherGives ==
    /\ lock = "other" /\ lock' = "free"
    /\ UNCHANGED <<at, toolVars, signals, held, buildVars, relayVars, prVars>>

\* A build takes longer than the clock's resolution.
Install(build) ==
    /\ lock = "other"
    /\ second < MaxSecond
    /\ second' = second + 1
    /\ binary' = [build |-> build, written |-> second']
    /\ UNCHANGED <<at, toolVars, signals, lockVars, service, relayVars, prVars>>

Restart ==
    /\ lock = "other"
    /\ service' = [build |-> binary.build, started |-> second]
    /\ UNCHANGED <<at, toolVars, signals, lockVars, second, binary, relayVars, prVars>>

\* devlock ends a lease that was not given back.
Expire ==
    /\ lock = "verify" /\ held = Lease
    /\ lock' = "free"
    /\ UNCHANGED <<at, toolVars, signals, held, buildVars, relayVars, prVars>>

TimePasses ==
    /\ at = "exit" /\ lock = "verify" /\ held < Lease
    /\ held' = held + 1
    /\ UNCHANGED <<at, toolVars, signals, lock, buildVars, relayVars, prVars>>

-----------------------------------------------------------------------------
(* The service's run of the routine (TaskRun has it in full).              *)

RunMoves(from, to) ==
    /\ run = from /\ run' = to
    /\ UNCHANGED <<at, toolVars, signals, lockVars, buildVars, routine, served, prVars>>

\* The terminal may be refused: no template, or relay is down.
RunFails ==
    /\ RunMoves("accepted", "ended")
    /\ outcome' \in {"bad", "blocked"}
    /\ UNCHANGED terminal

RunCreates ==
    /\ RunMoves("accepted", "created")
    /\ terminal' = "there"
    /\ UNCHANGED outcome

RunSaves == RunMoves("created", "saved") /\ UNCHANGED <<outcome, terminal>>

RunEnds ==
    /\ RunMoves("saved", "ended")
    /\ outcome' \in {"good", "bad"}
    /\ UNCHANGED terminal

ServiceStep == RunFails \/ RunCreates \/ RunSaves \/ RunEnds

-----------------------------------------------------------------------------
(* Before the journey.                                                     *)

Interrupt ==
    /\ "interrupt" \in Faults
    /\ ~interrupted /\ at # "exit"
    /\ interrupted' = TRUE
    /\ cut' = (at \notin {"comment", "status", "release"})
    /\ UNCHANGED <<leaked, at, toolVars, lockVars, buildVars, relayVars, prVars>>

Exit(c) == at' = "exit" /\ code' = c

\* Bug: a process that is older than the binary passes.
BugBuildOfFile == binary.build = "head"

\* checkBuild looks at the binary's file; that the process runs it follows from when
\* it started.
BuildMatches == binary.build = "head" /\ service.started >= binary.written

\* The other checks may refuse at any time.
Preflight ==
    /\ at = "preflight"
    /\ \/ Exit(2)
       \/ BuildMatches /\ at' = "queue" /\ UNCHANGED code
    /\ UNCHANGED <<verdict, known, began, deleted, named, signals, lockVars, buildVars,
                   relayVars, prVars>>

TakeWorldLock ==
    /\ Step("queue", "recheck")
    /\ ~interrupted
    /\ lock = "free"
    /\ lock' = "verify" /\ held' = 0
    /\ UNCHANGED <<toolVars, signals, buildVars, relayVars, prVars>>

\* The wait is over or interrupted, which kills devlock, perhaps an instant too late.
LockFails ==
    /\ at = "queue"
    /\ Exit(2)
    /\ \/ UNCHANGED <<lockVars, leaked>>
       \/ /\ "takeKilled" \in Faults
          /\ lock = "free" /\ lock' = "verify" /\ held' = 0 /\ leaked' = TRUE
    /\ UNCHANGED <<verdict, known, began, deleted, named, interrupted, cut, buildVars,
                   relayVars, prVars>>

\* Bug: the run ends without a word to devlock.
BugRecheckKeepsLock ==
    /\ at = "recheck"
    /\ \/ BuildMatches /\ at' = "create" /\ UNCHANGED code
       \/ ~BuildMatches /\ Exit(2)
    /\ UNCHANGED <<verdict, known, began, deleted, named, signals, lockVars, buildVars,
                   relayVars, prVars>>

Recheck ==
    /\ at = "recheck"
    /\ \/ BuildMatches /\ at' = "create" /\ UNCHANGED code
       \/ ~BuildMatches /\ at' = "release" /\ code' = 2
    /\ UNCHANGED <<verdict, known, began, deleted, named, signals, lockVars, buildVars,
                   relayVars, prVars>>

-----------------------------------------------------------------------------
(* The journey.                                                            *)

\* The journey's context is done.
Done(time) == interrupted \/ time >= JourneyTime

\* A request is answered; or not done; or done, and the answer does not come.
Replies(done) == (IF done THEN {} ELSE {"ok"})
                 \cup (IF done \/ "refuse" \in Faults THEN {"refused"} ELSE {})
                 \cup (IF done \/ "lose" \in Faults THEN {"lost"} ELSE {})
Acted(reply) == reply \in {"ok", "lost"}

\* When a request of the journey may return.
JourneyTimes == held..Least({held + RequestTime, JourneyTime})

\* stepRefusal: no answer is BLOCKED, and so is 401 or 403.
Refusal(reply) == IF reply = "lost" THEN {"BLOCKED"} ELSE {"BLOCKED", "FAIL"}

Create ==
    /\ at = "create"
    /\ held' \in JourneyTimes
    /\ \E reply \in Replies(Done(held)) :
          /\ routine' = IF Acted(reply) THEN "there" ELSE routine
          /\ known' = (reply = "ok")
          /\ IF reply = "ok" THEN at' = "run" /\ UNCHANGED verdict
                             ELSE at' = "tally" /\ verdict' \in Refusal(reply)
    /\ UNCHANGED <<began, deleted, named, code, signals, lock, buildVars, run, outcome,
                   terminal, served, prVars>>

\* Bug: a run that is refused needs no clean-up.
BugRunRefusedReturns ==
    /\ at = "run"
    /\ began' = held /\ held' \in JourneyTimes
    /\ \E reply \in Replies(Done(held)) :
          /\ run' = IF Acted(reply) THEN "accepted" ELSE run
          /\ served' = IF Acted(reply) THEN service.build ELSE served
          /\ IF reply = "ok" THEN at' = "poll" /\ UNCHANGED verdict
                             ELSE at' = "tally" /\ verdict' \in Refusal(reply)
    /\ UNCHANGED <<known, deleted, named, code, signals, lock, buildVars, routine,
                   outcome, terminal, prVars>>

RunNow ==
    /\ at = "run"
    /\ began' = held /\ held' \in JourneyTimes
    /\ \E reply \in Replies(Done(held)) :
          /\ run' = IF Acted(reply) THEN "accepted" ELSE run
          /\ served' = IF Acted(reply) THEN service.build ELSE served
          /\ IF reply = "ok" THEN at' = "poll" /\ UNCHANGED verdict
                             ELSE at' = "look" /\ verdict' \in Refusal(reply)
    /\ UNCHANGED <<known, deleted, named, code, signals, lock, buildVars, routine,
                   outcome, terminal, prVars>>

\* classifyShellRun.
Judged == CASE outcome = "good"    -> "PASS"
            [] outcome = "blocked" -> "BLOCKED"
            [] OTHER               -> "FAIL"

\* Bug: the history is polled until the run has ended.
BugPollUntilEnded ==
    /\ at = "poll"
    /\ run = "ended" /\ verdict' = Judged /\ at' = "look"
    /\ held' \in JourneyTimes
    /\ UNCHANGED <<known, began, deleted, named, code, signals, lock, buildVars,
                   relayVars, prVars>>

\* waitForHistory: one poll, and the pause after it.
Poll ==
    /\ at = "poll"
    /\ \E reply \in Replies(Done(held)), time \in JourneyTimes :
          \/ /\ reply = "ok" /\ run = "ended"
             /\ verdict' = Judged /\ at' = "look" /\ held' = time
          \/ /\ reply # "ok" \/ run # "ended"
             /\ Done(time) \/ time + PollEvery >= began + RunDeadline
             /\ verdict' = "FAIL" /\ at' = "look" /\ held' = time
          \/ /\ reply # "ok" \/ run # "ended"
             /\ ~Done(time) /\ time + PollEvery < began + RunDeadline
             /\ held' = Least({time + PollEvery, JourneyTime})
             /\ UNCHANGED <<at, verdict>>
    /\ UNCHANGED <<known, began, deleted, named, code, signals, lock, buildVars,
                   relayVars, prVars>>

-----------------------------------------------------------------------------
(* cleanupRoutine, on a context that nothing cancels.                      *)

\* Bug: the requests of the clean-up have no limit.
BugUnlimited(time) == held..Lease

Within(time) == held..(held + time)

Cleaning(from) ==
    /\ at = from
    /\ held' \in Within(RequestTime)
    /\ UNCHANGED <<known, began, code, signals, lock, buildVars, run, outcome, served,
                   prVars>>

\* Bug: the terminal is closed whether the routine has one or not.
BugLookAway ==
    /\ Cleaning("look")
    /\ at' = "close"
    /\ UNCHANGED <<verdict, deleted, named, routine, terminal>>

\* GET of the routine, for its lastTerminalId.
Look ==
    /\ Cleaning("look")
    /\ \E reply \in Replies(FALSE) :
         LET id == run \in {"saved", "ended"} /\ terminal # "none"
         IN at' = IF reply = "ok" /\ id THEN "close" ELSE "delete"
    /\ UNCHANGED <<verdict, deleted, named, routine, terminal>>

Close ==
    /\ Cleaning("close")
    /\ at' = "delete"
    /\ \E reply \in Replies(FALSE) :
         terminal' = IF Acted(reply) THEN "closed" ELSE terminal
    /\ UNCHANGED <<verdict, deleted, named, routine>>

Delete ==
    /\ Cleaning("delete")
    /\ at' = "confirm"
    /\ \E reply \in Replies(FALSE) :
         /\ routine' = IF Acted(reply) THEN "gone" ELSE routine
         /\ deleted' = (reply = "ok")
    /\ UNCHANGED <<verdict, named, terminal>>

\* A GET that is to find nothing.  A routine left behind fails the journey.
Confirm ==
    /\ Cleaning("confirm")
    /\ at' = "tally"
    /\ \E reply \in Replies(FALSE) :
         LET clean == deleted /\ reply = "ok" /\ routine = "gone" IN
         /\ named' = ~clean
         /\ verdict' = IF ~clean /\ verdict = "PASS" THEN "FAIL" ELSE verdict
    /\ UNCHANGED <<deleted, routine, terminal>>

-----------------------------------------------------------------------------
(* After the journey.                                                      *)

\* Bug: an interrupted run counts.
BugTallyAnyway ==
    /\ at = "tally"
    /\ code' = IF verdict = "PASS" THEN 0 ELSE 1
    /\ at' = IF Post THEN "comment" ELSE "release"
    /\ UNCHANGED <<verdict, known, began, deleted, named, signals, lockVars, buildVars,
                   relayVars, prVars>>

Tally ==
    /\ at = "tally"
    /\ IF interrupted
       THEN code' = 2 /\ at' = "release"
       ELSE /\ code' = IF verdict = "PASS" THEN 0 ELSE 1
            /\ at' = IF Post THEN "comment" ELSE "release"
    /\ UNCHANGED <<verdict, known, began, deleted, named, signals, lockVars, buildVars,
                   relayVars, prVars>>

StatusState == CASE verdict = "PASS" -> "success"
                 [] verdict = "FAIL" -> "failure"
                 [] OTHER            -> "error"

\* post: a gh command, after the first of which comes the second.
Posting(from, to, reply) ==
    /\ at = from
    /\ held' \in Within(GhTime)
    /\ IF reply = "ok" THEN at' = to /\ UNCHANGED code
                       ELSE at' = "release" /\ code' = 2
    /\ UNCHANGED <<verdict, known, began, deleted, named, signals, lock, buildVars,
                   relayVars>>

PostComment ==
    \E reply \in Replies(FALSE) :
       /\ Posting("comment", "status", reply)
       /\ comment' = IF Acted(reply) THEN StatusState ELSE comment
       /\ UNCHANGED status

PostStatus ==
    \E reply \in Replies(FALSE) :
       /\ Posting("status", "release", reply)
       /\ status' = IF Acted(reply) THEN StatusState ELSE status
       /\ UNCHANGED comment

\* The deferred release, on every way out once the lock is held.
Release ==
    /\ Step("release", "exit")
    /\ \/ lock' = (IF lock = "verify" THEN "free" ELSE lock) /\ UNCHANGED leaked
       \/ "releaseFails" \in Faults /\ leaked' = TRUE /\ UNCHANGED lock
    /\ UNCHANGED <<toolVars, interrupted, cut, held, buildVars, relayVars, prVars>>

-----------------------------------------------------------------------------
Init ==
    /\ at = "preflight" /\ verdict = "none" /\ code = NotYet
    /\ known = FALSE /\ deleted = FALSE /\ named = FALSE /\ began = 0
    /\ interrupted = FALSE /\ cut = FALSE /\ leaked = FALSE
    /\ lock \in {"free", "other"} /\ held = 0
    /\ second = 1
    /\ binary \in [build : Builds, written : {0, 1}]
    /\ service \in [build : Builds, started : {0, 1}]
    /\ service.started >= binary.written => service.build = binary.build
    /\ routine = "none" /\ run = "none" /\ outcome = "none" /\ terminal = "none"
    /\ served = "none"
    /\ comment = "none" /\ status = "none"

Others ==
    \/ OtherTakes \/ OtherGives \/ (\E build \in Builds : Install(build)) \/ Restart
    \/ Interrupt

Devlock == Expire \/ TimePasses

Tool ==
    \/ Preflight \/ TakeWorldLock \/ LockFails \/ Recheck
    \/ Create \/ RunNow \/ Poll \/ Look \/ Close \/ Delete \/ Confirm
    \/ Tally \/ PostComment \/ PostStatus \/ Release

Next == Others \/ Devlock \/ ServiceStep \/ Tool

Spec == Init /\ [][Next]_vars

\* The tool's requests and commands all have a limit of their own; so does its wait for
\* the lock.  The run of the routine need not end.
FairSpec == Spec /\ WF_vars(Tool) /\ WF_vars(Devlock)

-----------------------------------------------------------------------------
(* Properties.                                                             *)

InJourney == {"create", "run", "poll"}
Cleanup   == {"look", "close", "delete", "confirm"}
Holding   == {"recheck", "tally", "comment", "status", "release"} \cup InJourney \cup Cleanup

TypeOK ==
    /\ at \in {"preflight", "queue", "exit"} \cup Holding
    /\ verdict \in Verdicts \cup {"none"} /\ code \in {0, 1, 2, NotYet}
    /\ known \in BOOLEAN /\ deleted \in BOOLEAN /\ named \in BOOLEAN
    /\ interrupted \in BOOLEAN /\ cut \in BOOLEAN /\ leaked \in BOOLEAN
    /\ lock \in {"free", "verify", "other"}
    /\ held \in 0..Lease /\ began \in 0..held
    /\ binary \in [build : Builds, written : 0..second]
    /\ service \in [build : Builds, started : 0..second]
    /\ second \in Nat
    /\ routine \in {"none", "there", "gone"}
    /\ run \in {"none", "accepted", "created", "saved", "ended"}
    /\ terminal \in {"none", "there", "closed"}
    /\ terminal # "none" => run \in {"created", "saved", "ended"}
    /\ outcome \in {"none", "good", "bad", "blocked"}
    /\ served \in Builds \cup {"none"}
    /\ comment \in {"none", "success", "failure", "error"}
    /\ status \in {"none", "success", "failure", "error"}

\* lock.go "longer than one journey run": however long each request and command takes,
\* the lease outlasts the tool, which touches the world and posts under its own lock.
WorldIsOurs == at \in Holding => lock = "verify" /\ held < Lease

\* README "It checks that the running service is the build under test": a status
\* "success" means that the process that took the run was built from the commit it
\* is posted on, ran it well, and that the routine is gone.
SuccessIsEarned ==
    status = "success" => served = "head" /\ outcome = "good" /\ routine = "gone"

\* README, exit codes: 0 is success, and with --post it is posted; the comment is there
\* before the status and says the same; a run that was interrupted posts nothing.
RecordAgrees ==
    /\ status # "none" => comment = status
    /\ at = "exit" /\ code = 0 => verdict = "PASS" /\ (Post => status = "success")
    /\ cut => comment = "none"

\* README "A routine left behind fails the journey": unless the answer to its creation
\* was lost, the tool does not end without either deleting its routine or naming it.
LeftoverIsNamed ==
    at \in {"comment", "status", "release", "exit"} /\ known /\ routine # "gone" =>
        named /\ verdict # "PASS"

\* README "releases it when the run ends, including on Ctrl-C": the lock stays behind
\* only if devlock was killed too late or failed.
LockReleased == at = "exit" /\ ~leaked => lock # "verify"

\* The tool ends, whatever becomes of the routine's run, and the lock is free for others
\* in the end.
Finishes == <>[](at = "exit" /\ lock # "verify")

=============================================================================
