---------------------------- MODULE VerifyProofs ----------------------------
(***************************************************************************)
(* What devboxverify promises, for every choice of its limits under which  *)
(* the lease is longer than their sum, and for every fault.                *)
(***************************************************************************)
EXTENDS Verify, TLAPS

Early == {"preflight", "queue", "recheck", "create", "run", "poll"} \cup Cleanup
Late  == {"tally", "comment", "status", "release", "exit"}

\* How long the lock has been held when a stage begins.
Budget ==
    /\ at \in {"preflight", "queue", "recheck", "create", "run"} => began = 0
    /\ at = "recheck" => held = 0
    /\ at \in InJourney \cup {"look"} => held <= JourneyTime
    /\ at = "close" => held <= JourneyTime + RequestTime
    /\ at = "delete" => held <= JourneyTime + 2 * RequestTime
    /\ at = "confirm" => held <= JourneyTime + 3 * RequestTime
    /\ at \in {"tally", "comment"} => held <= JourneyTime + 4 * RequestTime
    /\ at = "status" => held <= JourneyTime + 4 * RequestTime + GhTime
    /\ at = "release" => held <= JourneyTime + 4 * RequestTime + 2 * GhTime

LockInv ==
    /\ at \in Holding => lock = "verify"
    /\ at \in {"preflight", "queue"} => lock # "verify"
    /\ at = "exit" /\ ~leaked => lock # "verify"

\* A process that is not older than its binary runs it; only the holder of the lock
\* changes either.
BuildInv ==
    /\ service.started >= binary.written => service.build = binary.build
    /\ at \in InJourney \cup Cleanup \cup {"tally", "comment", "status"} =>
          service.build = "head"

\* What the verdict means, and what has become of the routine.
JourneyInv ==
    /\ at \in {"preflight", "queue", "recheck", "create", "run"} => run = "none"
    /\ at \in {"preflight", "queue", "recheck", "create", "run", "poll"} => verdict = "none"
    /\ run # "none" => served = "head"
    /\ verdict = "PASS" => run = "ended" /\ outcome = "good"
    /\ at \in {"preflight", "queue", "recheck", "create"} => ~known
    /\ at \in {"run", "poll"} \cup Cleanup => known
    /\ at = "close" => terminal # "none"
    /\ at \in Late /\ known /\ routine # "gone" => named /\ verdict # "PASS"
    /\ at \in Late /\ verdict = "PASS" => known

\* What has been told to the PR and to the shell.
ReportInv ==
    /\ at \in Early \cup {"tally"} => comment = "none" /\ status = "none" /\ code = NotYet
    /\ at = "comment" => comment = "none"
    /\ at = "status" => comment = StatusState
    /\ at \in {"comment", "status"} => status = "none" /\ ~cut /\ Post
    /\ status # "none" => status = StatusState /\ comment = status
    /\ code = 0 => verdict = "PASS"
    /\ at \in {"release", "exit"} /\ code = 0 /\ Post => status = "success"
    /\ cut => interrupted /\ comment = "none"

Inv == TypeOK /\ Budget /\ LockInv /\ BuildInv /\ JourneyInv /\ ReportInv


-----------------------------------------------------------------------------
LEMMA LeastOfTwo ==
    ASSUME NEW m \in Nat, NEW n \in Nat
    PROVE  Least({m, n}) \in {m, n} /\ Least({m, n}) <= m /\ Least({m, n}) <= n
<1>1. \E k \in {m, n} : \A j \in {m, n} : k <= j
  <2>1. CASE m <= n
    BY <2>1
  <2>2. CASE n <= m
    BY <2>2
  <2>. QED
    BY <2>1, <2>2
<1>. QED
  BY <1>1 DEF Least

\* A request of the journey returns before its context is done, if it was sent before.
LEMMA JourneyTimesType ==
    ASSUME TypeOK, NEW time \in JourneyTimes
    PROVE  time \in Nat /\ time >= held /\ time <= JourneyTime
<1>1. held \in Nat
  BY TimesAssumption DEF TypeOK
<1>. DEFINE last == Least({held + RequestTime, JourneyTime})
<1>2. last \in Nat /\ last <= JourneyTime
  BY <1>1, LeastOfTwo, TimesAssumption
<1>3. time \in held..last
  BY DEF JourneyTimes
<1>. HIDE DEF last
<1>. QED
  BY <1>1, <1>2, <1>3, TimesAssumption

LEMMA WithinType ==
    ASSUME TypeOK, NEW limit \in Nat, NEW time \in Within(limit)
    PROVE  time \in Nat /\ time >= held /\ time <= held + limit
BY TimesAssumption DEF TypeOK, Within

LEMMA InitInv == Init => Inv
<1>. SUFFICES ASSUME Init PROVE Inv
  OBVIOUS
<1>1. TypeOK
  <2>1. /\ binary \in [build : Builds, written : 0..second]
        /\ service \in [build : Builds, started : 0..second]
    BY DEF Init
  <2>2. held \in 0..Lease /\ began \in 0..held /\ second \in Nat
    BY TimesAssumption DEF Init
  <2>. QED
    BY <2>1, <2>2 DEF Init, TypeOK, NotYet
<1>2. Budget /\ LockInv /\ BuildInv
  BY DEF Init, Budget, LockInv, BuildInv, Holding, InJourney, Cleanup
<1>3. JourneyInv /\ ReportInv
  BY DEF Init, JourneyInv, ReportInv, Early, Late, Cleanup, NotYet
<1>. QED
  BY <1>1, <1>2, <1>3 DEF Inv

\* Steps of the world around the tool leave its own state alone.
LEMMA OthersInv == ASSUME Inv, Others PROVE Inv'
<1>1. ASSUME OtherTakes \/ OtherGives PROVE Inv'
  BY <1>1 DEF OtherTakes, OtherGives, Inv, TypeOK, Budget, LockInv, BuildInv, JourneyInv,
     ReportInv, Holding, StatusState, toolVars, signals, buildVars, relayVars, prVars
<1>2. ASSUME NEW build \in Builds, Install(build) PROVE Inv'
  <2>1. lock = "other" /\ at \notin Holding
    BY <1>2 DEF Install, Inv, LockInv
  <2>2. BuildInv'
    BY <1>2, <2>1 DEF Install, Inv, BuildInv, TypeOK, Holding
  <2>3. TypeOK'
    BY <1>2 DEF Install, Inv, TypeOK, toolVars, signals, lockVars, relayVars, prVars
  <2>. QED
    BY <1>2, <2>2, <2>3 DEF Install, Inv, Budget, LockInv, JourneyInv, ReportInv,
       StatusState, toolVars, signals, lockVars, relayVars, prVars
<1>3. ASSUME Restart PROVE Inv'
  <2>1. lock = "other" /\ at \notin Holding
    BY <1>3 DEF Restart, Inv, LockInv
  <2>2. BuildInv'
    BY <1>3, <2>1 DEF Restart, Inv, BuildInv, TypeOK, Holding
  <2>3. TypeOK'
    BY <1>3 DEF Restart, Inv, TypeOK, toolVars, signals, lockVars, relayVars, prVars
  <2>. QED
    BY <1>3, <2>2, <2>3 DEF Restart, Inv, Budget, LockInv, JourneyInv, ReportInv,
       StatusState, toolVars, signals, lockVars, relayVars, prVars
<1>4. ASSUME Interrupt PROVE Inv'
  <2>1. comment = "none" \/ ~cut'
    BY <1>4 DEF Interrupt, Inv, TypeOK, ReportInv, Holding, InJourney, Early
  <2>2. TypeOK' /\ ReportInv'
    BY <1>4, <2>1 DEF Interrupt, Inv, TypeOK, ReportInv, StatusState, toolVars, lockVars,
       buildVars, relayVars, prVars
  <2>. QED
    BY <1>4, <2>2 DEF Interrupt, Inv, Budget, LockInv, BuildInv, JourneyInv, toolVars,
       lockVars, buildVars, relayVars, prVars
<1>. QED
  BY <1>1, <1>2, <1>3, <1>4 DEF Others

LEMMA DevlockInv == ASSUME Inv, Devlock PROVE Inv'
<1>1. ASSUME Expire PROVE Inv'
  <2>1. at \notin Holding
    BY <1>1, LeaseAssumption, TimesAssumption DEF Expire, Inv, Budget, TypeOK, Holding,
       InJourney, Cleanup
  <2>. QED
    BY <1>1, <2>1 DEF Expire, Inv, TypeOK, Budget, LockInv, BuildInv, JourneyInv,
       ReportInv, Holding, StatusState, toolVars, signals, buildVars, relayVars, prVars
<1>2. ASSUME TimePasses PROVE Inv'
  <2>1. TypeOK' /\ Budget'
    BY <1>2, TimesAssumption DEF TimePasses, Inv, TypeOK, Budget, InJourney, toolVars,
       signals, buildVars, relayVars, prVars
  <2>. QED
    BY <1>2, <2>1 DEF TimePasses, Inv, LockInv, BuildInv, JourneyInv, ReportInv,
       StatusState, toolVars, signals, buildVars, relayVars, prVars
<1>. QED
  BY <1>1, <1>2 DEF Devlock

LEMMA ServiceInv == ASSUME Inv, ServiceStep PROVE Inv'
<1>1. PICK from, to : RunMoves(from, to) /\ from # "ended" /\ from # "none"
  BY DEF ServiceStep, RunFails, RunCreates, RunSaves, RunEnds
<1>2. verdict # "PASS"
  BY <1>1 DEF RunMoves, Inv, JourneyInv
<1>3. TypeOK'
  BY <1>1 DEF ServiceStep, RunFails, RunCreates, RunSaves, RunEnds, RunMoves, Inv, TypeOK,
     toolVars, signals, lockVars, buildVars, prVars
<1>4. JourneyInv'
  <2>1. terminal # "none" => terminal' # "none"
    BY DEF ServiceStep, RunFails, RunCreates, RunSaves, RunEnds
  <2>. QED
    BY <1>1, <1>2, <2>1 DEF RunMoves, Inv, JourneyInv, toolVars
<1>. QED
  BY <1>1, <1>3, <1>4 DEF RunMoves, Inv, Budget, LockInv, BuildInv, ReportInv, StatusState,
     toolVars, signals, lockVars, buildVars, prVars

-----------------------------------------------------------------------------
(* The tool's own steps.                                                   *)

LEMMA BeforeJourneyInv ==
    ASSUME Inv, Preflight \/ TakeWorldLock \/ LockFails \/ Recheck
    PROVE  Inv'
<1>1. ASSUME Preflight PROVE Inv'
  <2>1. at = "preflight" /\ at' \in {"exit", "queue"} /\ code' \in {2, NotYet}
    BY <1>1 DEF Preflight, Exit, Inv, ReportInv, Early
  <2>2. TypeOK' /\ Budget' /\ LockInv' /\ BuildInv'
    BY <1>1, <2>1 DEF Preflight, Inv, TypeOK, Budget, LockInv, BuildInv, Holding, InJourney,
       Cleanup, signals, lockVars, buildVars, relayVars, prVars
  <2>3. JourneyInv' /\ ReportInv'
    BY <1>1, <2>1 DEF Preflight, Inv, JourneyInv, ReportInv, Early, Late, Cleanup, Exit, NotYet,
       StatusState, signals, relayVars, prVars
  <2>. QED
    BY <2>2, <2>3 DEF Inv
<1>2. ASSUME TakeWorldLock PROVE Inv'
  <2>1. at = "queue" /\ at' = "recheck" /\ lock' = "verify" /\ held' = 0
    BY <1>2 DEF TakeWorldLock, Step
  <2>2. began = 0
    BY <2>1 DEF Inv, Budget
  <2>3. TypeOK' /\ Budget' /\ LockInv' /\ BuildInv'
    BY <1>2, <2>1, <2>2, TimesAssumption DEF TakeWorldLock, Inv, TypeOK, Budget, LockInv,
       BuildInv, Holding, InJourney, Cleanup, toolVars, signals, buildVars, relayVars, prVars
  <2>4. JourneyInv' /\ ReportInv'
    BY <1>2, <2>1 DEF TakeWorldLock, Inv, JourneyInv, ReportInv, Early, Late, Cleanup,
       StatusState, toolVars, signals, relayVars, prVars
  <2>. QED
    BY <2>3, <2>4 DEF Inv
<1>3. ASSUME LockFails PROVE Inv'
  <2>1. at = "queue" /\ at' = "exit" /\ code' = 2
    BY <1>3 DEF LockFails, Exit
  <2>2. began = 0
    BY <2>1 DEF Inv, Budget
  <2>3. \/ lock' = "verify" /\ held' = 0 /\ leaked' = TRUE
        \/ UNCHANGED <<lock, held, leaked>>
    BY <1>3 DEF LockFails, lockVars
  <2>4. TypeOK'
    <3>1. held' \in 0..Lease /\ began' \in 0..held'
      BY <1>3, <2>2, <2>3, TimesAssumption DEF LockFails, Inv, TypeOK
    <3>2. lock' \in {"free", "verify", "other"} /\ leaked' \in BOOLEAN
      BY <2>3 DEF Inv, TypeOK
    <3>. QED
      BY <1>3, <2>1, <3>1, <3>2 DEF LockFails, Inv, TypeOK, buildVars, relayVars, prVars
  <2>5. Budget' /\ LockInv' /\ BuildInv'
    BY <1>3, <2>1, <2>2, <2>3 DEF LockFails, Inv, Budget, LockInv, BuildInv, Holding,
       InJourney, Cleanup, buildVars
  <2>6. JourneyInv' /\ ReportInv'
    BY <1>3, <2>1 DEF LockFails, Inv, JourneyInv, ReportInv, Early, Late, Cleanup,
       StatusState, relayVars, prVars
  <2>. QED
    BY <2>4, <2>5, <2>6 DEF Inv
<1>4. ASSUME Recheck PROVE Inv'
  <2>1. /\ at = "recheck" /\ UNCHANGED <<lock, held, leaked>>
        /\ \/ at' = "create" /\ code' = code /\ BuildMatches
           \/ at' = "release" /\ code' = 2
    BY <1>4 DEF Recheck, signals, lockVars
  <2>2. TypeOK'
    BY <1>4, <2>1 DEF Recheck, Inv, TypeOK, Holding, InJourney, signals, buildVars,
       relayVars, prVars
  <2>3. Budget'
    BY <1>4, <2>1, TimesAssumption DEF Recheck, Inv, Budget, InJourney
  <2>4. LockInv' /\ BuildInv'
    BY <1>4, <2>1 DEF Recheck, BuildMatches, Inv, LockInv, BuildInv, Holding, InJourney,
       Cleanup, buildVars
  <2>5. JourneyInv' /\ ReportInv'
    BY <1>4, <2>1 DEF Recheck, Inv, JourneyInv, ReportInv, Early, Late, Cleanup,
       StatusState, signals, relayVars, prVars
  <2>. QED
    BY <2>2, <2>3, <2>4, <2>5 DEF Inv
<1>. QED
  BY <1>1, <1>2, <1>3, <1>4

\* The request that began at held, within the journey.
LEMMA RequestTimes ==
    ASSUME Inv, NEW time \in JourneyTimes
    PROVE  /\ time \in 0..Lease /\ began \in 0..time /\ held \in 0..time
           /\ time <= JourneyTime
<1>1. time \in Nat /\ time >= held /\ time <= JourneyTime
  BY JourneyTimesType DEF Inv
<1>2. JourneyTime <= Lease
  BY TimesAssumption, LeaseAssumption
<1>. QED
  BY <1>1, <1>2, TimesAssumption DEF Inv, TypeOK

LEMMA JourneyStepsInv ==
    ASSUME Inv, Create \/ RunNow \/ Poll
    PROVE  Inv'
<1>0. \A reply : Refusal(reply) \subseteq {"BLOCKED", "FAIL"}
  BY DEF Refusal
<1>1. ASSUME Create PROVE Inv'
  <2>1. PICK reply \in Replies(Done(held)) :
          /\ routine' = IF Acted(reply) THEN "there" ELSE routine
          /\ known' = (reply = "ok")
          /\ IF reply = "ok" THEN at' = "run" /\ UNCHANGED verdict
                             ELSE at' = "tally" /\ verdict' \in Refusal(reply)
    BY <1>1 DEF Create
  <2>2. /\ at = "create" /\ held' \in 0..Lease /\ began \in 0..held' /\ held' <= JourneyTime
        /\ lock = "verify" /\ service.build = "head" /\ run = "none" /\ verdict = "none"
    BY <1>1, RequestTimes DEF Create, Inv, LockInv, BuildInv, JourneyInv, Holding, InJourney
  <2>3. \/ at' = "run" /\ verdict' = verdict /\ known' = TRUE
        \/ at' = "tally" /\ verdict' \in {"BLOCKED", "FAIL"} /\ known' = FALSE
    BY <1>0, <2>1
  <2>4. TypeOK'
    <3>1. routine' \in {"none", "there", "gone"}
      BY <2>1 DEF Inv, TypeOK
    <3>2. known' \in BOOLEAN /\ verdict' \in Verdicts \cup {"none"}
      BY <2>2, <2>3 DEF Verdicts
    <3>. QED
      BY <1>1, <2>2, <2>3, <3>1, <3>2 DEF Create, Inv, TypeOK, Holding, InJourney, signals,
         buildVars, prVars
  <2>5. Budget' /\ LockInv' /\ BuildInv'
    BY <1>1, <2>2, <2>3, TimesAssumption DEF Create, Inv, Budget, LockInv, BuildInv, Holding,
       InJourney, Cleanup, signals, buildVars
  <2>6. JourneyInv'
    BY <1>1, <2>2, <2>3 DEF Create, Inv, JourneyInv, Late, Cleanup
  <2>7. ReportInv'
    BY <1>1, <2>2, <2>3 DEF Create, Inv, ReportInv, Early, Cleanup, signals, prVars, NotYet
  <2>. QED
    BY <2>4, <2>5, <2>6, <2>7 DEF Inv
<1>2. ASSUME RunNow PROVE Inv'
  <2>1. PICK reply \in Replies(Done(held)) :
          /\ run' = IF Acted(reply) THEN "accepted" ELSE run
          /\ served' = IF Acted(reply) THEN service.build ELSE served
          /\ IF reply = "ok" THEN at' = "poll" /\ UNCHANGED verdict
                             ELSE at' = "look" /\ verdict' \in Refusal(reply)
    BY <1>2 DEF RunNow
  <2>2. /\ at = "run" /\ held' \in 0..Lease /\ held \in 0..held' /\ held' <= JourneyTime
        /\ lock = "verify" /\ service.build = "head" /\ run = "none" /\ verdict = "none"
    BY <1>2, RequestTimes DEF RunNow, Inv, LockInv, BuildInv, JourneyInv, Holding, InJourney
  <2>3. \/ at' = "poll" /\ verdict' = verdict
        \/ at' = "look" /\ verdict' \in {"BLOCKED", "FAIL"}
    BY <1>0, <2>1
  <2>4. \/ run' = "accepted" /\ served' = "head"
        \/ run' = "none" /\ served' = served
    BY <2>1, <2>2
  <2>5. TypeOK'
    <3>1. verdict' \in Verdicts \cup {"none"} /\ served' \in Builds \cup {"none"}
      BY <2>2, <2>3, <2>4 DEF Verdicts, Builds, Inv, TypeOK
    <3>2. terminal = "none"
      BY <2>2 DEF Inv, TypeOK
    <3>. QED
      BY <1>2, <2>2, <2>3, <2>4, <3>1, <3>2 DEF RunNow, Inv, TypeOK, Holding, InJourney,
         Cleanup, signals, buildVars, prVars
  <2>6. Budget' /\ LockInv' /\ BuildInv'
    BY <1>2, <2>2, <2>3, TimesAssumption DEF RunNow, Inv, Budget, LockInv, BuildInv, Holding,
       InJourney, Cleanup, signals, buildVars
  <2>7. JourneyInv'
    BY <1>2, <2>2, <2>3, <2>4 DEF RunNow, Inv, JourneyInv, Late
  <2>8. ReportInv'
    BY <1>2, <2>2, <2>3 DEF RunNow, Inv, ReportInv, Early, Cleanup, signals, prVars, NotYet
  <2>. QED
    BY <2>5, <2>6, <2>7, <2>8 DEF Inv
<1>3. ASSUME Poll PROVE Inv'
  <2>1. PICK reply \in Replies(Done(held)), time \in JourneyTimes :
          \/ /\ reply = "ok" /\ run = "ended"
             /\ verdict' = Judged /\ at' = "look" /\ held' = time
          \/ /\ reply # "ok" \/ run # "ended"
             /\ Done(time) \/ time + PollEvery >= began + RunDeadline
             /\ verdict' = "FAIL" /\ at' = "look" /\ held' = time
          \/ /\ reply # "ok" \/ run # "ended"
             /\ ~Done(time) /\ time + PollEvery < began + RunDeadline
             /\ held' = Least({time + PollEvery, JourneyTime})
             /\ UNCHANGED <<at, verdict>>
    BY <1>3 DEF Poll
  <2>2. time \in 0..Lease /\ began \in 0..time /\ held \in 0..time /\ time <= JourneyTime
    BY RequestTimes
  <2>3. /\ at = "poll" /\ lock = "verify" /\ service.build = "head" /\ verdict = "none"
        /\ code = NotYet
    BY <1>3 DEF Poll, Inv, LockInv, BuildInv, JourneyInv, ReportInv, Holding, InJourney, Early
  <2>4. /\ held' \in 0..Lease /\ began \in 0..held' /\ held' <= JourneyTime
    <3>1. CASE held' = time
      BY <2>2, <3>1
    <3>2. CASE held' = Least({time + PollEvery, JourneyTime})
      <4>. DEFINE next == Least({time + PollEvery, JourneyTime})
      <4>1. /\ next = time + PollEvery \/ next = JourneyTime
            /\ next <= JourneyTime
        BY <2>2, LeastOfTwo, TimesAssumption
      <4>. HIDE DEF next
      <4>2. held' = next
        BY <3>2 DEF next
      <4>. QED
        BY <2>2, <4>1, <4>2, TimesAssumption, LeaseAssumption
    <3>. QED
      BY <2>1, <3>1, <3>2
  <2>5. \/ at' = "poll" /\ verdict' = "none"
        \/ at' = "look" /\ verdict' \in Verdicts
                        /\ (verdict' = "PASS" => run = "ended" /\ outcome = "good")
    BY <2>1, <2>3 DEF Judged, Verdicts
  <2>6. TypeOK'
    BY <1>3, <2>3, <2>4, <2>5 DEF Poll, Inv, TypeOK, Holding, InJourney, Cleanup, Verdicts,
       signals, buildVars, relayVars, prVars
  <2>7. Budget' /\ LockInv' /\ BuildInv'
    BY <1>3, <2>3, <2>4, <2>5, TimesAssumption DEF Poll, Inv, Budget, LockInv, BuildInv,
       Holding, InJourney, Cleanup, signals, buildVars
  <2>8. JourneyInv' /\ ReportInv'
    BY <1>3, <2>3, <2>5 DEF Poll, Inv, JourneyInv, ReportInv, Early, Late, Cleanup, signals,
       relayVars, prVars, NotYet
  <2>. QED
    BY <2>6, <2>7, <2>8 DEF Inv
<1>. QED
  BY <1>1, <1>2, <1>3

\* A command that is not limited by the journey.
LEMMA WithinTimes ==
    ASSUME Inv, NEW limit \in Nat, NEW time \in Within(limit), held + limit < Lease
    PROVE  time \in 0..Lease /\ began \in 0..time /\ held \in 0..time /\ time <= held + limit
<1>1. time \in Nat /\ time >= held /\ time <= held + limit
  BY WithinType DEF Inv
<1>. QED
  BY <1>1, TimesAssumption DEF Inv, TypeOK

\* What the steps of the clean-up have in common.
LEMMA CleaningInv ==
    ASSUME Inv, at \in Cleanup, Cleaning(at), UNCHANGED <<verdict, named>>,
           \/ at = "look" /\ at' \in {"close", "delete"} /\ terminal' = terminal
                            /\ (at' = "close" => terminal # "none")
           \/ at = "close" /\ at' = "delete"
           \/ at = "delete" /\ at' = "confirm",
           routine' \in {"none", "there", "gone"}, deleted' \in BOOLEAN,
           terminal' = terminal \/ (terminal # "none" /\ terminal' = "closed")
    PROVE  Inv'
<1>1. /\ at' \in Cleanup /\ lock = "verify" /\ service.build = "head"
      /\ code = NotYet
  BY DEF Cleaning, Inv, LockInv, BuildInv, ReportInv, Holding, Cleanup, Early
<1>2. held + RequestTime < Lease
  BY <1>1, TimesAssumption, LeaseAssumption DEF Inv, TypeOK, Budget, Cleanup
<1>3. /\ held' \in 0..Lease /\ began \in 0..held' /\ held \in 0..held'
      /\ held' <= held + RequestTime
  BY <1>2, WithinTimes, TimesAssumption DEF Cleaning
<1>4. TypeOK'
  BY <1>1, <1>3 DEF Cleaning, Inv, TypeOK, Holding, signals, buildVars, prVars
<1>5. Budget'
  BY <1>1, <1>3, TimesAssumption DEF Cleaning, Inv, TypeOK, Budget, Cleanup, InJourney
<1>6. LockInv' /\ BuildInv'
  BY <1>1 DEF Cleaning, Inv, LockInv, BuildInv, Holding, InJourney, Cleanup, signals, buildVars
<1>7. JourneyInv' /\ ReportInv'
  BY <1>1 DEF Cleaning, Inv, JourneyInv, ReportInv, Early, Late, Cleanup, signals, prVars, NotYet
<1>. QED
  BY <1>4, <1>5, <1>6, <1>7 DEF Inv

LEMMA ConfirmInv == ASSUME Inv, Confirm PROVE Inv'
<1>1. PICK reply \in Replies(FALSE) :
        LET clean == deleted /\ reply = "ok" /\ routine = "gone" IN
        /\ named' = ~clean
        /\ verdict' = IF ~clean /\ verdict = "PASS" THEN "FAIL" ELSE verdict
  BY DEF Confirm
<1>2. /\ at = "confirm" /\ at' = "tally" /\ lock = "verify" /\ service.build = "head"
      /\ code = NotYet
  BY DEF Confirm, Cleaning, Inv, LockInv, BuildInv, ReportInv, Holding, Cleanup, Early
<1>3. held + RequestTime < Lease
  BY <1>2, TimesAssumption, LeaseAssumption DEF Inv, TypeOK, Budget
<1>4. /\ held' \in 0..Lease /\ began \in 0..held' /\ held \in 0..held'
      /\ held' <= held + RequestTime
  BY <1>3, WithinTimes, TimesAssumption DEF Confirm, Cleaning
<1>5. /\ named' \in BOOLEAN /\ verdict' \in Verdicts \cup {"none"}
      /\ verdict' = "PASS" => verdict = "PASS"
      /\ routine # "gone" => named' = TRUE /\ verdict' # "PASS"
  BY <1>1 DEF Inv, TypeOK, Verdicts
<1>6. TypeOK'
  BY <1>2, <1>4, <1>5 DEF Confirm, Cleaning, Inv, TypeOK, Holding, signals, buildVars, prVars
<1>7. Budget'
  BY <1>2, <1>4, TimesAssumption DEF Confirm, Cleaning, Inv, TypeOK, Budget, Cleanup, InJourney
<1>8. LockInv' /\ BuildInv'
  BY <1>2 DEF Confirm, Cleaning, Inv, LockInv, BuildInv, Holding, InJourney, Cleanup, signals,
     buildVars
<1>9. JourneyInv' /\ ReportInv'
  BY <1>2, <1>5 DEF Confirm, Cleaning, Inv, JourneyInv, ReportInv, Early, Late, Cleanup,
     signals, prVars, NotYet
<1>. QED
  BY <1>6, <1>7, <1>8, <1>9 DEF Inv

LEMMA CleanupStepsInv == ASSUME Inv, Look \/ Close \/ Delete PROVE Inv'
<1>0. routine \in {"none", "there", "gone"} /\ deleted \in BOOLEAN
  BY DEF Inv, TypeOK
<1>1. ASSUME Look PROVE Inv'
  <2>1. Cleaning(at) /\ at = "look" /\ at' \in {"close", "delete"} /\ (at' = "close" => terminal # "none")
        /\ UNCHANGED <<verdict, deleted, named, routine, terminal>>
    BY <1>1 DEF Look, Cleaning
  <2>. QED
    BY <1>0, <2>1, CleaningInv DEF Cleanup
<1>2. ASSUME Close PROVE Inv'
  <2>1. Cleaning(at) /\ at = "close" /\ at' = "delete" /\ UNCHANGED <<verdict, deleted, named, routine>>
        /\ terminal' \in {terminal, "closed"} /\ terminal # "none"
    BY <1>2 DEF Close, Cleaning, Inv, JourneyInv
  <2>. QED
    BY <1>0, <2>1, CleaningInv DEF Cleanup
<1>3. ASSUME Delete PROVE Inv'
  <2>1. Cleaning(at) /\ at = "delete" /\ at' = "confirm" /\ UNCHANGED <<verdict, named, terminal>>
        /\ routine' \in {routine, "gone"} /\ deleted' \in BOOLEAN
    BY <1>3 DEF Delete, Cleaning
  <2>. QED
    BY <1>0, <2>1, CleaningInv DEF Cleanup
<1>. QED
  BY <1>1, <1>2, <1>3

LEMMA TallyInv == ASSUME Inv, Tally PROVE Inv'
<1>1. /\ at = "tally" /\ at' \in {"comment", "release"} /\ code' \in {0, 1, 2}
      /\ code' = 0 => verdict = "PASS"
      /\ at' = "comment" => ~interrupted /\ Post
      /\ at' = "release" /\ code' = 0 => ~Post
  BY DEF Tally
<1>2. TypeOK'
  BY <1>1 DEF Tally, Inv, TypeOK, Holding, signals, lockVars, buildVars, relayVars, prVars
<1>3. Budget'
  BY <1>1, TimesAssumption DEF Tally, Inv, TypeOK, Budget, Cleanup, InJourney, lockVars
<1>4. LockInv' /\ BuildInv'
  BY <1>1 DEF Tally, Inv, LockInv, BuildInv, Holding, InJourney, Cleanup, lockVars, buildVars
<1>5. JourneyInv'
  BY <1>1 DEF Tally, Inv, JourneyInv, Late, Cleanup, relayVars
<1>6. ReportInv'
  BY <1>1, PostAssumption DEF Tally, Inv, TypeOK, ReportInv, Early, Cleanup, StatusState, signals, prVars
<1>. QED
  BY <1>2, <1>3, <1>4, <1>5, <1>6 DEF Inv

LEMMA PostingInv == ASSUME Inv, PostComment \/ PostStatus PROVE Inv'
<1>. DEFINE next == IF at = "comment" THEN "status" ELSE "release"
<1>1. /\ at \in {"comment", "status"} /\ at' \in {next, "release"} /\ held' \in Within(GhTime)
      /\ (at' = next /\ code' = code) \/ (at' = "release" /\ code' = 2)
      /\ comment' \in {comment, StatusState} /\ status' \in {status, StatusState}
      /\ at = "comment" => status' = status
      /\ at = "status" => comment' = comment
      /\ at = "comment" /\ at' = "status" => comment' = StatusState
      /\ at = "status" /\ code' # 2 => status' = StatusState
      /\ UNCHANGED <<verdict, known, began, deleted, named, signals, lock, buildVars, relayVars>>
  <2>1. CASE PostComment
    <3>1. PICK reply \in Replies(FALSE) :
            /\ Posting("comment", "status", reply)
            /\ comment' = IF Acted(reply) THEN StatusState ELSE comment
            /\ status' = status
      BY <2>1 DEF PostComment
    <3>. QED
      BY <3>1 DEF Posting, Acted
  <2>2. CASE PostStatus
    <3>1. PICK reply \in Replies(FALSE) :
            /\ Posting("status", "release", reply)
            /\ status' = IF Acted(reply) THEN StatusState ELSE status
            /\ comment' = comment
      BY <2>2 DEF PostStatus
    <3>. QED
      BY <3>1 DEF Posting, Acted
  <2>. QED
    BY <2>1, <2>2
<1>2. /\ lock = "verify" /\ ~cut /\ Post /\ status = "none"
      /\ at = "comment" => comment = "none"
      /\ at = "status" => comment = StatusState
  BY <1>1 DEF Inv, LockInv, ReportInv, Holding
<1>3. /\ StatusState \in {"success", "failure", "error"} /\ StatusState' = StatusState
      /\ verdict = "PASS" => StatusState = "success"
  BY <1>1 DEF StatusState
<1>4. held + GhTime < Lease
  BY <1>1, TimesAssumption, LeaseAssumption DEF Inv, TypeOK, Budget
<1>5. /\ held' \in 0..Lease /\ began \in 0..held' /\ held \in 0..held'
      /\ held' <= held + GhTime
  BY <1>1, <1>4, WithinTimes, TimesAssumption
<1>6. TypeOK'
  BY <1>1, <1>3, <1>5 DEF Inv, TypeOK, Holding, signals, buildVars, relayVars
<1>7. Budget'
  BY <1>1, <1>5, TimesAssumption DEF Inv, TypeOK, Budget, Cleanup, InJourney
<1>8. LockInv' /\ BuildInv'
  BY <1>1, <1>2 DEF Inv, LockInv, BuildInv, Holding, InJourney, Cleanup, signals, buildVars
<1>9. JourneyInv'
  BY <1>1 DEF Inv, JourneyInv, Late, Cleanup, relayVars
<1>10. ReportInv'
  BY <1>1, <1>2, <1>3 DEF Inv, ReportInv, Early, Cleanup, signals
<1>. QED
  BY <1>6, <1>7, <1>8, <1>9, <1>10 DEF Inv

LEMMA ReleaseInv == ASSUME Inv, Release PROVE Inv'
<1>1. /\ at = "release" /\ at' = "exit"
      /\ \/ lock' # "verify" /\ lock' \in {"free", lock} /\ leaked' = leaked
         \/ lock' = lock /\ leaked' = TRUE
  BY DEF Release, Step
<1>2. TypeOK'
  <2>1. lock' \in {"free", "verify", "other"} /\ leaked' \in BOOLEAN
    BY <1>1 DEF Inv, TypeOK
  <2>. QED
    BY <1>1, <2>1 DEF Release, Inv, TypeOK, toolVars, buildVars, relayVars, prVars
<1>3. Budget' /\ LockInv' /\ BuildInv'
  BY <1>1 DEF Release, Inv, Budget, LockInv, BuildInv, Holding, InJourney, Cleanup, buildVars
<1>4. JourneyInv' /\ ReportInv'
  BY <1>1 DEF Release, Inv, JourneyInv, ReportInv, Early, Late, Cleanup, StatusState,
     toolVars, relayVars, prVars
<1>. QED
  BY <1>2, <1>3, <1>4 DEF Inv

LEMMA NextInv == ASSUME Inv, [Next]_vars PROVE Inv'
<1>1. CASE Next
  BY <1>1, OthersInv, DevlockInv, ServiceInv, BeforeJourneyInv, JourneyStepsInv,
     CleanupStepsInv, ConfirmInv, TallyInv, PostingInv, ReleaseInv DEF Next, Tool
<1>2. CASE UNCHANGED vars
  BY <1>2 DEF vars, toolVars, signals, lockVars, buildVars, relayVars, prVars, Inv, TypeOK,
     Budget, LockInv, BuildInv, JourneyInv, ReportInv, StatusState
<1>. QED
  BY <1>1, <1>2

LEMMA InvHolds == Spec => []Inv
BY InitInv, NextInv, PTL DEF Spec

-----------------------------------------------------------------------------
(* The results.                                                            *)

\* Type correctness.
THEOREM VerifyTypeCorrect == Spec => []TypeOK
<1>1. Inv => TypeOK
  BY DEF Inv
<1>. QED
  BY <1>1, InvHolds, PTL

\* lock.go "longer than one journey run": the tool holds the lock for as long as it
\* touches the world, because the lease exceeds the sum of its own limits.
THEOREM VerifyWorldIsOurs == Spec => []WorldIsOurs
<1>1. Inv => WorldIsOurs
  <2>. SUFFICES ASSUME Inv, at \in Holding PROVE held < Lease
    BY DEF Inv, LockInv, WorldIsOurs
  <2>. QED
    BY TimesAssumption, LeaseAssumption DEF Inv, TypeOK, Budget, Holding, InJourney, Cleanup
<1>. QED
  BY <1>1, InvHolds, PTL

\* A status "success" on a commit was earned by a process built from it, whose run of
\* the routine went well, and nothing is left of it.
THEOREM VerifySuccessIsEarned == Spec => []SuccessIsEarned
<1>1. Inv => SuccessIsEarned
  <2>. SUFFICES ASSUME Inv, status = "success"
                PROVE  served = "head" /\ outcome = "good" /\ routine = "gone"
    BY DEF SuccessIsEarned
  <2>1. verdict = "PASS"
    BY DEF Inv, TypeOK, ReportInv, StatusState, Verdicts
  <2>2. at \in Late
    BY DEF Inv, TypeOK, ReportInv, Early, Late, Holding, InJourney, Cleanup
  <2>. QED
    BY <2>1, <2>2 DEF Inv, JourneyInv
<1>. QED
  BY <1>1, InvHolds, PTL

\* The exit code, the comment and the status agree, and an interrupted run posts nothing.
THEOREM VerifyRecordAgrees == Spec => []RecordAgrees
<1>1. Inv => RecordAgrees
  BY DEF Inv, ReportInv, RecordAgrees
<1>. QED
  BY <1>1, InvHolds, PTL

\* What the tool created it deletes or names, unless its name never reached it.
THEOREM VerifyLeftoverIsNamed == Spec => []LeftoverIsNamed
<1>1. Inv => LeftoverIsNamed
  BY DEF Inv, JourneyInv, LeftoverIsNamed, Late
<1>. QED
  BY <1>1, InvHolds, PTL

\* Every way out gives the lock back, unless devlock itself was killed or failed.
THEOREM VerifyLockReleased == Spec => []LockReleased
<1>1. Inv => LockReleased
  BY DEF Inv, LockInv, LockReleased
<1>. QED
  BY <1>1, InvHolds, PTL

=============================================================================
