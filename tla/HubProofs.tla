------------------------------ MODULE HubProofs ------------------------------
(***************************************************************************)
(* Proofs about Hub, for any number of connections and runs: what clients  *)
(* are told is in order, follows the file, and leaves out no run and no    *)
(* end of one.                                                             *)
(***************************************************************************)
EXTENDS Hub, TLAPS

-----------------------------------------------------------------------------
(* What a step does to the frames of a connection: nothing, or one more.   *)

Holds(s, f) == \E i \in DOMAIN s : s[i] = f

\* After a frame is appended, a sequence holds what it held and the frame.
LEMMA HoldsAppend ==
    ASSUME NEW S, NEW s \in Seq(S), NEW f \in S, NEW g
    PROVE  Holds(Append(s, f), g) <=> Holds(s, g) \/ g = f
<1> DEFINE t == Append(s, f)
<1>1. /\ t \in Seq(S) /\ DOMAIN t = 1..(Len(s) + 1) /\ DOMAIN s = 1..Len(s)
      /\ Len(s) \in Nat
      /\ \A i \in 1..Len(s) : t[i] = s[i]
      /\ t[Len(s) + 1] = f
  OBVIOUS
<1> HIDE DEF t
<1>2. ASSUME Holds(t, g)  PROVE Holds(s, g) \/ g = f
  BY <1>1, <1>2 DEF Holds
<1>3. ASSUME Holds(s, g) \/ g = f  PROVE Holds(t, g)
  BY <1>1, <1>3 DEF Holds
<1> QED BY <1>2, <1>3 DEF t

\* A broadcast gives its frame to some of the clients, and the rest leave.
LEMMA BroadcastTells ==
    ASSUME TypeOK, NEW f \in Frames, Broadcast(f)
    PROVE  /\ clients' \subseteq clients
           /\ frames' \in [Conns -> Seq(Frames)]
           /\ link' \in [Conns -> {"up", "mute", "closed"}]
           /\ \A c \in Conns : \/ frames'[c] = Append(frames[c], f)
                               \/ frames'[c] = frames[c] /\ c \notin clients'
           /\ handler' = handler /\ read' = read /\ unsure' = unsure
<1>1. PICK written \in SUBSET {c \in clients : CanWrite(c)} :
        /\ frames' = [c \in Conns |-> IF c \in written THEN Append(frames[c], f)
                                                       ELSE frames[c]]
        /\ link' = [c \in Conns |-> IF c \in clients \ written THEN "closed"
                                                               ELSE link[c]]
        /\ clients' = written
        /\ UNCHANGED <<handler, read, unsure>>
  BY DEF Broadcast
<1>2. \A c \in Conns : frames[c] \in Seq(Frames) /\ Append(frames[c], f) \in Seq(Frames)
  BY DEF TypeOK
<1>3. frames' \in [Conns -> Seq(Frames)]
  BY <1>1, <1>2
<1>4. link' \in [Conns -> {"up", "mute", "closed"}]
  BY <1>1 DEF TypeOK
<1> QED BY <1>1, <1>3, <1>4 DEF TypeOK

-----------------------------------------------------------------------------
(* Type correctness.                                                       *)

LEMMA MishapType ==
    ASSUME TypeOK, Mishap
    PROVE  mishaps' \in 0..MaxMishaps /\ amiss' = TRUE
BY RunsAssumption DEF TypeOK, Mishap

LEMMA TypeStep == TypeOK /\ [Next]_vars => TypeOK'
<1> SUFFICES ASSUME TypeOK, [Next]_vars PROVE TypeOK'
  OBVIOUS
<1> USE RunsAssumption
<1>1. ASSUME NEW c \in Conns, Register(c) PROVE TypeOK'
  BY <1>1 DEF TypeOK, Register, Handles, runVars, fileVars
<1>2. ASSUME NEW c \in Conns, LoadStatus(c) PROVE TypeOK'
  <2>1. (IF file.running /\ ~gone THEN file.run ELSE 0) \in 0..MaxRuns
    BY DEF TypeOK
  <2>2. read' \in [Conns -> 0..MaxRuns]
    BY <1>2, <2>1 DEF TypeOK, LoadStatus
  <2>3. unsure' \in [Conns -> SUBSET Runs]
    <3>1. (IF amiss THEN Announced ELSE {}) \in SUBSET Runs
      BY DEF Announced
    <3> QED BY <1>2, <3>1 DEF TypeOK, LoadStatus
  <2> QED BY <1>2, <2>2, <2>3 DEF TypeOK, LoadStatus, Handles, runVars, fileVars
<1>3. ASSUME NEW c \in Conns, WriteStatus(c) PROVE TypeOK'
  <2>1. /\ frames[c] \in Seq(Frames)
        /\ Frame("status", read[c]) \in Frames
    BY DEF TypeOK, Frames, Frame
  <2>2. Append(frames[c], Frame("status", read[c])) \in Seq(Frames)
    BY <2>1
  <2>3. frames' \in [Conns -> Seq(Frames)]
    BY <1>3, <2>2 DEF TypeOK, WriteStatus
  <2>4. link' \in [Conns -> {"up", "mute", "closed"}]
    BY <1>3 DEF TypeOK, WriteStatus
  <2> QED BY <1>3, <2>3, <2>4 DEF TypeOK, WriteStatus, Handles, runVars, fileVars
<1>4. ASSUME NEW c \in Conns, PumpEnds(c) PROVE TypeOK'
  BY <1>4 DEF TypeOK, PumpEnds, Handles, runVars, fileVars
<1>5. ASSUME NEW c \in Conns, ClientLeaves(c) PROVE TypeOK'
  BY <1>5 DEF TypeOK, ClientLeaves, runVars, fileVars
<1>6. ASSUME NEW n \in Runs, Begin(n) \/ FailToCreate(n) \/ Release(n) PROVE TypeOK'
  BY <1>6 DEF TypeOK, Begin, FailToCreate, Release, Step, connVars, fileVars
<1>7. ASSUME NEW n \in Runs, MarkRunning(n) \/ RecordOutcome(n) PROVE TypeOK'
  <2>1. stage' \in [Runs -> {"new", "mark", "create", "live", "failed", "announce",
                             "release", "done"}]
    BY <1>7 DEF TypeOK, MarkRunning, RecordOutcome, Step
  <2>2. file' \in [run : 0..MaxRuns, running : BOOLEAN] /\ gone' \in BOOLEAN /\ amiss' \in BOOLEAN /\ mishaps' \in 0..MaxMishaps
    <3>1. n \in 0..MaxRuns
      BY DEF Runs
    <3>2. \A b \in BOOLEAN : [run |-> n, running |-> b] \in [run : 0..MaxRuns, running : BOOLEAN]
      BY <3>1
    <3> QED BY <1>7, <3>2, MishapType DEF MarkRunning, RecordOutcome, SetLastRun, TypeOK
  <2> QED BY <1>7, <2>1, <2>2 DEF TypeOK, MarkRunning, RecordOutcome, connVars
<1>8. ASSUME NEW n \in Runs, AnnounceStart(n) \/ AnnounceEnd(n) PROVE TypeOK'
  <2>1. Frame("started", n) \in Frames /\ Frame("ended", n) \in Frames
    BY DEF Frames, Frame
  <2>2. PICK f \in Frames : Broadcast(f)
    BY <1>8, <2>1 DEF AnnounceStart, AnnounceEnd
  <2>3. stage' \in [Runs -> {"new", "mark", "create", "live", "failed", "announce",
                             "release", "done"}]
    BY <1>8 DEF TypeOK, AnnounceStart, AnnounceEnd, Step
  <2>4. /\ clients' \subseteq clients
        /\ frames' \in [Conns -> Seq(Frames)]
        /\ link' \in [Conns -> {"up", "mute", "closed"}]
        /\ handler' = handler /\ read' = read /\ unsure' = unsure
    BY <2>2, BroadcastTells
  <2> QED BY <1>8, <2>3, <2>4 DEF TypeOK, AnnounceStart, AnnounceEnd, fileVars
<1>9. CASE UNCHANGED vars
  BY <1>9 DEF TypeOK, vars, runVars, connVars, fileVars
<1>10. ASSUME DeleteTask \/ PutStatus PROVE TypeOK'
  <2>1. file' \in [run : 0..MaxRuns, running : BOOLEAN]
    BY <1>10 DEF TypeOK, DeleteTask, PutStatus
  <2> QED BY <1>10, <2>1, MishapType DEF TypeOK, DeleteTask, PutStatus, connVars
<1> QED
  BY <1>1, <1>2, <1>3, <1>4, <1>5, <1>6, <1>7, <1>8, <1>9, <1>10 DEF Next, Handler

LEMMA TypeInit == Init => TypeOK
<1> SUFFICES ASSUME Init PROVE TypeOK
  OBVIOUS
<1>1. frames \in [Conns -> Seq(Frames)]
  BY DEF Init
<1>2. file \in [run : 0..MaxRuns, running : BOOLEAN]
  BY RunsAssumption DEF Init
<1>3. read \in [Conns -> 0..MaxRuns] /\ mishaps \in 0..MaxMishaps
  BY RunsAssumption DEF Init
<1> QED BY <1>1, <1>2, <1>3 DEF Init, TypeOK

\* Type correctness: the hub holds connections and no others, frames are well formed.
THEOREM HubTypeCorrect == Spec => []TypeOK
<1> QED BY TypeInit, TypeStep, PTL DEF Spec

-----------------------------------------------------------------------------
(* The runs by themselves: they go one by one, and the file is that of the *)
(* last to have written it, unless it is amiss.                            *)

InOrder == \A m, n \in Runs : m < n /\ stage[n] # "new" => stage[m] = "done"
Claims  == \A n \in Runs : stage[n] \notin {"new", "done"} => claimed
Deleted == gone => amiss
FileIsLatest ==
    ~amiss => \A n \in Runs :
        /\ stage[n] \notin {"new", "mark"} => file.run >= n
        /\ stage[n] \in {"create", "live", "failed"} => file = [run |-> n, running |-> TRUE]
        /\ stage[n] \in {"announce", "release", "done"} => file # [run |-> n, running |-> TRUE]

RunInv == TypeOK /\ InOrder /\ Claims /\ Deleted /\ FileIsLatest

\* A step of a run: n goes from one stage to another, the others stay where they are.
Goes(n, from, to) ==
    /\ stage[n] = from /\ stage'[n] = to
    /\ \A m \in Runs \ {n} : stage'[m] = stage[m]

LEMMA StepGoes ==
    ASSUME TypeOK, NEW n \in Runs, NEW from, NEW to, Step(n, from, to)
    PROVE  Goes(n, from, to)
BY DEF TypeOK, Step, Goes

\* While a run is under way, those before it are done and those after it are new.
LEMMA OnlyOne ==
    ASSUME RunInv, NEW n \in Runs, stage[n] \notin {"new", "done"}, NEW m \in Runs
    PROVE  /\ m < n => stage[m] = "done"
           /\ m > n => stage[m] = "new"
BY DEF RunInv, InOrder

LEMMA RunStep == RunInv /\ [Next]_vars => RunInv'
<1> SUFFICES ASSUME RunInv, [Next]_vars PROVE RunInv'
  OBVIOUS
<1> USE DEF RunInv
<1>0. TypeOK'
  BY TypeStep
<1>a. \A m, n \in Runs : m \in Nat /\ n \in Nat /\ (m # n => m < n \/ n < m)
  BY RunsAssumption DEF Runs
<1>1. ASSUME UNCHANGED runVars PROVE RunInv'
  <2>1. InOrder' /\ Claims'
    BY <1>1 DEF runVars, InOrder, Claims
  <2>2. FileIsLatest' /\ Deleted'
    BY <1>1 DEF runVars, fileVars, FileIsLatest, Deleted
  <2> QED BY <1>0, <2>1, <2>2
<1>2. ASSUME NEW n \in Runs, Begin(n) PROVE RunInv'
  <2>1. Goes(n, "new", "mark") /\ claimed' /\ ~claimed /\ UNCHANGED fileVars
    BY <1>2, StepGoes DEF Begin
  <2>2. \A m \in Runs : stage[m] \in {"new", "done"}
    BY <2>1 DEF Claims
  <2>3. \A m \in Runs : m < n => stage[m] = "done"
    BY <1>2, <1>a, <2>2 DEF Begin, Runs
  <2>4. \A m \in Runs : n < m => stage[m] = "new"
    BY <2>1 DEF InOrder, Goes
  <2>5. InOrder'
    BY <1>a, <2>1, <2>3, <2>4 DEF InOrder, Goes
  <2>6. Claims'
    BY <2>1 DEF Claims
  <2>7. FileIsLatest' /\ Deleted'
    BY <2>1 DEF FileIsLatest, Goes, fileVars, Deleted
  <2> QED BY <1>0, <2>5, <2>6, <2>7
<1>3. ASSUME NEW n \in Runs, Release(n) PROVE RunInv'
  <2>1. Goes(n, "release", "done") /\ UNCHANGED fileVars
    BY <1>3, StepGoes DEF Release
  <2>2. \A m \in Runs : /\ m < n => stage[m] = "done"
                        /\ m > n => stage[m] = "new"
    BY <2>1, OnlyOne DEF Goes
  <2>3. InOrder'
    BY <1>a, <2>1, <2>2 DEF InOrder, Goes
  <2>4. Claims'
    BY <1>a, <2>1, <2>2 DEF Claims, Goes
  <2>5. FileIsLatest' /\ Deleted'
    BY <2>1 DEF FileIsLatest, Goes, fileVars, Deleted
  <2> QED BY <1>0, <2>3, <2>4, <2>5
<1>4. ASSUME NEW n \in Runs, NEW from, NEW to, Goes(n, from, to),
             from \notin {"new", "done"}, to \notin {"new", "done"},
             claimed' = claimed
      PROVE  InOrder' /\ Claims'
  <2>1. \A m \in Runs : /\ m < n => stage[m] = "done"
                        /\ m > n => stage[m] = "new"
    BY <1>4, OnlyOne DEF Goes
  <2>2. InOrder'
    BY <1>a, <1>4, <2>1 DEF InOrder, Goes
  <2> QED BY <1>4, <2>2 DEF Claims, Goes
<1>5. ASSUME NEW n \in Runs, NEW from, NEW to, Goes(n, from, to),
             from \notin {"new", "done", "mark"}, to \notin {"new", "done", "mark"},
             UNCHANGED fileVars,
             to \in {"create", "live", "failed"} => from \in {"create", "live", "failed"},
             to \in {"announce", "release", "done"} => from \in {"announce", "release", "done"}
      PROVE  FileIsLatest' /\ Deleted'
  BY <1>5 DEF FileIsLatest, Goes, fileVars, Deleted
<1>6. ASSUME NEW n \in Runs, AnnounceStart(n) \/ FailToCreate(n) \/ AnnounceEnd(n) PROVE RunInv'
  <2>1. PICK from, to :
          /\ Goes(n, from, to)
          /\ \/ from = "create" /\ to \in {"live", "failed"}
             \/ from = "announce" /\ to = "release"
    BY <1>6, StepGoes DEF AnnounceStart, FailToCreate, AnnounceEnd
  <2>2. UNCHANGED fileVars /\ claimed' = claimed
    BY <1>6 DEF AnnounceStart, FailToCreate, AnnounceEnd
  <2>3. InOrder' /\ Claims'
    BY <2>1, <2>2, <1>4
  <2>4. FileIsLatest' /\ Deleted'
    BY <2>1, <2>2, <1>5
  <2> QED BY <1>0, <2>3, <2>4
<1>7. ASSUME NEW n \in Runs, MarkRunning(n) \/ RecordOutcome(n) PROVE RunInv'
  <2>1. PICK from, to :
          /\ Goes(n, from, to)
          /\ claimed' = claimed
          /\ \/ /\ from = "mark" /\ to = "create"
                /\ SetLastRun(n, TRUE)
             \/ /\ from \in {"live", "failed"} /\ to = "announce"
                /\ SetLastRun(n, FALSE)
    BY <1>7, StepGoes DEF MarkRunning, RecordOutcome
  <2>2. InOrder' /\ Claims'
    BY <2>1, <1>4
  <2>3. \A m \in Runs : /\ m < n => stage'[m] = "done"
                        /\ m > n => stage'[m] = "new"
    BY <2>1, <1>a, OnlyOne DEF Goes
  <2>4. stage'[n] = to
    BY <2>1 DEF Goes
  <2>5. ASSUME NEW b \in BOOLEAN, SetLastRun(n, b)
        PROVE  amiss' \/ (~gone' /\ file' = [run |-> n, running |-> b])
    <3>1. CASE gone
      BY <2>5, <3>1 DEF SetLastRun, Mishap, Deleted
    <3>2. CASE ~gone
      BY <2>5, <3>2 DEF SetLastRun, Mishap
    <3> QED BY <3>1, <3>2
  <2>6. CASE amiss'
    BY <1>0, <2>2, <2>6 DEF FileIsLatest, Deleted
  <2>7. CASE ~amiss'
    <3>1. /\ ~gone'
          /\ \/ to = "create" /\ file' = [run |-> n, running |-> TRUE]
             \/ to = "announce" /\ file' = [run |-> n, running |-> FALSE]
      BY <2>1, <2>5, <2>7
    <3>2. file'.run = n
      BY <3>1
    <3>3. ASSUME NEW m \in Runs, m # n, stage'[m] # "new"
          PROVE  stage'[m] = "done" /\ file'.run >= m /\ file'.run # m
      BY <1>a, <2>3, <3>2, <3>3
    <3>4. FileIsLatest'
      BY <1>a, <2>4, <3>1, <3>2, <3>3 DEF FileIsLatest
    <3> QED BY <1>0, <2>2, <3>1, <3>4 DEF Deleted
  <2> QED BY <2>6, <2>7
<1>9. ASSUME DeleteTask \/ PutStatus PROVE RunInv'
  <2>1. amiss' /\ UNCHANGED <<claimed, stage>>
    BY <1>9 DEF DeleteTask, PutStatus, Mishap
  <2> QED BY <1>0, <2>1 DEF InOrder, Claims, Deleted, FileIsLatest
<1>8. ASSUME NEW c \in Conns, Handler(c) \/ ClientLeaves(c) PROVE UNCHANGED runVars
  BY <1>8 DEF Handler, ClientLeaves, Register, LoadStatus, WriteStatus, PumpEnds
<1> QED
  BY <1>1, <1>2, <1>3, <1>6, <1>7, <1>8, <1>9 DEF Next, vars

LEMMA RunInit == Init => RunInv
BY TypeInit DEF Init, RunInv, InOrder, Claims, FileIsLatest, Deleted

-----------------------------------------------------------------------------
(* What has been told, and what the handlers are about to tell.            *)

Told ==
    \A c \in Conns, n \in Runs :
        /\ Got(c, "started", n) => stage[n] \in {"live", "announce", "release", "done"}
        /\ Got(c, "ended", n) => stage[n] \in {"release", "done"}

Serves ==
    \A c \in Conns :
        /\ c \in clients => handler[c] \in {"load", "write", "pump"}
        /\ HasStatus(c) => handler[c] \in {"pump", "done"}
        /\ handler[c] = "new" => frames[c] = <<>>
        /\ handler[c] \in {"new", "load"} => unsure[c] = {}

\* What was read and not yet written is completed by the events since.
ReadIsTimely ==
    \A c \in clients : \A n \in Runs \ unsure[c] : handler[c] = "write" =>
        /\ stage[n] = "live" => read[c] = n \/ Got(c, "started", n)
        /\ read[c] = n /\ stage[n] \in {"release", "done"} => Got(c, "ended", n)

Inv == RunInv /\ Told /\ Serves /\ ReadIsTimely /\ EventsInOrder /\ NoRunUnheard /\ EndIsHeard

LEMMA GotMore ==
    ASSUME TypeOK, NEW c \in Conns, NEW f \in Frames, frames'[c] = Append(frames[c], f),
           NEW type, NEW n
    PROVE  Got(c, type, n)' <=> Got(c, type, n) \/ Frame(type, n) = f
<1>1. frames[c] \in Seq(Frames)
  BY DEF TypeOK
<1> QED BY <1>1, HoldsAppend DEF Got, Holds, Frame

LEMMA GotSame ==
    ASSUME NEW c \in Conns, frames'[c] = frames[c], NEW type, NEW n
    PROVE  Got(c, type, n)' <=> Got(c, type, n)
BY DEF Got, Frame

LEMMA FramesDiffer ==
    \A type1, type2, n1, n2 : Frame(type1, n1) = Frame(type2, n2) <=> type1 = type2 /\ n1 = n2
BY DEF Frame

\* Events(s): the events among the frames s are in order.
Events(s) ==
    \A i, j \in DOMAIN s :
        LET a == s[i]
            b == s[j]
        IN i < j /\ a.type # "status" /\ b.type # "status" =>
               a.run < b.run \/ (a.run = b.run /\ a.type = "started" /\ b.type = "ended")

LEMMA EventsAppend ==
    ASSUME NEW s \in Seq(Frames), NEW f \in Frames, Events(s),
           f.type # "status" =>
               \A i \in DOMAIN s :
                   \/ s[i].type = "status"
                   \/ s[i].run < f.run
                   \/ s[i].run = f.run /\ s[i].type = "started" /\ f.type = "ended"
    PROVE  Events(Append(s, f))
<1> DEFINE t == Append(s, f)
<1>1. /\ DOMAIN t = 1..(Len(s) + 1) /\ DOMAIN s = 1..Len(s) /\ Len(s) \in Nat
      /\ \A i \in 1..Len(s) : t[i] = s[i]
      /\ t[Len(s) + 1] = f
  OBVIOUS
<1> HIDE DEF t
<1>2. SUFFICES ASSUME NEW i \in DOMAIN t, NEW j \in DOMAIN t, i < j,
                      t[i].type # "status", t[j].type # "status"
               PROVE  \/ t[i].run < t[j].run
                      \/ t[i].run = t[j].run /\ t[i].type = "started" /\ t[j].type = "ended"
  BY DEF t, Events
<1>3. i \in DOMAIN s /\ t[i] = s[i]
  BY <1>1, <1>2
<1>4. CASE j = Len(s) + 1
  BY <1>1, <1>2, <1>3, <1>4
<1>5. CASE j # Len(s) + 1
  <2>1. j \in DOMAIN s /\ t[j] = s[j]
    BY <1>1, <1>5
  <2> QED BY <1>2, <1>3, <2>1 DEF Events
<1> QED BY <1>4, <1>5

\* A frame that a connection has got is at some place among its frames, and conversely.
LEMMA EventGot ==
    ASSUME TypeOK, NEW c \in Conns, NEW i \in DOMAIN frames[c], frames[c][i].type # "status"
    PROVE  /\ frames[c][i].type \in {"started", "ended"}
           /\ frames[c][i].run \in Runs
           /\ Got(c, frames[c][i].type, frames[c][i].run)
<1>1. frames[c][i] \in Frames
  BY DEF TypeOK
<1>2. frames[c][i] \in [type : {"started", "ended"}, run : Runs]
  BY <1>1 DEF Frames
<1>3. frames[c][i] = Frame(frames[c][i].type, frames[c][i].run)
  BY <1>2 DEF Frame
<1> QED BY <1>2, <1>3 DEF Got

-----------------------------------------------------------------------------
(* Steps that write no frame.                                              *)

LEMMA QuietStep ==
    ASSUME Inv, TypeOK', frames' = frames,
           \A n \in Runs :
               /\ stage'[n] = "live" => stage[n] = "live"
               /\ stage[n] \in {"live", "announce", "release", "done"} =>
                      stage'[n] \in {"live", "announce", "release", "done"}
               /\ stage'[n] \in {"release", "done"} <=> stage[n] \in {"release", "done"},
           \/ UNCHANGED <<clients, handler, read, unsure>>
           \/ UNCHANGED stage /\ \E c \in Conns : Register(c) \/ LoadStatus(c) \/ PumpEnds(c)
    PROVE  Told' /\ Serves' /\ ReadIsTimely' /\ EventsInOrder' /\ NoRunUnheard' /\ EndIsHeard'
<1>0. TypeOK /\ RunInv
  BY DEF Inv, RunInv
<1>1. \A c \in Conns : \A type, n : Got(c, type, n)' <=> Got(c, type, n)
  BY DEF Got, Frame
<1>2. \A c \in Conns : /\ HasStatus(c)' <=> HasStatus(c)
                       /\ \A n : Heard(c, n)' <=> Heard(c, n)
  BY <1>1 DEF HasStatus, Heard
<1>3. Told' /\ EventsInOrder'
  BY <1>1 DEF Inv, Told, EventsInOrder
<1>4. CASE UNCHANGED <<clients, handler, read, unsure>>
  <2>1. Serves'
    BY <1>2, <1>4 DEF Inv, Serves
  <2>2. ReadIsTimely'
    BY <1>0, <1>1, <1>4 DEF Inv, ReadIsTimely, TypeOK
  <2>3. NoRunUnheard' /\ EndIsHeard'
    BY <1>0, <1>1, <1>2, <1>4 DEF Inv, NoRunUnheard, EndIsHeard, TypeOK
  <2> QED BY <1>3, <2>1, <2>2, <2>3
<1>5. ASSUME NEW c \in Conns, Register(c), UNCHANGED stage
      PROVE  Serves' /\ ReadIsTimely' /\ NoRunUnheard' /\ EndIsHeard'
  <2>1. /\ handler[c] = "new" /\ handler'[c] = "load"
        /\ \A d \in Conns \ {c} : handler'[d] = handler[d]
        /\ clients' = clients \cup {c} /\ read' = read /\ unsure' = unsure
    BY <1>0, <1>5 DEF Register, Handles, TypeOK
  <2>2. frames[c] = <<>> /\ ~HasStatus(c)
    BY <2>1 DEF Inv, Serves
  <2>3. \A n : ~Heard(c, n)
    BY <2>2 DEF Heard, Got
  <2>4. Serves'
    BY <1>2, <2>1, <2>2 DEF Inv, Serves
  <2>5. ReadIsTimely'
    BY <1>0, <1>1, <1>5, <2>1 DEF Inv, ReadIsTimely, TypeOK
  <2>6. NoRunUnheard' /\ EndIsHeard'
    BY <1>0, <1>1, <1>2, <1>5, <2>1, <2>2, <2>3 DEF Inv, NoRunUnheard, EndIsHeard, TypeOK
  <2> QED BY <2>4, <2>5, <2>6
<1>6. ASSUME NEW c \in Conns, LoadStatus(c), UNCHANGED stage
      PROVE  Serves' /\ ReadIsTimely' /\ NoRunUnheard' /\ EndIsHeard'
  <2>1. /\ handler[c] = "load" /\ handler'[c] \in {"write", "pump"}
        /\ \A d \in Conns \ {c} : /\ handler'[d] = handler[d] /\ read'[d] = read[d]
                                 /\ unsure'[d] = unsure[d]
        /\ handler'[c] = "write" =>
              /\ read'[c] = IF file.running /\ ~gone THEN file.run ELSE 0
              /\ amiss => unsure'[c] = Announced
        /\ clients' = clients
    BY <1>0, <1>6 DEF LoadStatus, Handles, TypeOK
  <2>2. Serves'
    BY <1>2, <2>1 DEF Inv, Serves
  <2>3. ASSUME NEW n \in Runs, n \notin unsure'[c], handler'[c] = "write"
        PROVE  /\ stage[n] = "live" => read'[c] = n
               /\ read'[c] = n => stage[n] \notin {"release", "done"}
    <3>1. file \in [run : 0..MaxRuns, running : BOOLEAN] /\ n # 0
      BY <1>0, RunsAssumption DEF TypeOK, Runs
    <3>2. file.running /\ file.run = n => file = [run |-> n, running |-> TRUE]
      BY <3>1
    <3>3. amiss => stage[n] \notin {"live", "announce", "release", "done"}
      BY <2>1, <2>3 DEF Announced
    <3>4. ~amiss /\ stage[n] \in {"create", "live", "failed"} =>
              ~gone /\ file = [run |-> n, running |-> TRUE]
      BY <1>0 DEF RunInv, FileIsLatest, Deleted
    <3>5. ~amiss /\ stage[n] \in {"announce", "release", "done"} =>
              file # [run |-> n, running |-> TRUE]
      BY <1>0 DEF RunInv, FileIsLatest
    <3>6. CASE amiss
      BY <3>3, <3>6
    <3>7. CASE ~amiss
      BY <2>1, <2>3, <3>1, <3>2, <3>4, <3>5, <3>7
    <3> QED BY <3>6, <3>7
  <2>4. ReadIsTimely'
    BY <1>0, <1>1, <1>6, <2>1, <2>3 DEF Inv, ReadIsTimely, TypeOK
  <2>5. NoRunUnheard' /\ EndIsHeard'
    <3>1. ~HasStatus(c) /\ unsure[c] = {}
      BY <2>1 DEF Inv, Serves
    <3>2. \A d \in Conns : \A n \in Runs \ unsure'[d] : n \in Runs \ unsure[d]
      BY <2>1, <3>1
    <3> QED BY <1>0, <1>1, <1>2, <1>6, <2>1, <3>1, <3>2 DEF Inv, NoRunUnheard, EndIsHeard, TypeOK
  <2> QED BY <2>2, <2>4, <2>5
<1>7. ASSUME NEW c \in Conns, PumpEnds(c), UNCHANGED stage
      PROVE  Serves' /\ ReadIsTimely' /\ NoRunUnheard' /\ EndIsHeard'
  <2>1. /\ handler[c] = "pump" /\ handler'[c] = "done"
        /\ \A d \in Conns \ {c} : handler'[d] = handler[d]
        /\ clients' = clients \ {c} /\ read' = read /\ unsure' = unsure
    BY <1>0, <1>7 DEF PumpEnds, Handles, TypeOK
  <2>2. Serves'
    BY <1>2, <2>1 DEF Inv, Serves
  <2>3. ReadIsTimely'
    BY <1>0, <1>1, <1>7, <2>1 DEF Inv, ReadIsTimely, TypeOK
  <2>4. NoRunUnheard' /\ EndIsHeard'
    BY <1>0, <1>1, <1>2, <1>7, <2>1 DEF Inv, NoRunUnheard, EndIsHeard, TypeOK
  <2> QED BY <2>2, <2>3, <2>4
<1> QED BY <1>3, <1>4, <1>5, <1>6, <1>7

-----------------------------------------------------------------------------
(* Steps that write one.                                                   *)

LEMMA WriteStep ==
    ASSUME Inv, TypeOK', NEW c \in Conns, WriteStatus(c)
    PROVE  Told' /\ Serves' /\ ReadIsTimely' /\ EventsInOrder' /\ NoRunUnheard' /\ EndIsHeard'
<1> DEFINE f == Frame("status", read[c])
<1>0. TypeOK /\ RunInv /\ f \in Frames
  BY DEF Inv, RunInv, TypeOK, Frames, Frame
<1>1. /\ handler[c] = "write" /\ handler'[c] = "pump"
      /\ \A d \in Conns \ {c} : handler'[d] = handler[d]
      /\ clients' = clients /\ read' = read /\ unsure' = unsure /\ stage' = stage
      /\ \A d \in Conns \ {c} : frames'[d] = frames[d]
      /\ frames'[c] = frames[c] \/ frames'[c] = Append(frames[c], f)
  BY <1>0 DEF WriteStatus, Handles, TypeOK, runVars
<1>2. \A d \in Conns \ {c} : \A type, n : Got(d, type, n)' <=> Got(d, type, n)
  BY <1>1, GotSame
<1>3. \A type, n : Got(c, type, n)' <=>
          Got(c, type, n) \/ (frames'[c] # frames[c] /\ type = "status" /\ n = read[c])
  <2>1. CASE frames'[c] = frames[c]
    BY <2>1, GotSame
  <2>2. CASE frames'[c] = Append(frames[c], f)
    <3>1. frames[c] \in Seq(Frames)
      BY <1>0 DEF TypeOK
    <3>2. frames'[c] # frames[c]
      BY <2>2, <3>1, <1>0
    <3> QED BY <1>0, <2>2, <3>2, GotMore, FramesDiffer
  <2> QED BY <1>1, <2>1, <2>2
<1>4. \A d \in Conns : \A type \in {"started", "ended"} : \A n :
          Got(d, type, n)' <=> Got(d, type, n)
  BY <1>2, <1>3
<1>5. \A d \in Conns \ {c} : /\ HasStatus(d)' <=> HasStatus(d)
                             /\ \A n : Heard(d, n)' <=> Heard(d, n)
  BY <1>2 DEF HasStatus, Heard
<1>6. ~HasStatus(c) /\ \A n \in Runs : ~Got(c, "status", n)
  BY <1>1, RunsAssumption DEF Inv, Serves, HasStatus, Runs
<1>7. /\ HasStatus(c)' => frames'[c] # frames[c]
      /\ \A n \in Runs : Heard(c, n)' <=>
              Got(c, "started", n) \/ (frames'[c] # frames[c] /\ n = read[c])
  BY <1>3, <1>6 DEF HasStatus, Heard
<1>8. Told'
  BY <1>1, <1>4 DEF Inv, Told
<1>9. Serves'
  BY <1>1, <1>5 DEF Inv, Serves
<1>10. ReadIsTimely'
  BY <1>0, <1>1, <1>4 DEF Inv, ReadIsTimely, TypeOK
<1>11. NoRunUnheard'
  <2> SUFFICES ASSUME NEW d \in clients', NEW n \in Runs \ unsure'[d], HasStatus(d)',
                      stage'[n] = "live"
               PROVE  Heard(d, n)'
    BY DEF NoRunUnheard
  <2>1. d \in clients /\ d \in Conns /\ stage[n] = "live" /\ n \in Runs \ unsure[d]
    BY <1>0, <1>1 DEF TypeOK
  <2>2. CASE d = c
    BY <1>1, <1>7, <2>1, <2>2 DEF Inv, ReadIsTimely
  <2>3. CASE d # c
    BY <1>5, <2>1, <2>3 DEF Inv, NoRunUnheard
  <2> QED BY <2>2, <2>3
<1>12. EndIsHeard'
  <2> SUFFICES ASSUME NEW d \in clients', NEW n \in Runs \ unsure'[d], Heard(d, n)',
                      stage'[n] \in {"release", "done"}
               PROVE  Got(d, "ended", n)'
    BY DEF EndIsHeard
  <2>1. d \in clients /\ d \in Conns /\ stage[n] \in {"release", "done"}
    BY <1>0, <1>1 DEF TypeOK
  <2>2. Heard(d, n) \/ (d = c /\ n = read[c])
    BY <1>5, <1>7, <2>1 DEF Heard
  <2>3. Got(d, "ended", n)
    BY <1>1, <2>1, <2>2 DEF Inv, EndIsHeard, ReadIsTimely
  <2> QED BY <1>4, <2>1, <2>3
<1>13. EventsInOrder'
  <2>1. SUFFICES ASSUME NEW d \in Conns PROVE Events(frames'[d])
    BY DEF EventsInOrder, Events
  <2>2. Events(frames[d]) /\ frames[d] \in Seq(Frames)
    BY <1>0 DEF Inv, EventsInOrder, Events, TypeOK
  <2>3. f.type = "status"
    BY DEF Frame
  <2> HIDE DEF f
  <2> QED BY <1>0, <1>1, <2>2, <2>3, EventsAppend
<1> QED BY <1>8, <1>9, <1>10, <1>11, <1>12, <1>13

\* An event of the run that has the claim comes after all that were sent before.
LEMMA EventStep ==
    ASSUME Inv, TypeOK', NEW n \in Runs, AnnounceStart(n) \/ AnnounceEnd(n)
    PROVE  Told' /\ Serves' /\ ReadIsTimely' /\ EventsInOrder' /\ NoRunUnheard' /\ EndIsHeard'
<1> PICK type \in {"started", "ended"} :
      /\ Broadcast(Frame(type, n))
      /\ IF type = "started" THEN Goes(n, "create", "live") ELSE Goes(n, "announce", "release")
  BY StepGoes DEF AnnounceStart, AnnounceEnd, Inv, RunInv
<1> DEFINE f == Frame(type, n)
<1>0. TypeOK /\ RunInv /\ f \in Frames
  BY DEF Inv, RunInv, Frames, Frame
<1>a. \A m \in Runs : m \in Nat /\ n \in Nat /\ (m # n => m < n \/ n < m) /\ n # 0
  BY RunsAssumption DEF Runs
<1>1. /\ clients' \subseteq clients
      /\ \A c \in Conns : \/ frames'[c] = Append(frames[c], f)
                          \/ frames'[c] = frames[c] /\ c \notin clients'
      /\ handler' = handler /\ read' = read /\ unsure' = unsure
  BY <1>0, BroadcastTells
<1>2. \A c \in Conns : \A u, m :
          /\ Got(c, u, m) => Got(c, u, m)'
          /\ Got(c, u, m)' => Got(c, u, m) \/ (u = type /\ m = n)
          /\ c \in clients' => Got(c, type, n)'
  BY <1>0, <1>1, GotMore, GotSame, FramesDiffer
<1>3. \A c \in Conns : HasStatus(c)' <=> HasStatus(c)
  BY <1>2 DEF HasStatus
<1>4. \A c \in Conns : \A m \in Runs :
          Heard(c, m)' => Heard(c, m) \/ (type = "started" /\ m = n)
  BY <1>2 DEF Heard
<1>5. \A m \in Runs : /\ m < n => stage[m] = "done"
                      /\ m > n => stage[m] = "new"
  BY <1>0, OnlyOne DEF Goes
<1>6. Told'
  BY <1>2 DEF Inv, Told, Goes
<1>7. Serves'
  <2>1. \A c \in Conns : handler[c] = "new" => frames'[c] = frames[c] \/ c \in clients
    BY <1>0, <1>1 DEF Inv, Serves, TypeOK, Broadcast
  <2> QED BY <1>1, <1>3, <2>1 DEF Inv, Serves
<1>8. ReadIsTimely'
  BY <1>0, <1>1, <1>2 DEF Inv, ReadIsTimely, Goes, TypeOK
<1>9. NoRunUnheard'
  BY <1>0, <1>1, <1>2, <1>3 DEF Inv, NoRunUnheard, Heard, Goes, TypeOK
<1>10. EndIsHeard'
  BY <1>0, <1>1, <1>2, <1>4 DEF Inv, EndIsHeard, Goes, TypeOK
<1>11. EventsInOrder'
  <2>1. SUFFICES ASSUME NEW c \in Conns PROVE Events(frames'[c])
    BY DEF EventsInOrder, Events
  <2>2. Events(frames[c]) /\ frames[c] \in Seq(Frames)
    BY <1>0 DEF Inv, EventsInOrder, Events, TypeOK
  <2>3. f.type = type /\ f.run = n
    BY DEF Frame
  <2>4. ASSUME NEW i \in DOMAIN frames[c], frames[c][i].type # "status"
        PROVE  \/ frames[c][i].run < n
               \/ frames[c][i].run = n /\ frames[c][i].type = "started" /\ type = "ended"
    <3> DEFINE u == frames[c][i].type
               m == frames[c][i].run
    <3>1. u \in {"started", "ended"} /\ m \in Runs /\ Got(c, u, m)
      BY <1>0, <2>4, EventGot
    <3> HIDE DEF u, m
    <3>2. stage[m] \in {"live", "announce", "release", "done"}
          /\ (u = "ended" => stage[m] \in {"release", "done"})
      BY <3>1 DEF Inv, Told
    <3>3. ~(m > n)
      BY <1>5, <3>1, <3>2
    <3>4. m = n => u = "started" /\ type = "ended"
      BY <3>1, <3>2 DEF Goes
    <3>5. m < n \/ (m = n /\ u = "started" /\ type = "ended")
      BY <1>a, <3>1, <3>3, <3>4
    <3> QED BY <3>5 DEF u, m
  <2> HIDE DEF f
  <2> QED BY <1>0, <1>1, <2>2, <2>3, <2>4, EventsAppend
<1> QED BY <1>6, <1>7, <1>8, <1>9, <1>10, <1>11

LEMMA InvStep == Inv /\ [Next]_vars => Inv'
<1> SUFFICES ASSUME Inv, [Next]_vars PROVE Inv'
  OBVIOUS
<1>1. RunInv /\ RunInv' /\ TypeOK'
  BY RunStep DEF Inv, RunInv
<1>2. ASSUME NEW c \in Conns, Register(c) \/ LoadStatus(c) \/ PumpEnds(c)
      PROVE  Inv'
  <2>1. UNCHANGED <<frames, stage>>
    BY <1>2 DEF Register, LoadStatus, PumpEnds, runVars
  <2> QED BY <1>1, <1>2, <2>1, QuietStep DEF Inv
<1>3. ASSUME NEW c \in Conns, ClientLeaves(c)
      PROVE  Inv'
  <2>1. UNCHANGED <<frames, stage, clients, handler, read, unsure>>
    BY <1>3 DEF ClientLeaves, runVars
  <2> QED BY <1>1, <2>1, QuietStep DEF Inv
<1>4. ASSUME NEW c \in Conns, WriteStatus(c)
      PROVE  Inv'
  BY <1>1, <1>4, WriteStep DEF Inv
<1>5. ASSUME NEW n \in Runs, AnnounceStart(n) \/ AnnounceEnd(n)
      PROVE  Inv'
  BY <1>1, <1>5, EventStep DEF Inv
<1>6. ASSUME NEW n \in Runs,
             Begin(n) \/ MarkRunning(n) \/ FailToCreate(n) \/ RecordOutcome(n) \/ Release(n)
      PROVE  Inv'
  <2>1. UNCHANGED <<frames, clients, handler, read, unsure>>
    BY <1>6 DEF Begin, MarkRunning, FailToCreate, RecordOutcome, Release, connVars
  <2>2. PICK from, to :
          /\ Goes(n, from, to)
          /\ <<from, to>> \in {<<"new", "mark">>, <<"mark", "create">>, <<"create", "failed">>,
                               <<"live", "announce">>, <<"failed", "announce">>,
                               <<"release", "done">>}
    BY <1>1, <1>6, StepGoes DEF Begin, MarkRunning, FailToCreate, RecordOutcome, Release, RunInv
  <2>3. \A m \in Runs :
          /\ stage'[m] = "live" => stage[m] = "live"
          /\ stage[m] \in {"live", "announce", "release", "done"} =>
                 stage'[m] \in {"live", "announce", "release", "done"}
          /\ stage'[m] \in {"release", "done"} <=> stage[m] \in {"release", "done"}
    BY <2>2 DEF Goes
  <2> QED BY <1>1, <2>1, <2>3, QuietStep DEF Inv
<1>7. CASE UNCHANGED vars
  <2>1. UNCHANGED <<frames, stage, clients, handler, read, unsure>>
    BY <1>7 DEF vars, runVars, connVars
  <2> QED BY <1>1, <2>1, QuietStep DEF Inv
<1>8. ASSUME DeleteTask \/ PutStatus
      PROVE  Inv'
  <2>1. UNCHANGED <<frames, stage, clients, handler, read, unsure>>
    BY <1>8 DEF DeleteTask, PutStatus, connVars
  <2> QED BY <1>1, <2>1, QuietStep DEF Inv
<1> QED
  BY <1>2, <1>3, <1>4, <1>5, <1>6, <1>7, <1>8 DEF Next, Handler

LEMMA InvInit == Init => Inv
<1> SUFFICES ASSUME Init PROVE Inv
  OBVIOUS
<1>1. RunInv
  BY RunInit
<1>2. \A c \in Conns : /\ frames[c] = <<>> /\ handler[c] = "new" /\ c \notin clients
                     /\ unsure[c] = {}
  BY DEF Init
<1>3. \A c \in Conns : \A type, n : ~Got(c, type, n)
  BY <1>2 DEF Got
<1>4. Told /\ Serves /\ EventsInOrder
  BY <1>2, <1>3 DEF Told, Serves, HasStatus, EventsInOrder
<1>5. clients = {}
  BY DEF Init
<1> QED BY <1>1, <1>4, <1>5 DEF Inv, ReadIsTimely, NoRunUnheard, EndIsHeard

LEMMA InvHolds == Spec => []Inv
BY InvInit, InvStep, PTL DEF Spec

\* A registered client that has its status has been told of every run that is live, save
\* those announced before its status was read from a file that was amiss.
THEOREM HubNoRunUnheard == Spec => []NoRunUnheard
<1>1. Inv => NoRunUnheard
  BY DEF Inv
<1> QED BY <1>1, InvHolds, PTL

\* A client that was told of a run is told of its end while it is registered; the same
\* runs aside.
THEOREM HubEndIsHeard == Spec => []EndIsHeard
<1>1. Inv => EndIsHeard
  BY DEF Inv
<1> QED BY <1>1, InvHolds, PTL

\* Events come in the order of the runs, a start before its end.
THEOREM HubEventsInOrder == Spec => []EventsInOrder
<1>1. Inv => EventsInOrder
  BY DEF Inv
<1> QED BY <1>1, InvHolds, PTL

\* The file is never behind an event, unless a write failed, the task is gone or a client
\* has written a status of its own.
THEOREM HubEventsFollowFile == Spec => []EventsFollowFile
<1>1. Inv => EventsFollowFile
  <2> SUFFICES ASSUME Inv, ~amiss, NEW c \in Conns, NEW n \in Runs
               PROVE  /\ Got(c, "started", n) => file.run >= n
                      /\ Got(c, "ended", n) => file # [run |-> n, running |-> TRUE]
    BY DEF EventsFollowFile
  <2> QED BY DEF Inv, RunInv, Told, FileIsLatest
<1> QED BY <1>1, InvHolds, PTL

=============================================================================
