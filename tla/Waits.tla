-------------------------------- MODULE Waits --------------------------------
(***************************************************************************)
(* How a run waits for its end (client.go): RunChatAndWait joins the chat  *)
(* session over relay's WebSocket, sends the prompt and puts the reply     *)
(* together from the frames that come back; AttachTerminalAndWait joins    *)
(* the terminal and waits for its exit code.  What TaskRun has as the one  *)
(* step WaitEnds is here frame by frame.                                   *)
(*                                                                         *)
(* Relay is the environment: it reads what was written when it likes,      *)
(* streams the turn, sends frames of other sessions over the same          *)
(* connection, and may drop it.                                            *)
(***************************************************************************)
EXTENDS Naturals, Sequences

CONSTANTS
    Timeout,    \* maxDurationSeconds, from when the prompt is written
    Buffer,     \* frames a socket takes in while relay does not read
    MaxTexts,   \* bound: text deltas of the turn
    MaxQueue    \* bound: frames on their way to the scheduler

ASSUME BoundsAssumption == {Timeout, Buffer, MaxTexts, MaxQueue} \subseteq Nat \ {0}

Kinds     == {"chat", "terminal"}
ExitCodes == 0..1
NoCode    == 2

\* Whose a frame is: it names this run's session, or comes in answer to this run and
\* names none; it names another's; or it is another's and names none, a "stray".
Owners  == {"own", "none", "other", "stray"}
Foreign == {"other", "stray"}

VARIABLES
    kind,       \* of the run
    at,         \* what the scheduler does next: "dial", "join", "send", "read"; "done"
    left,       \* time to the deadline, once there is one
    result,     \* "none", "success", "timeout" or "error"
    text,       \* the reply as it was put together
    stats,      \* the statistics that came last
    exit,       \* the exit code that came
    up,         \* written and not read by relay
    down,       \* sent by relay and not read
    lost,       \* whether the connection broke
    viewer,     \* relay: whether this connection has joined
    turn,       \* relay: the turn, or the process: "none", "working", "complete",
                \* "died" or "refused"
    said,       \* relay: the text deltas of the turn
    used,       \* relay: its statistics
    code,       \* relay: the exit code of the process
    misled      \* observation: whose frame, if a foreign one, has ended the wait

waitVars  == <<at, left, result, text, stats, exit>>
relayVars == <<viewer, turn, said, used, code>>
vars == <<kind, waitVars, up, down, lost, relayVars, misled>>

Types == {"text", "stats", "complete", "exited", "error", "exit", "block", "noise"}
Frames == [of : Owners, type : Types, value : Nat]
Frame(of, type, value) == [of |-> of, type |-> type, value |-> value]

-----------------------------------------------------------------------------
(* Relay.                                                                  *)

Listening == at \notin {"dial", "done"} /\ ~lost

\* A frame of the turn goes to the connections that joined it.
Tell(frame) ==
    /\ viewer /\ Listening => Len(down) < MaxQueue
    /\ down' = IF viewer /\ Listening THEN Append(down, frame) ELSE down
    /\ UNCHANGED <<kind, waitVars, lost, misled>>

Takes(frame) == up # <<>> /\ Head(up) = frame /\ up' = Tail(up)

\* A terminal that has ended answers a join with its exit, or is not found any more.
TakeJoin ==
    /\ Takes("join")
    /\ Listening => Len(down) < MaxQueue
    /\ viewer' = TRUE
    /\ \E answer \in IF kind = "chat" \/ turn = "working" THEN {<<>>}
                     ELSE {<<Frame("none", "exit", code)>>, <<Frame("none", "error", 0)>>} :
         down' = IF Listening THEN down \o answer ELSE down
    /\ UNCHANGED <<kind, waitVars, lost, turn, said, used, code, misled>>

TakeSend ==
    /\ Takes("send")
    /\ turn' = "working"
    /\ UNCHANGED <<kind, waitVars, down, lost, viewer, said, used, code, misled>>

\* The message is refused, with a frame that names the session or none.
RefuseSend ==
    /\ Takes("send")
    /\ turn' = "refused"
    /\ \E of \in {"own", "none"} : Tell(Frame(of, "error", 0))
    /\ UNCHANGED <<viewer, said, used, code>>

StreamText ==
    /\ kind = "chat" /\ turn = "working"
    /\ Len(said) < MaxTexts
    /\ said' = Append(said, Len(said) + 1)
    /\ Tell(Frame("own", "text", Len(said) + 1))
    /\ UNCHANGED <<up, viewer, turn, used, code>>

StreamStats ==
    /\ kind = "chat" /\ turn = "working"
    /\ used # Len(said)
    /\ used' = Len(said)
    /\ Tell(Frame("own", "stats", Len(said)))
    /\ UNCHANGED <<up, viewer, turn, said, code>>

Complete ==
    /\ turn = "working"
    /\ turn' = "complete"
    /\ IF kind = "chat"
       THEN Tell(Frame("own", "complete", 0)) /\ UNCHANGED code
       ELSE /\ code' \in ExitCodes
            /\ Tell(Frame("none", "exit", code'))
    /\ UNCHANGED <<up, viewer, said, used>>

\* The provider of a chat dies, or the turn fails.
Die ==
    /\ kind = "chat" /\ turn = "working"
    /\ turn' = "died"
    /\ \E type \in {"exited", "error"} : Tell(Frame("own", type, 0))
    /\ UNCHANGED <<up, viewer, said, used, code>>

\* Thinking and tool blocks, terminal output, frames that do not parse; and what other
\* sessions and terminals do, which they may do for ever.  What is said of a chat session
\* names it; the frames of terminals do not, and an error need not.
Chatter ==
    /\ Listening /\ Len(down) < MaxQueue
    /\ \E frame \in {Frame("own", "block", 0), Frame("none", "noise", 0)}
                    \cup {Frame("stray", type, 0) : type \in {"error", "exit"}}
                    \cup {Frame("other", type, 0) :
                              type \in {"text", "stats", "complete", "exited", "error", "exit"}} :
         down' = Append(down, frame)
    /\ UNCHANGED <<kind, waitVars, up, lost, relayVars, misled>>

\* The connection breaks; of what was written to it, some may be read still.
Drop ==
    /\ Listening
    /\ lost' = TRUE
    /\ \E n \in 0..Len(down) : down' = SubSeq(down, 1, n)
    /\ UNCHANGED <<kind, waitVars, up, relayVars, misled>>

-----------------------------------------------------------------------------
(* The wait.                                                               *)

Return(outcome) == at' = "done" /\ result' = outcome

\* The handshake has a limit of its own.
Dial ==
    /\ at = "dial"
    /\ \/ at' = "join" /\ UNCHANGED <<result, lost>>
       \/ Return("error") /\ lost' = TRUE
    /\ UNCHANGED <<kind, left, text, stats, exit, up, down, relayVars, misled>>

\* A write waits for room in the socket, without a limit.  The deadline is counted from
\* the last of them.
Write(from, frame, to) ==
    /\ at = from
    /\ \/ /\ ~lost
          /\ Len(up) < Buffer
          /\ up' = Append(up, frame)
          /\ at' = to
          /\ left' = IF to = "read" THEN Timeout ELSE left
          /\ UNCHANGED result
       \/ lost /\ Return("error") /\ UNCHANGED <<up, left>>
    /\ UNCHANGED <<kind, text, stats, exit, down, lost, relayVars, misled>>

\* Bug: the prompt is sent before the session is joined.
BugSendFirst == \/ kind = "chat" /\ Write("join", "send", "send")
                \/ kind = "chat" /\ Write("send", "join", "read")
                \/ kind = "terminal" /\ Write("join", "join", "read")

WriteAll ==
    \/ Write("join", "join", IF kind = "chat" THEN "send" ELSE "read")
    \/ Write("send", "send", "read")

\* Bug: the frames of every session are taken for this one's.
BugAcceptAll(frame) == TRUE

\* Frames that name another session are passed over, those that name none are not; a
\* terminal's wait does not look.
Accepts(frame) == kind = "terminal" \/ frame.of # "other"

\* Bug: each frame starts the limit anew.
BugRenew ==
    /\ left > 0
    /\ left' = Timeout

\* The deadline stays where it is.
Within ==
    /\ left > 0
    /\ UNCHANGED left

\* What a frame ends the wait with, "none" if it does not.
Ending(frame) ==
    CASE frame.type = "error" -> "error"
      [] kind = "chat" /\ frame.type = "complete" -> "success"
      [] kind = "chat" /\ frame.type = "exited" -> "error"
      [] kind = "terminal" /\ frame.type = "exit" ->
            IF frame.value = 0 THEN "success" ELSE "error"
      [] OTHER -> "none"

\* Bug: a frame without an exit code counts as exit 0.
BugAlwaysCarries(frame) == TRUE

CarriesExit(frame) == frame.type = "exit"

ReadFrame ==
    /\ at = "read" /\ down # <<>> /\ Within
    /\ down' = Tail(down)
    /\ LET frame  == Head(down)
           chat   == kind = "chat" /\ Accepts(frame)
           ending == IF Accepts(frame) THEN Ending(frame) ELSE "none"
       IN /\ text'  = IF chat /\ frame.type = "text" THEN Append(text, frame.value) ELSE text
          /\ stats' = IF chat /\ frame.type = "stats" THEN frame.value ELSE stats
          /\ exit'  = IF ending # "none" /\ CarriesExit(frame) THEN frame.value ELSE exit
          /\ IF ending = "none" THEN UNCHANGED <<at, result>> ELSE Return(ending)
          /\ misled' = IF ending # "none" /\ frame.of \in Foreign THEN frame.of ELSE misled
    /\ UNCHANGED <<kind, up, lost, relayVars>>

\* The read fails: the connection is gone.
ReadFails ==
    /\ at = "read" /\ lost /\ down = <<>> /\ left > 0
    /\ Return("error")
    /\ UNCHANGED <<kind, left, text, stats, exit, up, down, lost, relayVars, misled>>

\* The deadline is looked at before every read, and limits it.
ReadTimesOut ==
    /\ at = "read" /\ left = 0
    /\ Return("timeout")
    /\ UNCHANGED <<kind, left, text, stats, exit, up, down, lost, relayVars, misled>>

TimePasses ==
    /\ at = "read" /\ left > 0
    /\ left' = left - 1
    /\ UNCHANGED <<kind, at, result, text, stats, exit, up, down, lost, relayVars, misled>>

-----------------------------------------------------------------------------
\* A terminal runs when it is joined, or has ended by then.
Init ==
    /\ kind \in Kinds
    /\ at = "dial" /\ left = Timeout /\ result = "none"
    /\ text = <<>> /\ stats = 0 /\ exit = NoCode
    /\ up = <<>> /\ down = <<>> /\ lost = FALSE
    /\ viewer = FALSE /\ said = <<>> /\ used = 0 /\ code = NoCode
    /\ turn = IF kind = "chat" THEN "none" ELSE "working"
    /\ misled = "no"

Relay == \/ TakeJoin \/ TakeSend \/ RefuseSend \/ StreamText \/ StreamStats \/ Complete
         \/ Die \/ Chatter \/ Drop

Wait == Dial \/ WriteAll \/ ReadFrame \/ ReadFails \/ ReadTimesOut

Next == Relay \/ Wait \/ TimePasses

Spec == Init /\ [][Next]_vars

\* The scheduler's goroutine runs and time passes; relay owes nothing.
FairSpec == Spec /\ WF_vars(Wait) /\ WF_vars(TimePasses)

-----------------------------------------------------------------------------
(* Properties.                                                             *)

TypeOK ==
    /\ kind \in Kinds
    /\ at \in {"dial", "join", "send", "read", "done"}
    /\ left \in 0..Timeout
    /\ result \in {"none", "success", "timeout", "error"} /\ (result = "none" <=> at # "done")
    /\ text \in Seq(Nat) /\ said \in Seq(Nat) /\ Len(said) <= MaxTexts
    /\ {stats, used, exit, code} \subseteq Nat
    /\ up \in Seq({"join", "send"}) /\ Len(up) <= Buffer
    /\ down \in Seq(Frames) /\ Len(down) <= MaxQueue
    /\ lost \in BOOLEAN /\ viewer \in BOOLEAN /\ misled \in Foreign \cup {"no"}
    /\ turn \in {"none", "working", "complete", "died", "refused"}

\* client.go "Join first so we are a registered viewer before generation starts": the
\* reply of a successful run is all that the session said in the turn, in order, with its
\* last statistics, and nothing that another session said; the turn is over.
ReplyIsWhole ==
    result = "success" /\ kind = "chat" =>
        turn = "complete" /\ text = said /\ stats = used

\* client.go "returns the real exit code": it is that of the terminal's own process,
\* unless relay sends this connection the exits of other terminals as well.
ExitIsReal == exit # NoCode /\ misled = "no" => turn = "complete" /\ exit = code

\* client.go "ignore other sessions' frames": a chat run fails only by what became of its
\* own turn or of the connection, or by an error that names no session: whose that is, the
\* wait cannot tell, and takes it for its own.  Nothing that names another session fails it.
FailureIsOwn ==
    result = "error" /\ kind = "chat" /\ misled # "stray" =>
        lost \/ turn \in {"died", "refused"}

\* client.go "the only bound is this caller's timeout": while relay takes what it is sent,
\* the wait ends, however much other sessions have to say.
Returns == []<>(up = <<>>) => <>(at = "done")

=============================================================================
