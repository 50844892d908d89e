----------------------------- MODULE AtomicStore -----------------------------
(***************************************************************************)
(* What a caller of TaskStore may rely on: the list of tasks is one value, *)
(* every call takes effect at one instant between its start and its end or *)
(* not at all, a call that reports an error has had no effect, and what    *)
(* took effect survives the process.                                       *)
(*                                                                         *)
(* Files implements this specification (ImplementsAtomicStore).            *)
(***************************************************************************)
CONSTANTS
    Callers,    \* goroutines that call the store, one call at a time
    Tasks,
    Defs,       \* definitions a task may have
    Runs,       \* numbers of runs; 0 is no run
    Running,    \* lastStatus while a run is in progress
    Lost,       \* the "error" of a run that died with the process
    Sent,       \* an outcome that a client has sent with the task
    NoTask,     \* what is stored about a task that is not there
    Nothing     \* what a call has seen before it takes effect

VARIABLES
    value,      \* the tasks that are stored
    call        \* the call each caller is in

vars == <<value, call>>

\* What lastStatus stands for: the outcome of a run, or none; 0 in a request is an
\* empty field.
Lasts    == Runs \cup {Running, Lost, Sent}
Contents == [Tasks -> [def : Defs, last : Lasts] \cup {NoTask}]

Op == [kind : {"create", "update"}, tasks : SUBSET Tasks, def : Defs,
       last : {0, Running, Sent}]
        \cup [kind : {"finish"}, tasks : SUBSET Tasks, last : Runs]
        \cup [kind : {"mark", "reset", "delete", "load"}, tasks : SUBSET Tasks]

Statuses == {"ok", "notFound", "error"}
Idle     == [stage |-> "idle"]
Call     == [stage : {"called", "done"}, op : Op, status : Statuses,
             seen : Contents \cup {Nothing}] \cup {Idle}

\* The stored tasks that an operation changes: Create adds one, the others do
\* nothing to a task that is not there.
Affected(op, v) ==
    CASE op.kind = "load"   -> {}
      [] op.kind = "create" -> op.tasks
      [] OTHER              -> {t \in op.tasks : v[t] # NoTask}

\* A task is stored as it was sent.  An update keeps the run state where the request
\* leaves it empty.  The scheduler writes the status alone.
Changed(op, task) ==
    CASE op.kind = "create" -> [def |-> op.def, last |-> op.last]
      [] op.kind = "update" -> [def  |-> op.def,
                                last |-> IF op.last = 0 THEN task.last ELSE op.last]
      [] op.kind = "finish" -> [task EXCEPT !.last = op.last]
      [] op.kind = "mark"   -> [task EXCEPT !.last = Running]
      [] op.kind = "reset"  -> [task EXCEPT !.last = Lost]
      [] OTHER              -> NoTask

Applied(op, v) ==
    [t \in Tasks |-> IF t \in Affected(op, v) THEN Changed(op, v[t]) ELSE v[t]]

Verdict(op, v) == IF op.kind # "load" /\ Affected(op, v) = {} THEN "notFound" ELSE "ok"

Called(op, status)     == [stage |-> "called", op |-> op, status |-> status, seen |-> Nothing]
Done(op, status, seen) == [stage |-> "done", op |-> op, status |-> status, seen |-> seen]

Begin(c, op) ==
    /\ call[c] = Idle
    /\ call' = [call EXCEPT ![c] = Called(op, "ok")]
    /\ UNCHANGED value

TakeEffect(c) ==
    /\ call[c].stage = "called"
    /\ value' = Applied(call[c].op, value)
    /\ call' = [call EXCEPT ![c] =
                  Done(call[c].op, Verdict(call[c].op, value), value)]

Fail(c) ==
    /\ call[c].stage = "called"
    /\ call' = [call EXCEPT ![c] = Done(call[c].op, "error", Nothing)]
    /\ UNCHANGED value

End(c) ==
    /\ call[c].stage = "done"
    /\ call' = [call EXCEPT ![c] = Idle]
    /\ UNCHANGED value

\* The process dies: its calls are gone, the value stays.
Die ==
    /\ call' = [c \in Callers |-> Idle]
    /\ UNCHANGED value

Init == /\ value = [t \in Tasks |-> NoTask]
        /\ call = [c \in Callers |-> Idle]

Next == \/ \E c \in Callers :
              \/ \E op \in Op : Begin(c, op)
              \/ TakeEffect(c) \/ Fail(c) \/ End(c)
        \/ Die

Spec == Init /\ [][Next]_vars

=============================================================================
