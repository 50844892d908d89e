------------------------------ MODULE RunStatus ------------------------------
(***************************************************************************)
(* What the scheduler promises to a client that watches lastStatus in the  *)
(* task list: a status becomes "running" once per run and then one         *)
(* outcome, a scheduler that dies in a run says so when it is back, and a  *)
(* task id is never seen again once its task is gone.                      *)
(*                                                                         *)
(* Two things break into this order: a client that sends a status of its   *)
(* own with a task, and a write of the scheduler's that fails.  The status *)
(* is unsure from then until the scheduler's next write, and no longer.    *)
(*                                                                         *)
(* Scheduler and TaskRun implement this specification (ImplementsRunStatus). *)
(***************************************************************************)
CONSTANT Tasks

VARIABLES
    status,     \* lastStatus of the tasks that exist
    known,      \* the ids that tasks have had so far
    unsure,     \* the tasks whose status need not be the scheduler's last word
    up          \* whether the scheduler runs

vars == <<status, known, unsure, up>>

Outcomes == {"success", "error", "timeout"}
Statuses == Outcomes \cup {"none", "running"}

Exists(t) == t \in DOMAIN status

Set(t, s) == status' = [status EXCEPT ![t] = s]

\* A client creates a task, as a rule with no status.
Appear(t, s) ==
    /\ up
    /\ t \in Tasks \ known
    /\ status' = [u \in DOMAIN status \cup {t} |-> IF u = t THEN s ELSE status[u]]
    /\ known' = known \cup {t}
    /\ unsure' = unsure \cup (IF s = "none" THEN {} ELSE {t})
    /\ UNCHANGED up

\* One task, or all tasks of a project.
Vanish(ts) ==
    /\ up
    /\ status' = [u \in DOMAIN status \ ts |-> status[u]]
    /\ unsure' = unsure \ ts
    /\ UNCHANGED <<known, up>>

Begin(t) ==
    /\ up
    /\ Exists(t) /\ (status[t] # "running" \/ t \in unsure)
    /\ Set(t, "running")
    /\ unsure' = unsure \ {t}
    /\ UNCHANGED <<known, up>>

Finish(t, outcome) ==
    /\ up
    /\ Exists(t) /\ (status[t] = "running" \/ t \in unsure)
    /\ Set(t, outcome)
    /\ unsure' = unsure \ {t}
    /\ UNCHANGED <<known, up>>

\* A client's own status, or with the status there is a write that fails.
Blur(t, s) ==
    /\ up
    /\ Exists(t)
    /\ Set(t, s)
    /\ unsure' = unsure \cup {t}
    /\ UNCHANGED <<known, up>>

Die ==
    /\ up
    /\ up' = FALSE
    /\ UNCHANGED <<status, known, unsure>>

\* Every status is sure again, except where the correction fails.
Recover ==
    /\ ~up
    /\ up' = TRUE
    /\ unsure' \in SUBSET {t \in DOMAIN status : status[t] = "running"}
    /\ status' = [t \in DOMAIN status |->
                    IF status[t] = "running" /\ t \notin unsure' THEN "error" ELSE status[t]]
    /\ UNCHANGED known

Init == /\ status \in [DOMAIN status -> Statuses]
        /\ DOMAIN status \subseteq Tasks
        /\ known = DOMAIN status
        /\ unsure \subseteq DOMAIN status
        /\ up = FALSE

Next ==
    \/ \E t \in Tasks : Begin(t)
    \/ \E t \in Tasks, outcome \in Outcomes : Finish(t, outcome)
    \/ \E t \in Tasks, s \in Statuses : Appear(t, s) \/ Blur(t, s)
    \/ \E ts \in SUBSET Tasks : Vanish(ts)
    \/ Die
    \/ Recover

Spec == Init /\ [][Next]_vars

=============================================================================
