----------------------------- MODULE MCTaskRun -----------------------------
(* Values of the constants of TaskRun for TLC.                             *)
EXTENDS TaskRun

CONSTANTS p1, p2

\* A body as eve sends it, and a copy that was read during the first run and is
\* sent back as it is.
Plain == [status |-> "none", lastSession |-> NoId, lastTerminal |-> NoId]
Copy  == [status |-> "running", lastSession |-> 1, lastTerminal |-> 1]
PlainAndCopy == {Plain, Copy}

=============================================================================
