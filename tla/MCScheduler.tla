---------------------------- MODULE MCScheduler ----------------------------
(* Values of the constants of Scheduler for TLC.                           *)
EXTENDS Scheduler

CONSTANTS t1, t2, p1, p2, i1, i2

Def(enabled, kind, at, catchUp, project) ==
    [enabled |-> enabled, kind |-> kind, valid |-> TRUE, at |-> at,
     catchUp |-> catchUp, project |-> project]

Recurring  == Def(TRUE, "recurring", i1, TRUE, p1)
NoCatchUp  == Def(TRUE, "recurring", i1, FALSE, p1)
Moved      == Def(TRUE, "recurring", i1, TRUE, p2)
Paused     == Def(FALSE, "recurring", i1, TRUE, p1)
OnDemand   == Def(TRUE, "on_demand", i1, TRUE, p1)
OnceFirst  == Def(TRUE, "once", i1, TRUE, p1)
OnceStrict == Def(TRUE, "once", i1, FALSE, p1)
Broken     == [Recurring EXCEPT !.valid = FALSE]

\* What clients send.
EveryKind     == {Recurring, NoCatchUp, Moved, Paused, OnDemand, OnceFirst, OnceStrict}
SomeKinds     == {NoCatchUp, Paused}
RecurringOnly == {Recurring, Paused}
OnceOnly      == {OnceFirst, OnceStrict}

\* The lastStatus they send along: none, or that of a copy read during a run.
NoStatus   == {"none"}
OldStatus  == {"none", "running"}

\* What tasks.json holds when the program first starts.
FileOf(def, status) == [t \in {t1} |-> [def |-> def, status |-> status]]
EmptyFile      == {NoMap}
AfterCrash     == {FileOf(Recurring, "running"), FileOf(Broken, "none")}
RecurringFile  == {FileOf(Recurring, "none")}

=============================================================================
