------------------------------- MODULE MCFiles -------------------------------
(* Values of the constants of Files for TLC.                               *)
EXTENDS Files

CONSTANTS a, b, t1, d1

\* A task is created, deleted and edited, with and without an old copy's status.
SomeRequests ==
    {[kind |-> "create", tasks |-> {t1}, def |-> d1, last |-> 0],
     [kind |-> "update", tasks |-> {t1}, def |-> d1, last |-> 0],
     [kind |-> "update", tasks |-> {t1}, def |-> d1, last |-> Running],
     [kind |-> "delete", tasks |-> {t1}]}

=============================================================================
