------------------------ MODULE DatabaseClonerLifecycle ------------------------
(***************************************************************************)
(* What a DatabaseCloner promises its owner, without the listCollections   *)
(* batches, the collection cloners and the threads.  A cloner starts,     *)
(* schedules its work at most once and only while Running (never after    *)
(* shutdown() has come), reports one status through _onCompletion once    *)
(* that work has run, and is Complete only after reporting, unless its    *)
(* work was never scheduled.  It never goes back to an earlier state.  A  *)
(* scheduled cloner eventually reports and completes.                     *)
(***************************************************************************)
EXTENDS Sequences

CONSTANTS Statuses   \* what _onCompletion may be passed

VARIABLES
    state,      \* PreStart, Running, ShuttingDown or Complete
    scheduled,  \* the cloner's work has been handed to the executor
    reported    \* the statuses reported to the owner

vars == <<state, scheduled, reported>>

Active == state \in {"Running", "ShuttingDown"}

Init ==
    /\ state = "PreStart"
    /\ scheduled = FALSE
    /\ reported = <<>>

\* startup(): the cloner runs, its work scheduled in the same step or
\* later; or scheduling fails and it is Complete at once.
Start ==
    /\ state = "PreStart"
    /\ \/ state' = "Running" /\ scheduled' \in BOOLEAN
       \/ state' = "Complete" /\ UNCHANGED scheduled
    /\ UNCHANGED reported

\* A started cloner hands its work to the executor, while still Running.
Schedule ==
    /\ state = "Running" /\ ~scheduled
    /\ scheduled' = TRUE
    /\ UNCHANGED <<state, reported>>

\* Scheduling fails: a cloner with no work scheduled completes silently.
Abort ==
    /\ Active /\ ~scheduled
    /\ state' = "Complete"
    /\ UNCHANGED <<scheduled, reported>>

\* shutdown(): a cloner not yet started completes, a running one shuts down.
Shutdown ==
    /\ \/ state = "PreStart" /\ state' = "Complete"
       \/ state = "Running" /\ state' = "ShuttingDown"
    /\ UNCHANGED <<scheduled, reported>>

\* The scheduled work ends and the owner is told, once.
Report ==
    /\ Active /\ scheduled /\ reported = <<>>
    /\ \E s \in Statuses : reported' = <<s>>
    /\ UNCHANGED <<state, scheduled>>

\* After reporting, the cloner is Complete.
Finish ==
    /\ Active /\ reported # <<>>
    /\ state' = "Complete"
    /\ UNCHANGED <<scheduled, reported>>

Next == Start \/ Schedule \/ Abort \/ Shutdown \/ Report \/ Finish

Spec == Init /\ [][Next]_vars /\ WF_vars(Report) /\ WF_vars(Finish)
====
