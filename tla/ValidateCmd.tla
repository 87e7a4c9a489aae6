----------------------------- MODULE ValidateCmd -----------------------------
(***************************************************************************)
(* ValidateCmd::run of src/unnamed/part_004: concurrent validate commands, *)
(* the collection lock each takes in MODE_X, and the set                  *)
(* _validationsInProgress that lets "only one validation per collection be *)
(* in progress, the rest wait in order".                                   *)
(*                                                                         *)
(* Each thread runs validate commands, one after another, on namespaces of *)
(* its choice.                                                             *)
(* The lock manager grants a MODE_X collection lock when no one holds it. *)
(* Everything done under _validationMutex is one step (the mutex makes it  *)
(* atomic); the condition-variable wait releases the mutex and sleeps      *)
(* until a notify_all.  A wait, and the wait for the collection lock, may  *)
(* be interrupted (killOp, maxTimeMS), which throws out of run().          *)
(* AutoGetDb takes the database in MODE_IX, which no validate conflicts    *)
(* with, so it is left out.                                                *)
(***************************************************************************)
EXTENDS FiniteSets

CONSTANTS
    Threads,   \* operation contexts running validate
    Colls,     \* namespaces of existing collections
    Views,     \* namespaces of views
    Missing    \* namespaces of nothing

None == "none"   \* no thread
Nss == Colls \cup Views \cup Missing

VARIABLES
    pc,          \* each thread's place in run()
    ns,          \* the namespace it validates
    collHolder,  \* collHolder[n]: the thread holding n's collection lock, or None
    inProgress   \* _validationsInProgress

vars == <<pc, ns, collHolder, inProgress>>

Init ==
    /\ pc = [t \in Threads |-> "idle"]
    /\ ns = [t \in Threads |-> CHOOSE n \in Nss : TRUE]
    /\ collHolder = [n \in Nss |-> None]
    /\ inProgress = {}

Goto(t, p) == pc' = [pc EXCEPT ![t] = p]
\* run() returns (its result and error codes are output only); the thread
\* goes on to its next command.
Return(t) == Goto(t, "idle")
ReleaseColl(t) == collHolder' = [collHolder EXCEPT ![ns[t]] = None]

\* The command arrives for namespace n.
Call(t, n) ==
    /\ pc[t] = "idle"
    /\ ns' = [ns EXCEPT ![t] = n]
    /\ Goto(t, "collLock")
    /\ UNCHANGED <<collHolder, inProgress>>

\* Seeded bug: the collection is locked in MODE_IX, which does not exclude
\* another validator.
CollLockShared(t) ==
    /\ pc[t] = "collLock"
    /\ collHolder' = [collHolder EXCEPT ![ns[t]] = t]
    /\ Goto(t, "lookup")
    /\ UNCHANGED <<ns, inProgress>>

(* Lock::CollectionLock collLk(opCtx, nss, MODE_X). *)
CollLock(t) ==
    /\ pc[t] = "collLock"
    /\ collHolder[ns[t]] = None
    /\ collHolder' = [collHolder EXCEPT ![ns[t]] = t]
    /\ Goto(t, "lookup")
    /\ UNCHANGED <<ns, inProgress>>

\* Seeded bug: the error path returns without releasing the collection lock.
LookupKeepsLock(t) ==
    /\ pc[t] = "lookup"
    /\ IF ns[t] \in Colls THEN Goto(t, "queue") ELSE Return(t)
    /\ UNCHANGED <<ns, collHolder, inProgress>>

(* getCollection; uasserted for a view or a missing namespace, and the     *)
(* collection lock released as the exception unwinds.                     *)
Lookup(t) ==
    /\ pc[t] = "lookup"
    /\ IF ns[t] \in Colls
       THEN Goto(t, "queue") /\ UNCHANGED collHolder
       ELSE /\ ReleaseColl(t)
            /\ Return(t)   \* CommandNotSupportedOnView or NamespaceNotFound
    /\ UNCHANGED <<ns, inProgress>>

(* Under _validationMutex: while (nss in progress) wait; then insert.     *)
Queue(t) ==
    /\ pc[t] = "queue"
    /\ IF ns[t] \in inProgress
       THEN Goto(t, "waiting") /\ UNCHANGED inProgress
       ELSE Goto(t, "validate") /\ inProgress' = inProgress \cup {ns[t]}
    /\ UNCHANGED <<ns, collHolder>>

(* collection->validate(...), whatever its status: every return from here *)
(* runs the ON_BLOCK_EXIT.                                                *)
Validate(t) ==
    /\ pc[t] = "validate"
    /\ Goto(t, "exit")
    /\ UNCHANGED <<ns, collHolder, inProgress>>

(* ON_BLOCK_EXIT: erase nss and notify_all under _validationMutex; it runs *)
(* before collLk, declared earlier, is destroyed.                         *)
Exit(t) ==
    /\ pc[t] = "exit"
    /\ inProgress' = inProgress \ {ns[t]}
    /\ pc' = [u \in Threads |->
                IF u = t THEN "unlock"
                ELSE IF pc[u] = "waiting" THEN "queue" ELSE pc[u]]
    /\ UNCHANGED <<ns, collHolder>>

(* ~CollectionLock, and run() returns. *)
Unlock(t) ==
    /\ pc[t] = "unlock"
    /\ ReleaseColl(t)
    /\ Return(t)
    /\ UNCHANGED <<ns, inProgress>>

(* The operation is interrupted (killOp, maxTimeMS) while it blocks: in   *)
(* the lock manager, which throws out of run(), or in                     *)
(* waitForConditionOrInterrupt, whose catch returns false; collLk is       *)
(* released as run() unwinds.                                              *)
Interrupt(t) ==
    /\ pc[t] \in {"collLock", "waiting"}
    /\ IF pc[t] = "waiting" THEN ReleaseColl(t) ELSE UNCHANGED collHolder
    /\ Return(t)
    /\ UNCHANGED <<ns, inProgress>>

Step(t) ==
    \/ \E n \in Nss : Call(t, n)
    \/ CollLock(t) \/ Lookup(t) \/ Queue(t) \/ Validate(t) \/ Exit(t) \/ Unlock(t)

Next == \E t \in Threads : Step(t) \/ Interrupt(t)

\* Each command runs on its own thread, which the OS keeps scheduling.  The
\* lock manager queues conflicting requests and grants them in order, so a
\* request for a collection lock that is free again and again is granted
\* (strong fairness).  Interrupts may never come.
Fairness == \A t \in Threads : WF_vars(Step(t)) /\ SF_vars(CollLock(t))

Spec == Init /\ [][Next]_vars /\ Fairness
-----------------------------------------------------------------------------
\* The wait at line 149 never happens: a validator that reaches the queue
\* never finds its namespace in progress, because the one in progress holds
\* the same collection's MODE_X lock until after its ON_BLOCK_EXIT has
\* erased the namespace.  "The rest wait in order" is done by the lock
\* manager, not by _validationsInProgress.
ValidateNeverWaits ==
    \A t \in Threads : pc[t] = "queue" => ns[t] \notin inProgress

\* Every validate command returns, with a result or an error: no validator
\* waits forever on a collection lock or on _validationNotifier.
EveryValidateReturns ==
    \A t \in Threads : pc[t] # "idle" ~> pc[t] = "idle"
====
