--------------------------- MODULE DatabaseCloner ---------------------------
(***************************************************************************)
(* DatabaseCloner of src/unnamed/part_005: initial sync of one database.   *)
(* startup() schedules a listCollections Fetcher; its callback collects    *)
(* the collection infos of every batch and, after the last, parses them,   *)
(* creates one CollectionCloner per collection and starts the first; the   *)
(* callback of each CollectionCloner starts the next; the last one, or any *)
(* error, runs _finishCallback, which calls _onCompletion and sets the     *)
(* state to Complete.  shutdown() may come from another thread at any time *)
(* and join() waits until the cloner is no longer active.                  *)
(*                                                                         *)
(* Threads: the caller ("main": startup, then join), a thread that calls   *)
(* shutdown once and then, if StopperJoins, join ("stopper"), the executor *)
(* thread running the Fetcher callback ("F")                               *)
(* and the one running a CollectionCloner's completion callback ("K").     *)
(* Each critical section under _mutex is one step; the code unlocks before *)
(* _onCompletion and _collectionWork, so those are steps of their own.     *)
(* The Fetcher and the CollectionCloners are not part of this code: they  *)
(* are the environment, modelled by the callbacks they make.  A collection *)
(* info is a collection name or Bad, which stands for every info the parse *)
(* loop rejects (no name, not a string, no options, bad options or uuid,   *)
(* a CollectionCloner constructor that throws).                            *)
(***************************************************************************)
EXTENDS Integers, Sequences, FiniteSetsExt

CONSTANTS
    Colls,       \* collection names the source may list
    Bad,         \* an info the parse loop rejects
    MaxBatches,  \* bound: listCollections batches (the first and the getMores)
    MaxBatch,    \* bound: infos in a batch
    StopperJoins \* the thread that calls shutdown() then calls join()

Infos == Colls \cup {Bad}
Batches == UNION {[1..k -> Infos] : k \in 0..MaxBatch}
Threads == {"main", "stopper"}

VARIABLES
    state,       \* _state
    infos,       \* _collectionInfos
    nColls,      \* _stats.collections
    cloned,      \* _stats.clonedCollections
    cloners,     \* _collectionCloners: <<name, CollectionCloner state>> each
    cur,         \* _currentCollectionClonerIter, an index into cloners
    fetch,       \* the Fetcher: "none", "waiting" for a response, or "done"
    canceled,    \* _listCollectionsFetcher.shutdown() was called
    batches,     \* batches the Fetcher has delivered
    pc,          \* pc[th] for th \in {"F", "K"}: the callback's place
    batch,       \* the documents of the batch F handles
    last,        \* whether that batch is the last (nextAction is not kGetMore)
    status,      \* status[th]: the Status a callback carries
    tpc,         \* tpc[t]: the place of the caller ("main": startup, then
                 \* join) and of the thread that calls shutdown ("stopper")
    fp,          \* the fail point initialSyncHangBeforeListCollections is on
    completions  \* ghost: the statuses passed to _onCompletion

vars == <<state, infos, nColls, cloned, cloners, cur, fetch, canceled, batches,
          pc, batch, last, status, tpc, fp, completions>>
fetchVars == <<fetch, canceled, batches, batch, last>>
-----------------------------------------------------------------------------
Init ==
    /\ state = "PreStart"
    /\ infos = <<>> /\ nColls = 0 /\ cloned = 0
    /\ cloners = <<>> /\ cur = 0
    /\ fetch = "none" /\ canceled = FALSE /\ batches = 0
    /\ pc = [th \in {"F", "K"} |-> "idle"]
    /\ batch = <<>> /\ last = FALSE
    /\ status = [th \in {"F", "K"} |-> "ok"]
    /\ tpc = [t \in Threads |-> IF t = "main" THEN "startup" ELSE "shutdown"]
    /\ fp \in BOOLEAN
    /\ completions = <<>>

IsActive == state \in {"Running", "ShuttingDown"}   \* _isActive_inlock

\* _finishCallback_inlock / _finishCallback: thread th unlocks and goes on
\* to call _onCompletion with status s.
Finish(th, s) ==
    /\ pc' = [pc EXCEPT ![th] = "finish"]
    /\ status' = [status EXCEPT ![th] = s]

\* _startCollectionCloner(cloners[i]) = CollectionCloner::startup(): only a
\* cloner in PreStart starts, and scheduling its first work on the
\* executor may fail.
StartCloner(cs, i, th) ==
    \/ /\ cs[i][2] = "PreStart"
       /\ cloners' = [cs EXCEPT ![i][2] = "Running"]
       /\ pc' = [pc EXCEPT ![th] = "idle"]
       /\ UNCHANGED status
    \/ /\ cloners' = cs
       /\ Finish(th, "error")

\* CollectionCloner::shutdown, on every cloner created so far.
ShutdownCloner(st) ==
    CASE st = "PreStart" -> "Complete"
      [] st = "Running" -> "ShuttingDown"
      [] OTHER -> st
-----------------------------------------------------------------------------
\* Seeded bug: a failed schedule leaves the state as it was.
ScheduleFailKeepsState(st) ==
    \/ /\ ~canceled
       /\ fetch' = "waiting" /\ state' = st
    \/ /\ state' = st /\ UNCHANGED fetch

\* Seeded bug: the schedule succeeds on a Fetcher that shutdown() has
\* already shut down.
ScheduleAfterShutdown(st) ==
    \/ /\ fetch' = "waiting" /\ state' = st
    \/ /\ state' = "Complete" /\ UNCHANGED fetch

\* _listCollectionsFetcher.schedule() under the lock, st being the state
\* startup() has set.  A Fetcher that shutdown() shut down while still in
\* PreStart refuses to schedule, and the executor may refuse as well; on
\* an error startup() sets kComplete and returns, without notifying
\* _condition.
Schedule(st) ==
    \/ /\ ~canceled
       /\ fetch' = "waiting" /\ state' = st
    \/ /\ state' = "Complete" /\ UNCHANGED fetch

(* DatabaseCloner::startup, called by the caller once: PreStart becomes    *)
(* Running; with initialSyncHangBeforeListCollections enabled it unlocks   *)
(* and hangs, else it schedules the Fetcher in the same critical section.  *)
(* In any other state it returns an error at once.                        *)
Startup ==
    /\ tpc["main"] = "startup"
    /\ \/ /\ state = "PreStart" /\ fp
          /\ state' = "Running"
          /\ tpc' = [tpc EXCEPT !["main"] = "hang"]
          /\ UNCHANGED fetch
       \/ /\ state = "PreStart" /\ ~fp
          /\ Schedule("Running")
          /\ tpc' = [tpc EXCEPT !["main"] = "join"]
       \/ /\ state # "PreStart"   \* already started, shutting down or completed
          /\ tpc' = [tpc EXCEPT !["main"] = "join"]
          /\ UNCHANGED <<state, fetch>>
    /\ UNCHANGED <<infos, nColls, cloned, cloners, cur, canceled, batches, pc,
                   batch, last, status, fp, completions>>

(* The loop while (fail point enabled && !_isShuttingDown()) sleepsecs(1): *)
(* it ends once the fail point is off or shutdown() has come.             *)
HangEnds ==
    /\ tpc["main"] = "hang"
    /\ ~fp \/ state = "ShuttingDown"
    /\ tpc' = [tpc EXCEPT !["main"] = "schedule"]
    /\ UNCHANGED <<state, infos, nColls, cloned, cloners, cur, fetchVars, pc,
                   batch, last, status, fp, completions>>

(* startup() after lk.lock(): schedule the Fetcher and return. *)
ScheduleFetcher ==
    /\ tpc["main"] = "schedule"
    /\ Schedule(state)
    /\ tpc' = [tpc EXCEPT !["main"] = "join"]
    /\ UNCHANGED <<infos, nColls, cloned, cloners, cur, canceled, batches, pc,
                   batch, last, status, fp, completions>>

\* The test that enabled the fail point disables it (environment).
DisableFailPoint ==
    /\ fp /\ fp' = FALSE
    /\ UNCHANGED <<state, infos, nColls, cloned, cloners, cur, fetchVars, pc,
                   status, tpc, completions>>

\* Seeded bug: a running cloner goes straight to Complete, as one in
\* PreStart does.
ShutdownCompletes ==
    /\ tpc["stopper"] = "shutdown"
    /\ tpc' = [tpc EXCEPT !["stopper"] = IF StopperJoins THEN "join" ELSE "done"]
    /\ \/ /\ state \in {"PreStart", "Running"}
          /\ state' = "Complete"
          /\ cloners' = [i \in DOMAIN cloners |-> <<cloners[i][1], ShutdownCloner(cloners[i][2])>>]
          /\ canceled' = (state = "Running")
       \/ /\ state \in {"ShuttingDown", "Complete"}
          /\ UNCHANGED <<state, cloners, canceled>>
    /\ UNCHANGED <<infos, nColls, cloned, cur, fetch, batches, pc, batch, last,
                   status, fp, completions>>

(* DatabaseCloner::shutdown, from the stopper thread, at any moment; the   *)
(* stopper then calls join() if StopperJoins.                              *)
Shutdown ==
    /\ tpc["stopper"] = "shutdown"
    /\ tpc' = [tpc EXCEPT !["stopper"] = IF StopperJoins THEN "join" ELSE "done"]
    /\ \/ /\ state = "PreStart"
          /\ state' = "Complete"
          /\ UNCHANGED <<cloners, canceled>>
       \/ /\ state = "Running"
          /\ state' = "ShuttingDown"
          /\ cloners' = [i \in DOMAIN cloners |-> <<cloners[i][1], ShutdownCloner(cloners[i][2])>>]
          /\ canceled' = TRUE
       \/ /\ state \in {"ShuttingDown", "Complete"}
          /\ UNCHANGED <<state, cloners, canceled>>
    /\ UNCHANGED <<infos, nColls, cloned, cur, fetch, batches, pc, batch, last,
                   status, fp, completions>>

(* DatabaseCloner::join on thread t: _condition.wait(lk, !_isActive_inlock) *)
(* checks the predicate under the lock and returns, or waits to be        *)
(* notified and checks again.                                             *)
Join(t) ==
    /\ tpc[t] = "join"
    /\ tpc' = [tpc EXCEPT ![t] = IF IsActive THEN "wait" ELSE "done"]
    /\ UNCHANGED <<state, infos, nColls, cloned, cloners, cur, fetchVars, pc,
                   status, fp, completions>>
-----------------------------------------------------------------------------
\* The Fetcher (environment) calls _listCollectionsCallback on thread F
\* with the next response: an error when it was shut down or the remote
\* command failed past its retries, else a batch, the last one once
\* MaxBatches have come.
Deliver ==
    /\ fetch = "waiting" /\ pc["F"] = "idle" /\ batches < MaxBatches
    /\ batches' = batches + 1
    /\ \/ /\ fetch' = "done"
          /\ Finish("F", "error")   \* if (!result.isOK()) _finishCallback(...)
          /\ UNCHANGED <<batch, last>>
       \/ /\ ~canceled
          /\ \E b \in Batches, lst \in BOOLEAN :
                /\ lst \/ batches + 1 < MaxBatches
                /\ batch' = b /\ last' = lst
          /\ pc' = [pc EXCEPT !["F"] = "list"]
          /\ UNCHANGED <<fetch, status>>
    /\ UNCHANGED <<state, infos, nColls, cloned, cloners, cur, canceled, tpc, fp,
                   completions>>

\* The parse loop stops at the first info that is rejected: a Bad one, or
\* a name already in seen; Len(s) + 1 if there is none.
FirstRejected(s) ==
    LET R == {k \in 1..Len(s) : s[k] = Bad \/ \E j \in 1..k - 1 : s[j] = s[k]}
    IN IF R = {} THEN Len(s) + 1 ELSE Min(R)

\* The CollectionCloners the loop constructs for infos 1..k - 1.
NewCloners(s, k) == [i \in 1..k - 1 |-> <<s[i], "PreStart">>]

(* _listCollectionsCallback with an OK batch, from UniqueLock lk(_mutex) to *)
(* its end: append the batch, count it, and return for a getMore; after    *)
(* the last batch finish an empty database, or parse the infos, construct *)
(* the cloners and start the first.                                       *)
ListCollections ==
    /\ pc["F"] = "list"
    /\ LET all == infos \o batch
           k == FirstRejected(all)
       IN /\ infos' = all
          /\ nColls' = nColls + Len(all)   \* _stats.collections += _collectionInfos.size()
          /\ \/ /\ ~last
                /\ pc' = [pc EXCEPT !["F"] = "idle"]   \* the Fetcher sends the getMore
                /\ UNCHANGED <<fetch, cloners, cur, status>>
             \/ /\ last /\ all = <<>>
                /\ fetch' = "done"
                /\ Finish("F", "ok")
                /\ UNCHANGED <<cloners, cur>>
             \/ /\ last /\ all # <<>> /\ k <= Len(all)
                /\ fetch' = "done"
                /\ cloners' = cloners \o NewCloners(all, k)
                /\ Finish("F", "error")
                /\ UNCHANGED cur
             \/ /\ last /\ all # <<>> /\ k > Len(all)
                /\ fetch' = "done"
                /\ cur' = Len(cloners) + 1
                /\ StartCloner(cloners \o NewCloners(all, k), Len(cloners) + 1, "F")
    /\ UNCHANGED <<state, cloned, canceled, batches, batch, last, tpc, fp,
                   completions>>

\* A running CollectionCloner (environment) completes and calls
\* _collectionClonerCallback on thread K: with an error if it was shut
\* down, else OK or an error.  The callback records the status under the
\* lock and unlocks to call _collectionWork.
ClonerDone ==
    /\ pc["K"] = "idle"
    /\ \E i \in DOMAIN cloners, ok \in BOOLEAN :
          /\ cloners[i][2] \in {"Running", "ShuttingDown"}
          /\ cloners' = [cloners EXCEPT ![i][2] = "Complete"]
          /\ status' = [status EXCEPT !["K"] =
                           IF ok /\ cloners[i][2] = "Running" THEN "ok" ELSE "error"]
    /\ pc' = [pc EXCEPT !["K"] = "work"]
    /\ UNCHANGED <<state, infos, nColls, cloned, cur, fetchVars, tpc, fp,
                   completions>>

\* Seeded bug: the test for a next cloner is off by one, so the callback
\* of the next to last finishes.
CollectionClonerDoneEarly ==
    /\ pc["K"] = "work"
    /\ \/ /\ status["K"] = "error"
          /\ Finish("K", "error")
          /\ UNCHANGED <<cloned, cur, cloners>>
       \/ /\ status["K"] = "ok"
          /\ cloned' = cloned + 1
          /\ cur' = cur + 1
          /\ IF cur + 1 < Len(cloners)
             THEN StartCloner(cloners, cur + 1, "K")
             ELSE Finish("K", "ok") /\ UNCHANGED cloners
    /\ UNCHANGED <<state, infos, nColls, fetchVars, tpc, fp, completions>>

(* _collectionClonerCallback after _collectionWork, under the lock again:  *)
(* an error finishes with InitialSyncFailure; else count the collection,   *)
(* advance the iterator and start the next cloner, or finish with OK after *)
(* the last.                                                              *)
CollectionClonerDone ==
    /\ pc["K"] = "work"
    /\ \/ /\ status["K"] = "error"
          /\ Finish("K", "error")
          /\ UNCHANGED <<cloned, cur, cloners>>
       \/ /\ status["K"] = "ok"
          /\ cloned' = cloned + 1
          /\ cur' = cur + 1
          /\ IF cur + 1 <= Len(cloners)
             THEN StartCloner(cloners, cur + 1, "K")
             ELSE Finish("K", "ok") /\ UNCHANGED cloners
    /\ UNCHANGED <<state, infos, nColls, fetchVars, tpc, fp, completions>>

(* _finishCallback: _onCompletion(status), outside the lock. *)
OnCompletion(th) ==
    /\ pc[th] = "finish"
    /\ completions' = Append(completions, status[th])
    /\ pc' = [pc EXCEPT ![th] = "finishLock"]
    /\ UNCHANGED <<state, infos, nColls, cloned, cloners, cur, fetchVars, status,
                   tpc, fp>>

(* _finishCallback under the lock: invariant(_state != kComplete), the     *)
(* state becomes Complete and _condition.notify_all() wakes every thread  *)
(* waiting in join().                                                     *)
FinishLock(th) ==
    /\ pc[th] = "finishLock"
    /\ state' = "Complete"
    /\ pc' = [pc EXCEPT ![th] = "idle"]
    /\ tpc' = [t \in Threads |-> IF tpc[t] = "wait" THEN "join" ELSE tpc[t]]
    /\ UNCHANGED <<infos, nColls, cloned, cloners, cur, fetchVars, status, fp,
                   completions>>

Callbacks ==
    \/ Deliver \/ ListCollections \/ ClonerDone \/ CollectionClonerDone
    \/ \E th \in {"F", "K"} : OnCompletion(th) \/ FinishLock(th)

Caller == Startup \/ HangEnds \/ ScheduleFetcher

Next ==
    \/ Caller \/ Shutdown \/ DisableFailPoint \/ Callbacks
    \/ \E t \in Threads : Join(t)

\* The caller's and the stopper's threads keep running, the executor
\* delivers every scheduled response and runs every scheduled cloner to
\* its end, and a test that enables the fail point disables it again
\* (weak fairness); nobody need ever call shutdown().  A thread waiting in
\* join() moves only when notified: spurious wakeups are not assumed.
Fairness ==
    /\ WF_vars(Caller) /\ WF_vars(DisableFailPoint)
    /\ \A t \in Threads : WF_vars(Join(t))
    /\ WF_vars(Deliver) /\ WF_vars(ListCollections)
    /\ WF_vars(ClonerDone) /\ WF_vars(CollectionClonerDone)
    /\ \A th \in {"F", "K"} : WF_vars(OnCompletion(th)) /\ WF_vars(FinishLock(th))

Spec == Init /\ [][Next]_vars /\ Fairness
-----------------------------------------------------------------------------
\* invariant(_state != State::kComplete) in _finishCallback never fails:
\* whichever thread finishes (the Fetcher's callback on an error or an
\* empty database, a collection cloner's on an error or the last
\* collection), no other finish and no shutdown() has completed the
\* cloner before it.
FinishAssertHolds ==
    \A th \in {"F", "K"} : pc[th] = "finishLock" => state # "Complete"

\* _onCompletion is called at most once, and with OK only when every
\* collection listed was cloned, in the order listed, by its own cloner.
OkMeansAllCloned ==
    /\ Len(completions) <= 1
    /\ completions = <<"ok">> =>
          /\ cloned = Len(infos) /\ Len(cloners) = Len(infos)
          /\ \A i \in DOMAIN cloners : cloners[i] = <<infos[i], "Complete">>

\* join() returns, on every thread that calls it: a cloner that started,
\* finished or was shut down always ends inactive, whatever errors and
\* shutdowns happen, and the thread that waits for it is woken.
JoinReturns == \A t \in Threads : tpc[t] = "join" ~> tpc[t] = "done"

\* No CollectionCloner starts after shutdown(): shutdown() shuts down the
\* cloners that exist and the Fetcher, and only a Running cloner starts
\* new ones.
NoClonerStartsAfterShutdown ==
    [][\A i \in DOMAIN cloners' :
          /\ cloners'[i][2] = "Running"
          /\ (i \notin DOMAIN cloners \/ cloners[i][2] = "PreStart")
          => state = "Running"]_vars

\* The cloner implements DatabaseClonerLifecycle: its _state, whether the
\* listCollections Fetcher was ever scheduled, and the statuses passed to
\* _onCompletion behave as the lifecycle allows.  In particular the
\* Fetcher is scheduled only while Running, never after shutdown() (even
\* when startup() hangs on the fail point and relocks after a shutdown),
\* the cloner is Complete without a report only if nothing was scheduled,
\* and every scheduled cloner reports once and completes.
Lifecycle == INSTANCE DatabaseClonerLifecycle
    WITH scheduled <- fetch # "none", reported <- completions,
         Statuses <- {"ok", "error"}

ImplementsLifecycle == Lifecycle!Spec
====
