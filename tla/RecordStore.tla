----------------------------- MODULE RecordStore -----------------------------
(***************************************************************************)
(* The in-memory record store of                                           *)
(* src/src/mongo/db/storage/ephemeral_for_test/                            *)
(*   ephemeral_for_test_record_store.cpp                                   *)
(* together with the recovery unit it registers undo Changes with.         *)
(*                                                                         *)
(* The store state is _data: the ordered map `records` from RecordId to a  *)
(* record, the running `dataSize` and the allocator `nextId`.  A record's  *)
(* bytes are abstracted to its length and a content tag.  Every mutating   *)
(* primitive takes _data->recordsMutex for its whole duration, so each     *)
(* primitive is one atomic step here; the undo Changes it registers are    *)
(* kept per transaction in `changes`.  Rolling a transaction back runs the *)
(* Changes' rollback() one at a time (each takes the mutex on its own), so *)
(* other transactions may interleave between them.                         *)
(*                                                                         *)
(* The recovery unit (RecoveryUnit / WriteUnitOfWork) is not under src/:   *)
(* Begin, Commit, Abort and RollbackStep are modelled from spec.md §6      *)
(* ("each registered Change is resolved exactly once, rollbacks run in     *)
(* reverse registration order").  XLock says whether callers hold the      *)
(* collection lock exclusively from a transaction's first write to its end *)
(* (what the server's lock manager does for an engine without document     *)
(* level locking); with XLock = FALSE transactions interleave freely, as   *)
(* spec.md §5 describes.                                                   *)
(***************************************************************************)
EXTENDS Integers, Sequences, SequencesExt, FiniteSets, FiniteSetsExt, TLC

CONSTANTS
    Txns,            \* operation contexts, each with one recovery unit
    NoTxn,           \* no transaction holds the collection lock
    Lens,            \* record lengths in bytes
    Vals,            \* record contents, abstracted to a tag
    MaxId,           \* bound: record ids are 1..MaxId
    MaxBatch,        \* bound: records per insertRecords call
    MaxChanges,      \* bound: an operation starts only below this log length
    IsCapped,        \* _isCapped
    CappedMaxSize,   \* _cappedMaxSize (-1 when not capped)
    CappedMaxDocs,   \* _cappedMaxDocs (-1 when unlimited)
    IsOplog,         \* _data->isOplog
    CallbackMayVeto, \* a CappedCallback is installed and may fail
    XLock            \* callers serialize transactions on the collection

ASSUME IsCapped => CappedMaxSize > 0 /\ (CappedMaxDocs = -1 \/ CappedMaxDocs > 0)
ASSUME ~IsCapped => CappedMaxSize = -1 /\ CappedMaxDocs = -1 /\ ~CallbackMayVeto
ASSUME NoTxn \notin Txns /\ MaxId \in Nat \ {0} /\ MaxBatch \in Nat \ {0}

Ids == 1..MaxId
Null == 0                       \* RecordId(): the null id
Rec == [len : Lens, val : Vals] \* EphemeralForTestRecord
\* An input record; ts is the key oploghack::extractKey finds, 0 when the
\* payload is malformed.  Non-oplog stores never look at it.
Inputs == [len : Lens, val : Vals, ts : IF IsOplog THEN {0} \cup Ids ELSE {0}]
Batches == UNION {[1..n -> Inputs] : n \in 1..MaxBatch}

VARIABLES
    records,   \* _data->records : RecordId -> record
    dataSize,  \* _data->dataSize
    nextId,    \* _data->nextId
    changes,   \* the Changes registered with each transaction's recovery unit
    txn,       \* "none" | "active" | "aborting" (rolling back)
    pending,   \* insertRecords in progress: records left and log length at the call
    status,    \* result of each transaction's last insertRecords call
    owner,     \* transaction holding the collection lock (XLock)
    fault,     \* an invariant() failure or undefined behaviour that happened
    evicted    \* ghost: ids removed by capped eviction and not restored

storeVars == <<records, dataSize, nextId, changes, txn, pending, status,
               owner, fault, evicted>>

-----------------------------------------------------------------------------
(* Helpers on the ordered map.                                             *)

Erase(f, k) == [x \in DOMAIN f \ {k} |-> f[x]]
Put(f, k, v) == (k :> v) @@ f
NoRecords == [k \in {} |-> Null]   \* the empty map
SizeOf(f) == FoldFunction(LAMBDA r, acc : r.len + acc, 0, f)

\* The three Change classes of the file.
InsertChange(loc) == [kind |-> "insert", loc |-> loc]
RemoveChange(loc, rec) == [kind |-> "remove", loc |-> loc, rec |-> rec]
TruncateChange(recs, size) == [kind |-> "truncate", recs |-> recs, size |-> size]
\* A possible content of the map: the set of them is too large to enumerate
\* for ten ids, so it is a predicate.
IsRecMap(f) == DOMAIN f \subseteq Ids /\ \A i \in DOMAIN f : f[i] \in Rec
IsChange(c) ==
    \/ c \in [kind : {"insert"}, loc : Ids]
    \/ c \in [kind : {"remove"}, loc : Ids, rec : Rec]
    \/ /\ DOMAIN c = {"kind", "recs", "size"} /\ c.kind = "truncate"
       /\ IsRecMap(c.recs) /\ c.size \in Int

(***************************************************************************)
(* An operation works on a working copy s of the store and the calling     *)
(* transaction's log: [recs, size, log, evicted, veto, fault].             *)
(***************************************************************************)
Work(t) == [recs |-> records, size |-> dataSize, log |-> changes[t],
            evicted |-> evicted, veto |-> FALSE, fault |-> "none"]

\* Seeded bug: the record is erased without `dataSize -= rec->size`.
DeleteRecordWKeepsSize(s, loc) ==
    [s EXCEPT !.log = Append(@, RemoveChange(loc, s.recs[loc])),
              !.recs = Erase(@, loc)]

\* deleteRecord(WithLock, ...): register a RemoveChange, then erase.
DeleteRecordW(s, loc) ==
    [s EXCEPT !.log = Append(@, RemoveChange(loc, s.recs[loc])),
              !.size = @ - s.recs[loc].len,
              !.recs = Erase(@, loc)]

\* Seeded bug: maxDocs ignored.
cappedAndNeedDeleteNoDocs(s) == IsCapped /\ s.size > CappedMaxSize

cappedAndNeedDelete(s) ==
    /\ IsCapped
    /\ \/ s.size > CappedMaxSize
       \/ CappedMaxDocs # -1 /\ Cardinality(DOMAIN s.recs) > CappedMaxDocs

\* The record cappedDeleteAsNeeded evicts next: records.begin().
newestInstead(s) == Max(DOMAIN s.recs)   \* seeded bug: records.rbegin()
oldest(s) == Min(DOMAIN s.recs)

(***************************************************************************)
(* cappedDeleteAsNeeded: the set of outcomes of the loop.  Each iteration  *)
(* may meet a vetoing aboutToDeleteCapped, whose uassert throws out of the *)
(* whole operation with the work done so far left in place.               *)
(***************************************************************************)
RECURSIVE cappedDeleteAsNeeded(_)
cappedDeleteAsNeeded(s) ==
    IF ~cappedAndNeedDelete(s) THEN {s}
    ELSE IF DOMAIN s.recs = {} THEN {[s EXCEPT !.fault = "evictEmpty"]}
    ELSE LET id == oldest(s) IN
         (IF CallbackMayVeto THEN {[s EXCEPT !.veto = TRUE]} ELSE {})
         \cup cappedDeleteAsNeeded(
                [DeleteRecordW(s, id) EXCEPT !.evicted = @ \cup {id}])

\* Store a working copy back.  A vetoed operation throws: the caller's unit
\* of work is abandoned, and rolled back if it registered any Change.
Apply(t, s) ==
    /\ records' = s.recs
    /\ dataSize' = s.size
    /\ changes' = [changes EXCEPT ![t] = s.log]
    /\ evicted' = s.evicted \ DOMAIN s.recs
    /\ fault' = s.fault
    /\ IF s.veto /\ s.log = <<>>
       THEN txn' = [txn EXCEPT ![t] = "none"] /\ owner' = IF owner = t THEN NoTxn ELSE owner
       ELSE /\ txn' = IF s.veto THEN [txn EXCEPT ![t] = "aborting"] ELSE txn
            /\ UNCHANGED owner

-----------------------------------------------------------------------------
TypeOK ==
    /\ IsRecMap(records)
    /\ dataSize \in Int
    /\ nextId \in 1..MaxId + 1
    /\ \A t \in Txns : /\ DOMAIN changes[t] = 1..Len(changes[t])
                       /\ \A i \in DOMAIN changes[t] : IsChange(changes[t][i])
    /\ txn \in [Txns -> {"none", "active", "aborting"}]
    /\ pending \in [Txns -> [rest : Seq(Inputs), mark : Nat]]
    /\ status \in [Txns -> {"none", "OK", "BadValue", "Vetoed"}]
    /\ owner \in Txns \cup {NoTxn}
    /\ fault \in {"none", "evictEmpty", "useAfterFree"}
    /\ evicted \subseteq Ids

Init ==
    /\ records = NoRecords
    /\ dataSize = 0
    /\ nextId = 1
    /\ changes = [t \in Txns |-> <<>>]
    /\ txn = [t \in Txns |-> "none"]
    /\ pending = [t \in Txns |-> [rest |-> <<>>, mark |-> 0]]
    /\ status = [t \in Txns |-> "none"]
    /\ owner = NoTxn
    /\ fault = "none"
    /\ evicted = {}
-----------------------------------------------------------------------------
(***************************************************************************)
(* The rollback() of each Change class, on a store [recs, size].           *)
(***************************************************************************)
\* Seeded bug: the record is erased but dataSize is left alone.
InsertChangeRollbackKeepsSize(st, loc) ==
    IF loc \in DOMAIN st.recs THEN [st EXCEPT !.recs = Erase(@, loc)] ELSE st

InsertChangeRollback(st, loc) ==
    IF loc \in DOMAIN st.recs
    THEN [recs |-> Erase(st.recs, loc), size |-> st.size - st.recs[loc].len]
    ELSE st

\* Seeded bug: the saved record is put back only when its id is missing,
\* so the rollback of an update leaves the new contents.
RemoveChangeRollbackIfMissing(st, loc, rec) ==
    IF loc \in DOMAIN st.recs THEN st
    ELSE [recs |-> Put(st.recs, loc, rec), size |-> st.size + rec.len]

RemoveChangeRollback(st, loc, rec) ==
    [recs |-> Put(st.recs, loc, rec),
     size |-> st.size - (IF loc \in DOMAIN st.recs THEN st.recs[loc].len ELSE 0)
                      + rec.len]

\* swap(_dataSize, _data->dataSize); swap(_records, _data->records)
TruncateChangeRollback(st, recs, size) == [recs |-> recs, size |-> size]

RollbackChange(st, ch) ==
    CASE ch.kind = "insert" -> InsertChangeRollback(st, ch.loc)
      [] ch.kind = "remove" -> RemoveChangeRollback(st, ch.loc, ch.rec)
      [] ch.kind = "truncate" -> TruncateChangeRollback(st, ch.recs, ch.size)

-----------------------------------------------------------------------------
(***************************************************************************)
(* Transactions (the recovery unit, modelled from spec.md §6).             *)
(***************************************************************************)
Release(t) == owner' = IF owner = t THEN NoTxn ELSE owner

Begin(t) ==
    /\ txn[t] = "none" /\ fault = "none"
    /\ XLock => owner = NoTxn
    /\ txn' = [txn EXCEPT ![t] = "active"]
    /\ owner' = IF XLock THEN t ELSE owner
    /\ UNCHANGED <<records, dataSize, nextId, changes, pending, status, fault, evicted>>

\* commit(): every Change's commit() is a no-op; the log is discarded.
Commit(t) ==
    /\ txn[t] = "active" /\ pending[t].rest = <<>> /\ fault = "none"
    /\ changes' = [changes EXCEPT ![t] = <<>>]
    /\ txn' = [txn EXCEPT ![t] = "none"]
    /\ Release(t)
    /\ UNCHANGED <<records, dataSize, nextId, pending, status, fault, evicted>>

\* The caller abandons the unit of work (an error, or a thrown uassert).
Abort(t) ==
    /\ txn[t] = "active" /\ pending[t].rest = <<>> /\ fault = "none"
    /\ txn' = [txn EXCEPT ![t] = IF changes[t] = <<>> THEN "none" ELSE "aborting"]
    /\ IF changes[t] = <<>> THEN Release(t) ELSE UNCHANGED owner
    /\ UNCHANGED <<records, dataSize, nextId, changes, pending, status, fault, evicted>>

\* The newest unresolved Change is rolled back, under the store mutex.
RollbackStep(t) ==
    /\ txn[t] = "aborting" /\ changes[t] # <<>> /\ fault = "none"
    /\ LET st == RollbackChange([recs |-> records, size |-> dataSize],
                                Last(changes[t]))
       IN /\ records' = st.recs
          /\ dataSize' = st.size
          /\ evicted' = evicted \ DOMAIN st.recs
    /\ changes' = [changes EXCEPT ![t] = Front(@)]
    /\ IF Len(changes[t]) = 1
       THEN txn' = [txn EXCEPT ![t] = "none"] /\ Release(t)
       ELSE UNCHANGED <<txn, owner>>
    /\ UNCHANGED <<nextId, pending, status, fault>>

-----------------------------------------------------------------------------
(***************************************************************************)
(* Store operations.                                                       *)
(***************************************************************************)
CanStart(t) ==
    /\ txn[t] = "active" /\ pending[t].rest = <<>> /\ fault = "none"
    /\ Len(changes[t]) < MaxChanges

Idle == [rest |-> <<>>, mark |-> 0]

\* insertRecords: the size check of every record of the batch, before any
\* record is inserted; the records are then inserted one by one.
insertRecords(t, batch) ==
    /\ CanStart(t)
    /\ ~IsOplog => nextId + Len(batch) - 1 <= MaxId   \* bound MaxId on allocateLoc
    /\ IF IsCapped /\ \E i \in DOMAIN batch : batch[i].len > CappedMaxSize
       THEN /\ status' = [status EXCEPT ![t] = "BadValue"]
            /\ UNCHANGED pending
       ELSE /\ pending' = [pending EXCEPT ![t] = [rest |-> batch,
                                                  mark |-> Len(changes[t])]]
            /\ UNCHANGED status
    /\ UNCHANGED <<records, dataSize, nextId, changes, txn, owner, fault, evicted>>

\* Seeded bug: the key off by one.
extractAndCheckLocForOplogOffByOne(recs, in) ==
    IF in.ts = 0 \/ (DOMAIN recs # {} /\ in.ts <= Max(DOMAIN recs)) THEN Null ELSE in.ts + 1

\* extractAndCheckLocForOplog: the extracted key, or Null for the error
\* (a malformed payload, or a key not above the last record's).
extractAndCheckLocForOplog(recs, in) ==
    IF in.ts = 0 \/ (DOMAIN recs # {} /\ in.ts <= Max(DOMAIN recs))
    THEN Null ELSE in.ts

allocateLocSkip(n) == n + 2   \* seeded bug: nextId advanced twice
\* allocateLoc: _data->nextId++, the allocator's value after handing out n.
allocateLoc(n) == n + 1

\* insertSingleFn on the head of the batch, under the store mutex; a
\* failure returns the status and abandons the rest of the batch.
insertSingle(t) ==
    LET in == Head(pending[t].rest)
        loc == IF IsOplog THEN extractAndCheckLocForOplog(records, in) ELSE nextId
        rest == Tail(pending[t].rest)
    IN
    /\ pending[t].rest # <<>> /\ fault = "none"
    /\ IF loc = Null
       THEN /\ pending' = [pending EXCEPT ![t] = Idle]
            /\ status' = [status EXCEPT ![t] = "BadValue"]
            /\ UNCHANGED <<records, dataSize, nextId, changes, txn, owner,
                           fault, evicted>>
       ELSE LET s0 == [Work(t) EXCEPT
                         !.size = @ + in.len,
                         !.recs = Put(@, loc, [len |-> in.len, val |-> in.val]),
                         !.log = Append(@, InsertChange(loc))]
            IN \E s \in cappedDeleteAsNeeded(s0) :
                 /\ Apply(t, s)
                 /\ nextId' = IF IsOplog THEN nextId ELSE allocateLoc(nextId)
                 /\ pending' = [pending EXCEPT ![t] =
                                  IF s.veto \/ rest = <<>> THEN Idle
                                  ELSE [@ EXCEPT !.rest = rest]]
                 /\ status' = [status EXCEPT ![t] =
                                  IF s.veto THEN "Vetoed"
                                  ELSE IF rest = <<>> THEN "OK" ELSE @]

\* recordFor(WithLock, loc), as updateRecord, updateWithDamages and
\* deleteRecord call it: find loc, and invariant(it != end).  Callers pass
\* the id of a record they hold, so the operations are taken only where
\* the invariant holds.
recordFor(loc) == loc \in DOMAIN records

updateRecord(t, loc, r) ==
    /\ CanStart(t)
    /\ recordFor(loc)
    /\ ~IsCapped \/ r.len = records[loc].len
    /\ LET s0 == [Work(t) EXCEPT
                    !.log = Append(@, RemoveChange(loc, records[loc])),
                    !.size = @ + r.len - records[loc].len,
                    !.recs = Put(@, loc, r)]
       IN \E s \in cappedDeleteAsNeeded(s0) : Apply(t, s)
    /\ UNCHANGED <<nextId, pending, status>>

(***************************************************************************)
(* updateWithDamages: the old record is saved in a RemoveChange and        *)
(* replaced by a same-length copy, cappedDeleteAsNeeded runs, and only     *)
(* then are the damages applied and the record written again through the  *)
(* pointer taken before eviction.                                          *)
(***************************************************************************)
updateWithDamages(t, loc, v) ==
    /\ CanStart(t)
    /\ recordFor(loc)
    /\ LET old == records[loc]
           s0 == [Work(t) EXCEPT !.log = Append(@, RemoveChange(loc, old))]
       IN \E s \in cappedDeleteAsNeeded(s0) :
            Apply(t, CASE s.veto \/ s.fault # "none" -> s
                       [] loc \notin DOMAIN s.recs -> [s EXCEPT !.fault = "useAfterFree"]
                       [] OTHER -> [s EXCEPT !.recs = Put(@, loc, [old EXCEPT !.val = v])])
    /\ UNCHANGED <<nextId, pending, status>>

deleteRecord(t, loc) ==
    /\ CanStart(t)
    /\ recordFor(loc)
    /\ Apply(t, DeleteRecordW(Work(t), loc))
    /\ UNCHANGED <<nextId, pending, status>>

\* truncate: the TruncateChange constructor swaps the map and size out.
truncate(t) ==
    /\ CanStart(t)
    /\ changes' = [changes EXCEPT ![t] = Append(@, TruncateChange(records, dataSize))]
    /\ records' = NoRecords
    /\ dataSize' = 0
    /\ UNCHANGED <<nextId, txn, pending, status, owner, fault, evicted>>

\* The loop of cappedTruncateAfter over the ids ks still to delete.
RECURSIVE truncateAfterLoop(_, _)
truncateAfterLoop(s, ks) ==
    IF ks = {} THEN {s}
    ELSE LET id == Min(ks) IN
         (IF CallbackMayVeto THEN {[s EXCEPT !.veto = TRUE]} ELSE {})
         \cup truncateAfterLoop(DeleteRecordW(s, id), ks \ {id})

\* cappedTruncateAfter does not test _isCapped itself; only capped stores
\* (the oplog, whose rollback calls it) are truncated this way.
cappedTruncateAfter(t, end, inclusive) ==
    /\ IsCapped
    /\ CanStart(t)
    /\ LET doomed == {k \in DOMAIN records : IF inclusive THEN k >= end ELSE k > end}
       IN \E s \in truncateAfterLoop(Work(t), doomed) : Apply(t, s)
    /\ UNCHANGED <<nextId, pending, status>>

StoreNext ==
    \E t \in Txns :
        \/ Begin(t) \/ Commit(t) \/ Abort(t) \/ RollbackStep(t)
        \/ \E b \in Batches : insertRecords(t, b)
        \/ insertSingle(t)
        \/ \E loc \in Ids, r \in Rec : updateRecord(t, loc, r)
        \/ \E loc \in Ids, v \in Vals : updateWithDamages(t, loc, v)
        \/ \E loc \in Ids : deleteRecord(t, loc)
        \/ truncate(t)
        \/ \E e \in Ids, inc \in BOOLEAN : cappedTruncateAfter(t, e, inc)

Spec == Init /\ [][StoreNext]_storeVars
-----------------------------------------------------------------------------
(***************************************************************************)
(* Read-only accessors, under the mutex.                                   *)
(***************************************************************************)
numRecords == Cardinality(DOMAIN records)

\* dataFor: the record's contents; recordFor's invariant(it != end()) makes
\* a call with an absent id fatal, so callers check dataForDefined first.
dataForDefined(loc) == loc \in DOMAIN records
dataFor(loc) == records[loc].val

\* findRecord: whether the id is present, and its data (null RecordData
\* when absent).
findRecord(loc) ==
    IF loc \in DOMAIN records THEN [found |-> TRUE, rd |-> records[loc].val]
    ELSE [found |-> FALSE, rd |-> Null]

-----------------------------------------------------------------------------
(***************************************************************************)
(* oplogStartHack: the greatest id <= startingPosition, or Null when the   *)
(* position precedes every record (lower_bound, then one step back).       *)
(***************************************************************************)
LowerBound(D, k) == IF \E x \in D : x >= k THEN Min({x \in D : x >= k}) ELSE MaxId + 1

\* Seeded bug: the step back only at end(), not past the position.
oplogStartHackNoPositionCheck(recs, startingPosition) ==
    LET D == DOMAIN recs
        it == LowerBound(D, startingPosition)
    IN IF D = {} THEN Null
       ELSE IF it = MaxId + 1
            THEN IF it = Min(D) THEN Null ELSE Max({x \in D : x < it})
            ELSE it

oplogStartHack(recs, startingPosition) ==
    LET D == DOMAIN recs
        it == LowerBound(D, startingPosition)
    IN IF D = {} THEN Null
       ELSE IF it = MaxId + 1 \/ it > startingPosition
            THEN IF it = Min(D) THEN Null ELSE Max({x \in D : x < it})
            ELSE it

-----------------------------------------------------------------------------
(***************************************************************************)
(* Properties.                                                             *)
(***************************************************************************)

\* The running dataSize equals the total length of the records present,
\* through inserts, updates, evictions, truncation and the rollback of any
\* of them (InsertChange and RemoveChange adjust it by the length of the
\* record they find, not the one they saw).
DataSizeConsistent == dataSize = SizeOf(records)

Quiescent == \A t \in Txns : txn[t] # "aborting"

\* A capped store holds at most cappedMaxSize bytes and cappedMaxDocs
\* records whenever no transaction is in the middle of being rolled back
\* (spec.md §3: enforced synchronously after every insert and update).
CappedBound ==
    IsCapped /\ Quiescent =>
        /\ dataSize <= CappedMaxSize
        /\ CappedMaxDocs = -1 \/ Cardinality(DOMAIN records) <= CappedMaxDocs

\* Capped eviction removes the oldest records: every record evicted (and
\* not restored by a rollback) has a lower id than every record present.
\* (Ids follow insertion order in a store with an allocator.)
CappedEvictsOldestFirst ==
    \A e \in evicted, k \in DOMAIN records : e < k

\* oplogStartHack returns the greatest record id at or before the starting
\* position, and Null when there is none.
OplogStartHackCorrect ==
    IsOplog =>
        \A p \in 0..MaxId + 1 :
            LET below == {k \in DOMAIN records : k <= p}
            IN oplogStartHack(records, p) = IF below = {} THEN Null ELSE Max(below)

RollbackFindsItsRecord ==
    [][\A t \in Txns :
         RollbackStep(t) /\ Last(changes[t]).kind = "insert"
             => Last(changes[t]).loc \in DOMAIN records]_storeVars

-----------------------------------------------------------------------------
(***************************************************************************)
(* Refinement of TransactionalRecords (with XLock: one open transaction).  *)
(* The committed records are the store with the lock holder's Changes      *)
(* rolled back newest first, as the recovery unit would.                   *)
(***************************************************************************)
RECURSIVE UndoAll(_, _)
UndoAll(st, log) ==
    IF log = <<>> THEN st ELSE UndoAll(RollbackChange(st, Last(log)), Front(log))

CommittedRecords ==
    IF owner = NoTxn THEN records
    ELSE UndoAll([recs |-> records, size |-> dataSize], changes[owner]).recs

Abstract == INSTANCE TransactionalRecords
                WITH committed <- CommittedRecords,
                     open <- {t \in Txns : txn[t] # "none"},
                     IsMap <- IsRecMap

\* Every primitive registers Changes that undo exactly what it did, so no
\* step but a commit changes the committed records: a transaction that is
\* rolled back (after a veto, a partial batch, a truncate ...) leaves the
\* store as it found it.
TxnRefinement == Abstract!Spec
====
