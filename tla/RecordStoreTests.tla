--------------------------- MODULE RecordStoreTests ---------------------------
(***************************************************************************)
(* The unit tests of src/src/mongo/db/storage/record_store_test_harness.cpp *)
(* replayed against the RecordStore and RecordCursor models.               *)
(*                                                                         *)
(* Each TEST is a script: the calls it makes, in order, and the ASSERTs    *)
(* between them.  A driver runs the script line by line with the model's   *)
(* own actions (the test's single operation context is transaction T) and  *)
(* every ASSERT is checked as an invariant at the line that makes it.      *)
(* Strings are content tags: "eliot was here" is 1, "eliot was here again" *)
(* 2, "aaa111bbb" 3, "aaa222bbb" 4, and "eliot" << i is i + 1.  Lengths are *)
(* 1 for the short strings and 2 for the long one.                         *)
(***************************************************************************)
EXTENDS RecordCursor

VARIABLES
    test,  \* the TEST being replayed
    l,     \* the script line it is at
    rid,   \* the test's local RecordId (loc / loc1)
    x      \* the test's local counter in Cursor1

testVars == <<test, l, rid, x>>
allVars == <<vars, testVars>>

T == CHOOSE t \in Txns : TRUE
Fwd == CHOOSE c \in ForwardCursors : TRUE
Rev == CHOOSE c \in Cursors \ ForwardCursors : TRUE

\* A script line: an operation and up to two arguments.
St(op, a, b) == [op |-> op, a |-> a, b |-> b]
Begin_ == St("begin", 0, 0)          \* WriteUnitOfWork uow(opCtx)
Commit_ == St("commit", 0, 0)        \* uow.commit()
Insert_(len, v) == St("insert", len, v)
Ok_(save) == St("ok", save, 0)       \* ASSERT_OK(res.getStatus()) [; loc = res.getValue()]
Count_(n) == St("count", n, 0)       \* ASSERT_EQUALS(n, rs->numRecords())
Data_(v) == St("data", v, 0)         \* ASSERT_EQUALS(s, rs->dataFor(loc).data())
Found_(v) == St("found", v, 0)       \* ASSERT(rs->findRecord(loc, &rd)); ASSERT_EQUALS(s, rd.data())
NotFound_(id) == St("notfound", id, 0)
-----------------------------------------------------------------------------
Simple1 ==
    << Count_(0),
       Begin_, Insert_(1, 1), Ok_(TRUE), Commit_, Data_(1),
       Data_(1), Count_(1), NotFound_(MaxId), Found_(1),
       Begin_, Insert_(1, 1), Ok_(FALSE), Commit_,
       Count_(2) >>

Delete1 ==
    << Count_(0),
       Begin_, Insert_(1, 1), Ok_(TRUE), Commit_, Data_(1),
       Count_(1),
       Begin_, St("delete", 0, 0), Commit_, Count_(0) >>

Delete2 ==
    << Count_(0),
       Begin_, Insert_(1, 1), Ok_(FALSE), Insert_(1, 1), Ok_(TRUE), Commit_,
       Data_(1), Count_(2),
       Begin_, St("delete", 0, 0), Commit_ >>

Update1 ==
    << Count_(0),
       Begin_, Insert_(1, 1), Ok_(TRUE), Commit_,
       Data_(1),
       Begin_, St("update", 2, 2), Commit_,
       Count_(1), Data_(2) >>

\* updateWithDamagesSupported() is true, so the test runs; the damage
\* "222" at offset 3 turns "aaa111bbb" into "aaa222bbb", and the returned
\* record is the stored one.
UpdateInPlace1 ==
    << Begin_, Insert_(1, 3), Ok_(TRUE), Commit_,
       Data_(3),
       Begin_, St("damage", 4, 0), Data_(4), Commit_,
       Data_(4) >>

Truncate1 ==
    << Count_(0),
       Begin_, Insert_(1, 1), Ok_(TRUE), Commit_,
       Data_(1), Count_(1),
       Begin_, St("truncate", 0, 0), Commit_,
       Count_(0) >>

\* N = MaxId records "eliot0".."eliot9" in one unit of work, then a forward
\* and a reverse scan, each checking every record and a final EOF.
Cursor1 ==
    << Count_(0), Begin_ >>
    \o FlattenSeq([i \in 1..MaxId |-> << Insert_(1, i), Ok_(FALSE) >>])
    \o << Commit_, Count_(MaxId),
          St("setx", 0, 0), St("cursor", Fwd, 0),
          St("next", Fwd, 0), St("loop", Fwd, 1),
          St("xis", MaxId, 0), St("next", Fwd, 0), St("eof", Fwd, 0),
          St("setx", MaxId, 0), St("cursor", Rev, 0),
          St("next", Rev, 0), St("loop", Rev, -1),
          St("xis", 0, 0), St("next", Rev, 0), St("eof", Rev, 0) >>

Scripts == [Simple1 |-> Simple1, Delete1 |-> Delete1, Delete2 |-> Delete2,
            Update1 |-> Update1, UpdateInPlace1 |-> UpdateInPlace1,
            Truncate1 |-> Truncate1, Cursor1 |-> Cursor1]
Script == Scripts[test]
Line == Script[l]
-----------------------------------------------------------------------------
\* The tag of the record a Cursor1 scan expects next: "eliot" << x++ going
\* forward, "eliot" << --x going backward.
Expected(dx) == IF dx = 1 THEN x + 1 ELSE x

\* What the ASSERT at a script line claims of the current state.
Holds(st) ==
    CASE st.op = "ok" -> status[T] = "OK"
      [] st.op = "count" -> numRecords = st.a
      [] st.op = "data" -> dataForDefined(rid) /\ dataFor(rid) = st.a
      [] st.op = "found" -> findRecord(rid) = [found |-> TRUE, rd |-> st.a]
      [] st.op = "notfound" -> findRecord(st.a) = [found |-> FALSE, rd |-> Null]
      [] st.op = "loop" -> lastRet[st.a] = EndRet
                           \/ /\ lastRet[st.a] \in DOMAIN records
                              /\ records[lastRet[st.a]].val = Expected(st.b)
      [] st.op = "xis" -> x = st.a
      [] st.op = "eof" -> lastRet[st.a] = EndRet
      [] OTHER -> TRUE

TestInit ==
    /\ CursorInit
    /\ test \in DOMAIN Scripts
    /\ l = 1 /\ rid = Null /\ x = 0

Advance == l' = l + 1 /\ UNCHANGED <<test, rid, x>>

\* A call of the store: the model's action, the cursors untouched.
StoreCall(A) == A /\ UNCHANGED cursorVars /\ Advance
CursorCall(A) == A /\ UNCHANGED storeVars /\ Advance

RunLine ==
    /\ pending[T].rest = <<>>
    /\ l <= Len(Script)
    /\ \/ Line.op = "begin" /\ StoreCall(Begin(T))
       \/ Line.op = "commit" /\ StoreCall(Commit(T))
       \/ Line.op = "insert" /\ StoreCall(insertRecords(T, <<[len |-> Line.a, val |-> Line.b, ts |-> 0]>>))
       \/ Line.op = "delete" /\ StoreCall(deleteRecord(T, rid))
       \/ Line.op = "update" /\ StoreCall(updateRecord(T, rid, [len |-> Line.a, val |-> Line.b]))
       \/ Line.op = "damage" /\ StoreCall(updateWithDamages(T, rid, Line.a))
       \/ Line.op = "truncate" /\ StoreCall(truncate(T))
       \/ Line.op = "cursor" /\ CursorCall(getCursor(Line.a))
       \/ Line.op = "next" /\ CursorCall(CursorNext(Line.a) \/ ReverseCursorNext(Line.a))
       \/ /\ Line.op \in {"count", "data", "found", "notfound", "xis", "eof"}
          /\ UNCHANGED vars /\ Advance
       \/ /\ Line.op = "ok"
          /\ rid' = IF Line.a THEN Last(changes[T]).loc ELSE rid
          /\ l' = l + 1
          /\ UNCHANGED <<vars, test, x>>
       \/ /\ Line.op = "setx"
          /\ x' = Line.a /\ l' = l + 1
          /\ UNCHANGED <<vars, test, rid>>
       \/ /\ Line.op = "loop"
          /\ IF lastRet[Line.a] = EndRet
             THEN l' = l + 1 /\ UNCHANGED x
             ELSE l' = l - 1 /\ x' = x + Line.b
          /\ UNCHANGED <<vars, test, rid>>

\* insertRecord returns only once insertSingleFn has run.
FinishInsert ==
    /\ pending[T].rest # <<>>
    /\ insertSingle(T)
    /\ UNCHANGED <<cursorVars, testVars>>

TestNext == RunLine \/ FinishInsert

\* The test body is one thread that runs its statements in order; it stops
\* after its last statement.
TestSpec == TestInit /\ [][TestNext]_allVars
-----------------------------------------------------------------------------
\* Every ASSERT of every test holds at the line that makes it, once the
\* call before it has returned: the model
\* returns what the store's own unit tests expect of numRecords, dataFor,
\* findRecord, the inserted ids and both cursors' scans.
TestAssertionsHold ==
    l \in DOMAIN Script /\ pending[T].rest = <<>> => Holds(Line)

====
