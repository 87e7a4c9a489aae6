-------------------------- MODULE MCRecordStoreTests --------------------------
(***************************************************************************)
(* Model-checking instance of RecordStoreTests: the harness's non-capped   *)
(* store, one operation context, and the N = 10 records of Cursor1.       *)
(***************************************************************************)
EXTENDS RecordStoreTests

\* Content tags of the test strings: the four named ones and "eliot0".."eliot9".
TestVals == 1..10

\* -1: no limit (a .cfg cannot write a negative number)
NoLimit == -1
====
