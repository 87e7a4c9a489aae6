---------------------------- MODULE MCRecordStore ----------------------------
(***************************************************************************)
(* Model-checking instance of RecordStore: the constants come from the     *)
(* .cfg of each run; transactions are a symmetric set of model values.     *)
(***************************************************************************)
EXTENDS RecordStore

TxnSymmetry == Permutations(Txns)

\* -1: no limit (a .cfg cannot write a negative number)
NoLimit == -1
====
