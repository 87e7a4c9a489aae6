---------------------------- MODULE MCRecordCursor ---------------------------
(***************************************************************************)
(* Model-checking instance of RecordCursor: one forward and one reverse    *)
(* cursor (model values, not symmetric) over a store written by           *)
(* transactions (a symmetric set of model values).                        *)
(***************************************************************************)
EXTENDS RecordCursor

TxnSymmetry == Permutations(Txns)

\* -1: no limit (a .cfg cannot write a negative number)
NoLimit == -1
====
