------------------------- MODULE TransactionalRecords -------------------------
(***************************************************************************)
(* What the record store and its recovery unit promise together: the      *)
(* records as of the last resolved transaction (`committed`) change only   *)
(* when a transaction commits; a transaction that rolls back leaves them   *)
(* exactly as they were when it began.  RecordStore implements this when   *)
(* transactions are serialized, with committed mapped to the store with    *)
(* the open transaction's registered Changes undone.                       *)
(***************************************************************************)
CONSTANTS
    Txns,   \* operation contexts
    IsMap(_)    \* whether a value is a possible content of the store

VARIABLES
    committed,  \* the records no open transaction has touched
    open        \* transactions begun and not yet resolved

Init ==
    /\ IsMap(committed)
    /\ open = {}

BeginTxn(t) ==
    /\ t \notin open
    /\ open' = open \cup {t}
    /\ UNCHANGED committed

CommitTxn(t) ==
    /\ t \in open
    /\ open' = open \ {t}
    /\ IsMap(committed')

RollbackTxn(t) ==
    /\ t \in open
    /\ open' = open \ {t}
    /\ UNCHANGED committed

Next == \E t \in Txns : BeginTxn(t) \/ CommitTxn(t) \/ RollbackTxn(t)

Spec == Init /\ [][Next]_<<committed, open>>
====
