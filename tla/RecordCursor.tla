----------------------------- MODULE RecordCursor -----------------------------
(***************************************************************************)
(* The Cursor and ReverseCursor classes of                                 *)
(* ephemeral_for_test_record_store.cpp over the RecordStore model.         *)
(*                                                                         *)
(* A cursor keeps an iterator _it into the store's map and no lock.  Its   *)
(* user saves it (save / saveUnpositioned) before yielding and restores it *)
(* afterwards; writers change the store only while no positioned cursor is *)
(* active, which is what the yield protocol guarantees.  An iterator is    *)
(* modelled by the key it points to, with End (past the last key) for a    *)
(* forward and REnd (before the first key) for a reverse cursor.           *)
(***************************************************************************)
EXTENDS RecordStore

CONSTANTS
    Cursors,         \* cursors open on the store
    ForwardCursors   \* those made by getCursor(forward = true)

ASSUME ForwardCursors \subseteq Cursors

End == MaxId + 1      \* _records.end()
REnd == 0             \* _records.rend()
NoRet == -1           \* ghost: nothing returned since getCursor
EndRet == -2          \* ghost: the last call returned nothing

VARIABLES
    it,                  \* _it
    needFirstSeek,       \* _needFirstSeek
    lastMoveWasRestore,  \* _lastMoveWasRestore
    savedId,             \* _savedId (Null: restore to EOF)
    phase,               \* "active" | "saved" | "dead" (restore returned false)
    lastRet,             \* ghost: id the last next()/seekExact() returned
    stable,              \* ghost: ids present ever since that call
    lost                 \* ghost: ids evicted since that call

cursorVars == <<it, needFirstSeek, lastMoveWasRestore, savedId, phase,
                lastRet, stable, lost>>
vars == <<storeVars, cursorVars>>

Keys == DOMAIN records
\* The first key >= k (lower_bound), or End.
lowerBound(k) == IF \E x \in Keys : x >= k THEN Min({x \in Keys : x >= k}) ELSE End
\* The last key <= k (a reverse_iterator made from upper_bound), or REnd.
atOrBelow(k) == IF \E x \in Keys : x <= k THEN Max({x \in Keys : x <= k}) ELSE REnd

CursorTypeOK ==
    /\ it \in [Cursors -> Ids \cup {End, REnd}]
    /\ needFirstSeek \in [Cursors -> BOOLEAN]
    /\ lastMoveWasRestore \in [Cursors -> BOOLEAN]
    /\ savedId \in [Cursors -> Ids \cup {Null}]
    /\ phase \in [Cursors -> {"active", "saved", "dead"}]
    /\ lastRet \in [Cursors -> Ids \cup {NoRet, EndRet}]
    /\ stable \in [Cursors -> SUBSET Ids]
    /\ lost \in [Cursors -> SUBSET Ids]

\* The members a Cursor is constructed with: no position yet (_it is set
\* by the first next(), End stands for it), a first seek pending, no
\* restore, and a null _savedId.
NewCursor ==
    [it |-> End, needFirstSeek |-> TRUE, lastMoveWasRestore |-> FALSE,
     savedId |-> Null]

\* The members of a ReverseCursor: the same, REnd standing for _it.
NewReverseCursor == [NewCursor EXCEPT !.it = REnd]

Fresh(c) == IF c \in ForwardCursors THEN NewCursor ELSE NewReverseCursor

\* Every cursor has just been constructed over the store's records.
CursorInit ==
    /\ Init
    /\ it = [c \in Cursors |-> Fresh(c).it]
    /\ needFirstSeek = [c \in Cursors |-> Fresh(c).needFirstSeek]
    /\ lastMoveWasRestore = [c \in Cursors |-> Fresh(c).lastMoveWasRestore]
    /\ savedId = [c \in Cursors |-> Fresh(c).savedId]
    /\ phase = [c \in Cursors |-> "active"]
    /\ lastRet = [c \in Cursors |-> NoRet]
    /\ stable = [c \in Cursors |-> {}]
    /\ lost = [c \in Cursors |-> {}]

\* What a next() or seekExact() that leaves _it at pos returns.
Returned(c, pos) ==
    /\ lastRet' = [lastRet EXCEPT ![c] = IF pos \in Ids THEN pos ELSE EndRet]
    /\ stable' = [stable EXCEPT ![c] = Keys]
    /\ lost' = [lost EXCEPT ![c] = {}]

-----------------------------------------------------------------------------
(* getCursor: a fresh cursor, bound to the map on its first next().       *)
getCursor(c) ==
    /\ phase[c] # "active" \/ needFirstSeek[c]
    /\ it' = [it EXCEPT ![c] = Fresh(c).it]
    /\ needFirstSeek' = [needFirstSeek EXCEPT ![c] = Fresh(c).needFirstSeek]
    /\ lastMoveWasRestore' = [lastMoveWasRestore EXCEPT ![c] = Fresh(c).lastMoveWasRestore]
    /\ savedId' = [savedId EXCEPT ![c] = Fresh(c).savedId]
    /\ phase' = [phase EXCEPT ![c] = "active"]
    /\ lastRet' = [lastRet EXCEPT ![c] = NoRet]
    /\ stable' = [stable EXCEPT ![c] = Keys]
    /\ lost' = [lost EXCEPT ![c] = {}]

\* Seeded bug: next() advances even after a restore that moved the cursor.
CursorNextAlwaysAdvance(c) ==
    LET pos == IF needFirstSeek[c] THEN lowerBound(1)
               ELSE IF it[c] # End THEN lowerBound(it[c] + 1) ELSE it[c]
    IN /\ c \in ForwardCursors /\ phase[c] = "active"
       /\ it' = [it EXCEPT ![c] = pos]
       /\ needFirstSeek' = [needFirstSeek EXCEPT ![c] = FALSE]
       /\ lastMoveWasRestore' = [lastMoveWasRestore EXCEPT ![c] = FALSE]
       /\ Returned(c, pos)
       /\ UNCHANGED <<savedId, phase>>

(* Cursor (forward). *)
CursorNext(c) ==
    LET pos == IF needFirstSeek[c] THEN lowerBound(1)
               ELSE IF ~lastMoveWasRestore[c] /\ it[c] # End THEN lowerBound(it[c] + 1)
               ELSE it[c]
    IN /\ c \in ForwardCursors /\ phase[c] = "active"
       /\ it' = [it EXCEPT ![c] = pos]
       /\ needFirstSeek' = [needFirstSeek EXCEPT ![c] = FALSE]
       /\ lastMoveWasRestore' = [lastMoveWasRestore EXCEPT ![c] = FALSE]
       /\ Returned(c, pos)
       /\ UNCHANGED <<savedId, phase>>

CursorSeekExact(c, id) ==
    LET pos == IF id \in Keys THEN id ELSE End
    IN /\ c \in ForwardCursors /\ phase[c] = "active"
       /\ it' = [it EXCEPT ![c] = pos]
       /\ needFirstSeek' = [needFirstSeek EXCEPT ![c] = FALSE]
       /\ lastMoveWasRestore' = [lastMoveWasRestore EXCEPT ![c] = FALSE]
       /\ Returned(c, pos)
       /\ UNCHANGED <<savedId, phase>>

\* Seeded bug: the end() iterator is saved as if it were a record id.
CursorSaveEnd(c) ==
    /\ c \in ForwardCursors /\ phase[c] = "active"
    /\ savedId' = [savedId EXCEPT ![c] =
                     IF ~needFirstSeek[c] /\ ~lastMoveWasRestore[c] THEN it[c] ELSE @]
    /\ phase' = [phase EXCEPT ![c] = "saved"]
    /\ UNCHANGED <<it, needFirstSeek, lastMoveWasRestore, lastRet, stable, lost>>

CursorSave(c) ==
    /\ c \in ForwardCursors /\ phase[c] = "active"
    /\ savedId' = [savedId EXCEPT ![c] =
                     IF ~needFirstSeek[c] /\ ~lastMoveWasRestore[c]
                     THEN IF it[c] = End THEN Null ELSE it[c]
                     ELSE @]
    /\ phase' = [phase EXCEPT ![c] = "saved"]
    /\ UNCHANGED <<it, needFirstSeek, lastMoveWasRestore, lastRet, stable, lost>>

\* Seeded bug: restore() reports success for capped cursors too.
CursorRestoreNeverDies(c) ==
    LET pos == IF savedId[c] = Null THEN End ELSE lowerBound(savedId[c])
        moved == pos = End \/ pos # savedId[c]
    IN /\ c \in ForwardCursors /\ phase[c] = "saved"
       /\ it' = [it EXCEPT ![c] = pos]
       /\ lastMoveWasRestore' = IF savedId[c] = Null THEN lastMoveWasRestore
                                ELSE [lastMoveWasRestore EXCEPT ![c] = moved]
       /\ phase' = [phase EXCEPT ![c] = "active"]
       /\ UNCHANGED <<needFirstSeek, savedId, lastRet, stable, lost>>

CursorRestore(c) ==
    LET pos == IF savedId[c] = Null THEN End ELSE lowerBound(savedId[c])
        moved == pos = End \/ pos # savedId[c]
    IN /\ c \in ForwardCursors /\ phase[c] = "saved"
       /\ it' = [it EXCEPT ![c] = pos]
       /\ lastMoveWasRestore' = IF savedId[c] = Null THEN lastMoveWasRestore
                                ELSE [lastMoveWasRestore EXCEPT ![c] = moved]
       \* Capped iterators die on invalidation rather than advancing.
       /\ phase' = [phase EXCEPT ![c] =
                      IF savedId[c] # Null /\ IsCapped /\ moved THEN "dead" ELSE "active"]
       /\ UNCHANGED <<needFirstSeek, savedId, lastRet, stable, lost>>

\* Seeded bug: ++ on the reverse iterator computed from the current key
\* inclusive, so the cursor does not move.
ReverseCursorNextStuck(c) ==
    LET pos == IF needFirstSeek[c] THEN atOrBelow(MaxId)
               ELSE IF ~lastMoveWasRestore[c] /\ it[c] # REnd THEN atOrBelow(it[c])
               ELSE it[c]
    IN /\ c \notin ForwardCursors /\ phase[c] = "active"
       /\ it' = [it EXCEPT ![c] = pos]
       /\ needFirstSeek' = [needFirstSeek EXCEPT ![c] = FALSE]
       /\ lastMoveWasRestore' = [lastMoveWasRestore EXCEPT ![c] = FALSE]
       /\ Returned(c, pos)
       /\ UNCHANGED <<savedId, phase>>

(* ReverseCursor. *)
ReverseCursorNext(c) ==
    LET pos == IF needFirstSeek[c] THEN atOrBelow(MaxId)
               ELSE IF ~lastMoveWasRestore[c] /\ it[c] # REnd THEN atOrBelow(it[c] - 1)
               ELSE it[c]
    IN /\ c \notin ForwardCursors /\ phase[c] = "active"
       /\ it' = [it EXCEPT ![c] = pos]
       /\ needFirstSeek' = [needFirstSeek EXCEPT ![c] = FALSE]
       /\ lastMoveWasRestore' = [lastMoveWasRestore EXCEPT ![c] = FALSE]
       /\ Returned(c, pos)
       /\ UNCHANGED <<savedId, phase>>

ReverseCursorSeekExact(c, id) ==
    LET pos == IF id \in Keys THEN id ELSE REnd
    IN /\ c \notin ForwardCursors /\ phase[c] = "active"
       /\ it' = [it EXCEPT ![c] = pos]
       /\ needFirstSeek' = [needFirstSeek EXCEPT ![c] = FALSE]
       /\ lastMoveWasRestore' = [lastMoveWasRestore EXCEPT ![c] = FALSE]
       /\ Returned(c, pos)
       /\ UNCHANGED <<savedId, phase>>

ReverseCursorSave(c) ==
    /\ c \notin ForwardCursors /\ phase[c] = "active"
    /\ savedId' = [savedId EXCEPT ![c] =
                     IF ~needFirstSeek[c] /\ ~lastMoveWasRestore[c]
                     THEN IF it[c] = REnd THEN Null ELSE it[c]
                     ELSE @]
    /\ phase' = [phase EXCEPT ![c] = "saved"]
    /\ UNCHANGED <<it, needFirstSeek, lastMoveWasRestore, lastRet, stable, lost>>

ReverseCursorRestore(c) ==
    LET pos == IF savedId[c] = Null THEN REnd ELSE atOrBelow(savedId[c])
        moved == pos = REnd \/ pos # savedId[c]
    IN /\ c \notin ForwardCursors /\ phase[c] = "saved"
       /\ it' = [it EXCEPT ![c] = pos]
       /\ lastMoveWasRestore' = IF savedId[c] = Null THEN lastMoveWasRestore
                                ELSE [lastMoveWasRestore EXCEPT ![c] = moved]
       /\ phase' = [phase EXCEPT ![c] =
                      IF savedId[c] # Null /\ IsCapped /\ moved THEN "dead" ELSE "active"]
       /\ UNCHANGED <<needFirstSeek, savedId, lastRet, stable, lost>>

\* saveUnpositioned: the cursor gives up its position, and restore() puts
\* it at EOF (the ghost records that as EndRet).
CursorSaveUnpositioned(c) ==
    /\ c \in ForwardCursors /\ phase[c] = "active"
    /\ savedId' = [savedId EXCEPT ![c] = Null]
    /\ phase' = [phase EXCEPT ![c] = "saved"]
    /\ lastRet' = [lastRet EXCEPT ![c] = EndRet]
    /\ UNCHANGED <<it, needFirstSeek, lastMoveWasRestore, stable, lost>>

ReverseCursorSaveUnpositioned(c) ==
    /\ c \notin ForwardCursors /\ phase[c] = "active"
    /\ savedId' = [savedId EXCEPT ![c] = Null]
    /\ phase' = [phase EXCEPT ![c] = "saved"]
    /\ lastRet' = [lastRet EXCEPT ![c] = EndRet]
    /\ UNCHANGED <<it, needFirstSeek, lastMoveWasRestore, stable, lost>>

-----------------------------------------------------------------------------
\* Writers run while every cursor that holds an iterator is saved.
Yielded == \A c \in Cursors : phase[c] # "active" \/ needFirstSeek[c]

WriterStep ==
    /\ Yielded
    /\ StoreNext
    /\ stable' = [c \in Cursors |-> stable[c] \cap DOMAIN records']
    /\ lost' = [c \in Cursors |->
                  IF c \in ForwardCursors /\ lastRet[c] \in Ids
                  THEN lost[c] \cup (evicted' \ evicted) ELSE {}]
    /\ UNCHANGED <<it, needFirstSeek, lastMoveWasRestore, savedId, phase, lastRet>>

CursorStep ==
    /\ \E c \in Cursors :
         \/ getCursor(c)
         \/ CursorNext(c) \/ CursorSave(c) \/ CursorRestore(c)
         \/ CursorSaveUnpositioned(c)
         \/ ReverseCursorNext(c) \/ ReverseCursorSave(c) \/ ReverseCursorRestore(c)
         \/ ReverseCursorSaveUnpositioned(c)
         \/ \E id \in Ids : CursorSeekExact(c, id) \/ ReverseCursorSeekExact(c, id)
    /\ UNCHANGED storeVars

CursorNextState == WriterStep \/ CursorStep

CursorSpec == CursorInit /\ [][CursorNextState]_vars

-----------------------------------------------------------------------------
(***************************************************************************)
(* Properties.                                                             *)
(***************************************************************************)
\* Position of a returned id along the cursor's direction; nothing returned
\* yet is before every id, an empty result after every id.
Rank(c, v) ==
    CASE v = NoRet -> 0
      [] v = EndRet -> MaxId + 1
      [] OTHER -> IF c \in ForwardCursors THEN v ELSE MaxId + 1 - v

\* Across saves, restores and the inserts, deletes, truncations and
\* rollbacks done meanwhile, each next() of a cursor returns an id strictly
\* further along its direction than the one it returned last, and skips no
\* record that has been present ever since that last return.
ScanOrderedAndComplete ==
    [][\A c \in Cursors :
         (CursorNext(c) \/ ReverseCursorNext(c)) /\ lastRet[c] # EndRet =>
             LET lo == Rank(c, lastRet[c])
                 hi == Rank(c, lastRet'[c])
             IN /\ lo < hi
                /\ \A j \in stable[c] : ~(lo < Rank(c, j) /\ Rank(c, j) < hi)
      ]_vars

\* spec.md §4.2: a forward reader of a capped store whose last returned
\* record has been evicted (and its id not reused since) never silently
\* resumes past another record evicted since then.  When its next()
\* returns a later record, or nothing, no record between the two was
\* evicted in the meantime and is still gone: restore() must have failed
\* on the missing saved record instead of re-seeking past the gap.  (A
\* truncation that empties the store lets the saved id be reinserted; the
\* reader then resumes undetected, which the premise excludes.)
CappedReaderSeesNoGap ==
    [][\A c \in ForwardCursors :
         IsCapped /\ CursorNext(c) /\ lastRet[c] \in evicted =>
             \A k \in lost[c] \cap evicted' :
                 ~(lastRet[c] < k /\ Rank(c, k) < Rank(c, lastRet'[c]))
      ]_vars
====
