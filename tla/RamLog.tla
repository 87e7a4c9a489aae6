------------------------------- MODULE RamLog -------------------------------
(***************************************************************************)
(* One RamLog of src/unnamed/part_000: a ring of N lines of C bytes that   *)
(* keeps the last N non-empty lines written, and the line iterator that    *)
(* reads them back.  Every method takes the RamLog's mutex for its whole   *)
(* body (the LineIterator holds it for its lifetime), so each is one       *)
(* atomic step, in whatever order the writing threads are serialized.      *)
(*                                                                         *)
(* A string is abstracted to a tag and a length; copying it into a line    *)
(* keeps its first C - 1 bytes.  The empty string has length 0.            *)
(***************************************************************************)
EXTENDS Integers, Sequences, FiniteSets

CONSTANTS
    N,          \* lines in the ring
    C,          \* bytes per line, the terminating NUL included
    Tags,       \* the contents of the strings written
    Lengths,    \* the lengths of the non-empty strings written
    MaxWrites   \* bound: writes since the last clear()

ASSUME N \in Nat \ {0} /\ C \in Nat \ {0, 1} /\ Lengths \subseteq Nat \ {0}

Empty == [tag |-> "", len |-> 0]
Strings == {Empty} \cup [tag : Tags, len : Lengths]

VARIABLES
    lines,  \* lines[i] for i \in 0..N-1: the string stored in line i
    h,      \* index of the oldest line
    n,      \* number of lines in use
    total,  \* _totalLinesWritten
    hist    \* ghost: the strings passed to write() since the last clear()

vars == <<lines, h, n, total, hist>>

\* memcpy of at most C - 1 bytes and the NUL at C - 1.
Stored(s) == IF s.len + 1 < C THEN s ELSE [s EXCEPT !.len = C - 1]

\* RamLog::RamLog: clear(), and every line's last byte is a NUL.
Init ==
    /\ lines = [i \in 0..N-1 |-> Empty]
    /\ h = 0 /\ n = 0 /\ total = 0
    /\ hist = <<>>

\* Seeded bug: the new line goes to slot n, as if the ring never wrapped.
writeIgnoresHead(s) ==
    /\ total < MaxWrites
    /\ total' = total + 1
    /\ IF s.len + 1 = 1
       THEN UNCHANGED <<lines, h, n>>
       ELSE /\ lines' = [lines EXCEPT ![n % N] = Stored(s)]
            /\ IF n < N THEN n' = n + 1 /\ UNCHANGED h
                        ELSE h' = (h + 1) % N /\ UNCHANGED n
    /\ hist' = Append(hist, s)

\* Seeded bug: the head of a full ring advances without the modulo.
writeNoWrap(s) ==
    /\ total < MaxWrites
    /\ total' = total + 1
    /\ IF s.len + 1 = 1
       THEN UNCHANGED <<lines, h, n>>
       ELSE /\ lines' = [lines EXCEPT ![(h + n) % N] = Stored(s)]
            /\ IF n < N THEN n' = n + 1 /\ UNCHANGED h
                        ELSE h' = h + 1 /\ UNCHANGED n
    /\ hist' = Append(hist, s)

(* RamLog::write.  The count goes up before the early return for "". *)
write(s) ==
    /\ total < MaxWrites
    /\ total' = total + 1
    /\ IF s.len + 1 = 1
       THEN UNCHANGED <<lines, h, n>>
       ELSE /\ lines' = [lines EXCEPT ![(h + n) % N] = Stored(s)]
            /\ IF n < N THEN n' = n + 1 /\ UNCHANGED h
                        ELSE h' = (h + 1) % N /\ UNCHANGED n
    /\ hist' = Append(hist, s)

(* RamLog::clear. *)
clear ==
    /\ total' = 0 /\ h' = 0 /\ n' = 0
    /\ lines' = [i \in 0..N-1 |-> Empty]
    /\ hist' = <<>>

(* RamLog::getLine_inlock. *)
getLine_inlock(lineNumber) ==
    IF lineNumber >= n THEN Empty ELSE lines[(lineNumber + h) % N]

\* What a LineIterator hands out, under the mutex, from line 0 to n - 1.
Lines == [k \in 1..n |-> getLine_inlock(k - 1)]

Next ==
    \/ \E s \in Strings : write(s)
    \/ clear

Spec == Init /\ [][Next]_vars
-----------------------------------------------------------------------------
TypeOK ==
    /\ lines \in [0..N-1 -> {Empty} \cup {Stored(s) : s \in Strings}]
    /\ h \in 0..N-1 /\ n \in 0..N
    /\ total \in 0..MaxWrites
    /\ hist \in Seq(Strings)

\* The reference: the non-empty strings written since clear(), each cut
\* to its first C - 1 bytes.
Cut(s) == [s EXCEPT !.len = IF s.len < C - 1 THEN s.len ELSE C - 1]
Kept == LET w == SelectSeq(hist, LAMBDA s : s.len > 0)
        IN [k \in 1..Len(w) |-> Cut(w[k])]

\* A LineIterator reads, oldest first, exactly the last min(N, k) of the k
\* non-empty strings written since clear(), each cut to C - 1 bytes: the
\* slot write() fills, (h + n) % N, and the one getLine_inlock reads,
\* (lineNumber + h) % N, agree through every wrap of the ring, and the
\* empty string, counted in _totalLinesWritten, takes no line.
RingHoldsLastWrites ==
    /\ n = IF Len(Kept) < N THEN Len(Kept) ELSE N
    /\ Lines = SubSeq(Kept, Len(Kept) - n + 1, Len(Kept))
====
