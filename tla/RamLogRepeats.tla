---------------------------- MODULE RamLogRepeats ----------------------------
(***************************************************************************)
(* RamLog::repeats of src/unnamed/part_000: given the lines a LineIterator *)
(* returned, does line i start a repetition of the lines just before it?   *)
(* The code compares the text after each line's 24-byte timestamp; here a  *)
(* line is that text, a member of Texts.  The vector is 0-indexed in the   *)
(* code, so line k is v[k + 1].                                            *)
(*                                                                         *)
(* repeats() reads nothing but its arguments, so it is checked against a   *)
(* reference for every line of every vector of at most MaxLines lines over *)
(* Texts, a constant that TLC evaluates once.                              *)
(***************************************************************************)
EXTENDS Integers, Sequences, FiniteSets

CONSTANTS
    Texts,    \* line texts after the timestamp
    MaxLines  \* bound: lines in the vector

Same(w, a, b) == w[a + 1] = w[b + 1]   \* strcmp(v[a] + 24, v[b] + 24) == 0

\* The inner loop: x counts the lines of the candidate block matched so far.
RECURSIVE Match(_, _, _, _)
Match(w, a, j, x) ==
    IF j + x = a THEN j
    ELSE IF a + x >= Len(w) THEN -1
    ELSE IF ~Same(w, a + x, j + x) THEN -1
    ELSE Match(w, a, j, x + 1)

\* Seeded bug: after a failed match the walk goes on to farther lines.
RECURSIVE ScanAll(_, _, _)
ScanAll(w, a, j) ==
    IF j < 0 \/ j + 8 <= a THEN -1
    ELSE IF Same(w, a, j) /\ Match(w, a, j, 1) # -1 THEN j
    ELSE ScanAll(w, a, j - 1)

\* The outer loop: j walks back over at most the 7 lines before a, and the
\* first one with the same text decides.
RECURSIVE Scan(_, _, _)
Scan(w, a, j) ==
    IF j < 0 \/ j + 8 <= a THEN -1
    ELSE IF Same(w, a, j) THEN Match(w, a, j, 1)
    ELSE Scan(w, a, j - 1)

repeats(w, a) == Scan(w, a, a - 1)

\* The inputs: every vector of at most MaxLines lines.
Vectors == UNION {[1..k -> Texts] : k \in 0..MaxLines}

-----------------------------------------------------------------------------
\* The reference: j is the nearest of the 7 lines before a with a's text,
\* and lines a .. 2a - j - 1 repeat lines j .. a - 1, all of them present.
RepeatsRef(w, a) ==
    LET J == {j \in 0..a - 1 : j + 8 > a /\ Same(w, a, j)}
        j == CHOOSE m \in J : \A k \in J : k <= m
    IN IF J = {} THEN -1
       ELSE IF 2 * a - j <= Len(w) /\ \A x \in 0..a - j - 1 : Same(w, a + x, j + x)
            THEN j ELSE -1

\* Every answer repeats(v, i) gives is the reference's: it names the start
\* of the block that line i repeats, and -1 when the nearest matching line
\* does not start a complete repetition or lies beyond the 7-line window.
RepeatsAgree ==
    \A w \in Vectors : \A a \in 0..Len(w) - 1 : repeats(w, a) = RepeatsRef(w, a)
====
