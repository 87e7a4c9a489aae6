------------------------------ MODULE MCRamLog ------------------------------
(***************************************************************************)
(* The RamLog catalog with the ring of the RamLog it hands out, and        *)
(* RamLog::repeats, which the log viewer applies to the lines a           *)
(* LineIterator returns.  repeats(), a function of its arguments only, is *)
(* checked on every bounded vector and on the ring as it is in each state.*)
(***************************************************************************)
EXTENDS RamLogCatalog, RamLogRepeats

\* repeats() answers as the reference does on every vector of up to
\* MaxLines lines, and on the lines a LineIterator reads from the ring as
\* it is now, whose strings compare equal exactly when their tags and
\* lengths do.
RepeatsCorrect ==
    /\ RepeatsAgree
    /\ \A k \in 0..n - 1 : repeats(Ring!Lines, k) = RepeatsRef(Ring!Lines, k)
====
