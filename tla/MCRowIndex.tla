------------------------------- MODULE MCRowIndex -------------------------------
(* A small instance of RowIndex for TLC. *)
EXTENDS RowIndex, TLC

CONSTANTS r1, r2, t1, t2, a, b

MCRows == {r1, r2}
MCThreads == {t1, t2}
MCNames == {a, b}

MCSymmetry == Permutations(MCRows) \cup Permutations(MCThreads) \cup Permutations(MCNames)

=============================================================================
