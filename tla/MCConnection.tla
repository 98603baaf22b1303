------------------------------ MODULE MCConnection ------------------------------
(* A small instance of Connection for TLC. *)
EXTENDS Connection, TLC

CONSTANTS o1, o2, c1, c2, c3, n1, n2, q1, q2

MCObjects == {o1, o2}
MCConns == {c1, c2, c3}
MCNames == {n1, n2}
MCQueries == {q1, q2}

MCSymmetry == Permutations(MCObjects) \cup Permutations(MCConns)
                 \cup Permutations(MCNames) \cup Permutations(MCQueries)

=============================================================================
