------------------------------ MODULE MCTransaction ------------------------------
(* Small instances of Transaction for TLC. *)
EXTENDS TransactionRefinement, TLC

CONSTANTS h1, h2, u1, u2, u3, w1, w2, w3

MCHandles == {h1, h2}
MCTwoUnits == {u1, u2}
MCThreeUnits == {u1, u2, u3}
MCTwoWrites == {w1, w2}
MCThreeWrites == {w1, w2, w3}

\* Interchangeable names; used only where no liveness is checked.
MCSymmetry == Permutations(MCHandles) \cup Permutations(MCThreeUnits)
                 \cup Permutations(MCThreeWrites)

=============================================================================
