--------------------------- MODULE TransactionPromise ---------------------------
(***************************************************************************)
(* What the library promises an application that runs one transaction at a *)
(* time through Transaction handles (transaction.hxx:33, README section    *)
(* Transactions): the changes made inside a transaction reach the store    *)
(* together when it is committed and never when it is rolled back, and a   *)
(* change made outside a transaction reaches the store at once.            *)
(***************************************************************************)
EXTENDS Naturals

CONSTANTS Writes, Units, NoUnit

VARIABLES
    store,      \* the writes that are durable
    current,    \* the transaction in progress, or NoUnit
    work,       \* its changes so far
    doomed,     \* the engine will not commit it any more (PostgreSQL)
    outcome     \* what became of each transaction

vars == <<store, current, work, doomed, outcome>>

Init ==
    /\ store = {}
    /\ current = NoUnit
    /\ work = {}
    /\ doomed = FALSE
    /\ outcome = [u \in Units |-> "new"]

Begin(u) ==
    /\ current = NoUnit
    /\ outcome[u] = "new"
    /\ current' = u
    /\ outcome' = [outcome EXCEPT ![u] = "running"]
    /\ UNCHANGED <<store, work, doomed>>

Change(w) ==
    /\ ~doomed
    /\ IF current = NoUnit
       THEN store' = store \cup {w} /\ work' = work
       ELSE work' = work \cup {w} /\ store' = store
    /\ UNCHANGED <<current, doomed, outcome>>

\* A refused statement may cost the transaction.
Doom ==
    /\ current # NoUnit
    /\ doomed' = TRUE
    /\ work' = {}
    /\ UNCHANGED <<store, current, outcome>>

Finish(how, saved) ==
    /\ current # NoUnit
    /\ store' = store \cup saved
    /\ outcome' = [outcome EXCEPT ![current] = how]
    /\ current' = NoUnit
    /\ work' = {}
    /\ doomed' = FALSE

Commit == ~doomed /\ Finish("committed", work)

Rollback == Finish("rolled back", {})

Next ==
    \/ \E u \in Units : Begin(u)
    \/ \E w \in Writes : Change(w)
    \/ Doom
    \/ Commit
    \/ Rollback

Spec == Init /\ [][Next]_vars

=============================================================================
