-------------------------- MODULE TransactionRefinement --------------------------
(***************************************************************************)
(* Transaction implements TransactionPromise when the application takes no *)
(* liberties and the engine at most refuses statements.                    *)
(***************************************************************************)
EXTENDS Transaction

\* One transaction is current at most, when no liberties are taken.
CurrentUnit == IF ActiveUnits = {} THEN NoUnit ELSE CHOOSE u \in ActiveUnits : TRUE

\* PostgreSQL answers the COMMIT of an aborted block by rolling it back.
OutcomeOf(u) ==
    CASE ~units[u].begun -> "new"
      [] units[u].begun /\ units[u].issued = <<>> -> "running"
      [] Committed(u) /\ ~(backend = "postgres" /\ units[u].refused) -> "committed"
      [] OTHER -> "rolled back"

Promise == INSTANCE TransactionPromise WITH
    store <- durable,
    current <- CurrentUnit,
    work <- session.pending,
    doomed <- (session.mode = "failed"),
    outcome <- [u \in Units |-> OutcomeOf(u)]

\* Every behaviour of handles and engine is one the promise allows.
KeepsPromise == Promise!Spec

=============================================================================
