---------------------------- MODULE ServerSession ----------------------------
(***************************************************************************)
(* The database engine at the far end of one connection, as far as the     *)
(* library can tell: what each of SQLite, PostgreSQL and MariaDB answers   *)
(* to the statements that the library's transaction code sends.  The       *)
(* engines are not in the repository: this module is modelled from how     *)
(* the backends use them and contains no state of its own.  A statement    *)
(* is answered by one of a set of outcomes.                                *)
(***************************************************************************)
EXTENDS Naturals

CONSTANTS
    Writes,     \* data-changing statements the application may run
    Faults      \* what the engine may do besides obeying, see FaultKinds

Backends == {"sqlite", "postgres", "mariadb"}

\* IsolationLevel of typedefs.hxx.
Levels == {"Default", "ReadUncommitted", "ReadCommitted",
           "RepeatableRead", "Serializable"}

\* How much a level promises; "Default" asks for nothing in particular.
Strength == [l \in Levels |->
    CASE l = "Default" -> 0
      [] l = "ReadUncommitted" -> 1
      [] l = "ReadCommitted" -> 2
      [] l = "RepeatableRead" -> 3
      [] l = "Serializable" -> 4]

(***************************************************************************)
(* begin:  a lock taken at BEGIN is not to be had (SQLITE_BUSY)            *)
(* write:  a statement is refused (constraint, syntax, type)               *)
(* commit: COMMIT is refused (SQLITE_BUSY, a deferred constraint, ...)     *)
(* abort:  the engine rolls the whole transaction back on its own          *)
(*         (deadlock victim, disk full)                                    *)
(* drop:   the connection to the server is lost                            *)
(***************************************************************************)
FaultKinds == {"begin", "write", "commit", "abort", "drop"}

ASSUME FaultsAssumption == Faults \subseteq FaultKinds

(***************************************************************************)
(* A session.  mode "none" is no session, "failed" is PostgreSQL's aborted *)
(* transaction block, "lost" a session whose server is gone.  next is      *)
(* MariaDB's one-shot SET TRANSACTION level.                               *)
(***************************************************************************)
Modes == {"none", "idle", "open", "failed", "lost"}

Session == [mode: Modes, pending: SUBSET Writes, level: Levels, next: Levels]

Blank(m) == [mode |-> m, pending |-> {}, level |-> "Default", next |-> "Default"]

\* What one statement does: its result, the session after it, and the
\* writes it made durable.
Outcome == [ok: BOOLEAN, session: Session, saved: SUBSET Writes]

Accepted(s, saved) == [ok |-> TRUE,  session |-> s, saved |-> saved]
Refused(s)         == [ok |-> FALSE, session |-> s, saved |-> {}]

When(condition, outcomes) == IF condition THEN outcomes ELSE {}

\* SQLite runs in the process: it has no connection to lose.
CanDrop(b) == "drop" \in Faults /\ b # "sqlite"

Answers(b, s, usual) ==
    IF s.mode \in {"none", "lost"}
    THEN {Refused(s)}
    ELSE usual \cup When(CanDrop(b), {Refused(Blank("lost"))})

-----------------------------------------------------------------------------
(* The statements.                                                         *)

Opened(s, l) == [s EXCEPT !.mode = "open", !.level = l]

\* MariaDB: SET TRANSACTION ISOLATION LEVEL is for the next transaction
\* only and is refused inside one.
SetTransaction(b, s, l) ==
    Answers(b, s, IF s.mode = "idle"
                  THEN {Accepted([s EXCEPT !.next = l], {})}
                  ELSE {Refused(s)})

\* BEGIN DEFERRED takes no lock; IMMEDIATE and EXCLUSIVE do.  Nested BEGIN is
\* an error.  Every SQLite transaction is serializable.
SQLiteBegin(s, locking) ==
    IF s.mode = "idle"
    THEN {Accepted(Opened(s, "Serializable"), {})}
             \cup When(locking /\ "begin" \in Faults, {Refused(s)})
    ELSE {Refused(s)}

\* Nested BEGIN is a warning, and may still set the level until the first
\* statement; a later different level aborts the block.
PostgresBegin(s, l) ==
    CASE s.mode = "idle" -> {Accepted(Opened(s, l), {})}
      [] s.mode = "open" /\ l \in {"Default", s.level} -> {Accepted(s, {})}
      [] s.mode = "open" /\ l \notin {"Default", s.level} ->
             {Refused([s EXCEPT !.mode = "failed", !.pending = {}])}
                 \cup When(s.pending = {}, {Accepted(Opened(s, l), {})})
      [] OTHER -> {Refused(s)}

\* BEGIN implicitly commits the transaction in progress.
MariaDBBegin(s) ==
    {Accepted([mode |-> "open", pending |-> {}, level |-> s.next,
               next |-> "Default"], s.pending)}

Ended(s) == [s EXCEPT !.mode = "idle", !.pending = {}, !.level = "Default"]

\* COMMIT.  SQLite: outside a transaction it is an error and, refused, it
\* leaves the transaction open.  PostgreSQL: on an aborted block it is a
\* successful ROLLBACK.  A lost connection leaves the outcome in doubt.
CommitStatement(b, s) ==
    Answers(b, s,
        CASE s.mode = "idle" -> {[Accepted(s, {}) EXCEPT !.ok = b # "sqlite"]}
          [] s.mode = "failed" -> {Accepted(Ended(s), {})}
          [] OTHER -> {Accepted(Ended(s), s.pending)}
                \cup When("commit" \in Faults,
                          {Refused(IF b = "sqlite" THEN s ELSE Ended(s))})
                \cup When(CanDrop(b),
                          {[Refused(Blank("lost")) EXCEPT !.saved = s.pending]}))

RollbackStatement(b, s) ==
    Answers(b, s, IF s.mode = "idle" /\ b = "sqlite"
                  THEN {Refused(s)}
                  ELSE {Accepted(Ended(s), {})})

\* A data change: autocommitted outside a transaction, pending inside one.
WriteStatement(b, s, w) ==
    Answers(b, s,
        CASE s.mode = "idle" ->
                {Accepted([s EXCEPT !.next = "Default"], {w})}
                    \cup When("write" \in Faults, {Refused(s)})
          [] s.mode = "open" ->
                {Accepted([s EXCEPT !.pending = @ \cup {w}], {})}
                    \cup When("write" \in Faults,
                              {Refused(IF b = "postgres"
                                       THEN [s EXCEPT !.mode = "failed", !.pending = {}]
                                       ELSE s)})
                    \cup When("abort" \in Faults /\ b # "postgres",
                              {Refused(Ended(s))})
          [] OTHER -> {Refused(s)})

=============================================================================
