------------------------------ MODULE Transaction ------------------------------
(***************************************************************************)
(* One Database connection, its transaction statements (database.cxx and   *)
(* the DoBeginTransaction of each backend) and the RAII Transaction handles *)
(* of the application (transaction.cxx), against the engine of             *)
(* ServerSession.  The connection is used by one thread at a time, as      *)
(* database.hxx:40 requires, so an operation is one step; what is modelled *)
(* is every order in which an application may begin, move, assign, commit, *)
(* roll back and destroy handles, and every answer of the engine.          *)
(***************************************************************************)
EXTENDS ServerSession, Sequences, FiniteSets

CONSTANTS
    Handles,        \* places in the application that can hold a Transaction
    Units,          \* transactions the application may begin
    NoUnit,         \* the unit of a handle that stands for none
    TriedBackends,  \* the backends a behaviour may be of
    AskedLevels,    \* the isolation levels asked for
    Liberties       \* what the application does beyond one transaction at a
                    \* time within one connection, see LibertyKinds

(***************************************************************************)
(* nest:     BeginTransaction while a handle is active                     *)
(* direct:   calls Database::CommitTransaction / RollbackTransaction       *)
(* detached: begins before Connect, disconnects under an active handle     *)
(***************************************************************************)
LibertyKinds == {"nest", "direct", "detached"}

ASSUME ParametersAssumption ==
    /\ NoUnit \notin Units
    /\ TriedBackends \subseteq Backends
    /\ AskedLevels \subseteq Levels
    /\ Liberties \subseteq LibertyKinds

VARIABLES
    backend,    \* which subclass of Database this is; never changes
    connected,  \* m_connected
    session,    \* the engine's side of the connection
    durable,    \* writes that survive the connection
    handles,    \* the Transaction objects
    units,      \* history of each transaction begun
    writes,     \* history of each write
    parted      \* history: engine and handles have parted ways, see Next

vars == <<backend, connected, session, durable, handles, units, writes, parted>>

\* A handle: whether the object exists, m_db # nullptr, m_active, and which
\* transaction of the application's it stands for.
HandleFields == [live: BOOLEAN, db: BOOLEAN, active: BOOLEAN, unit: Units \cup {NoUnit}]

\* m_active implies an object with m_db set.
Handle == {hd \in HandleFields : hd.active => hd.live /\ hd.db /\ hd.unit \in Units}

Absent == [live |-> FALSE, db |-> FALSE, active |-> FALSE, unit |-> NoUnit]

\* The life of a transaction: the terminators its handles sent for it, and
\* whether a statement inside it was refused.
Unit == [begun: BOOLEAN, level: Levels, issued: Seq({"commit", "rollback"}),
         refused: BOOLEAN]

\* cover: the transactions that were active when the write was made.
Write == [asked: BOOLEAN, cover: SUBSET Units, acked: BOOLEAN]

Init ==
    /\ backend \in TriedBackends
    /\ connected = FALSE
    /\ session = Blank("none")
    /\ durable = {}
    /\ handles = [h \in Handles |-> Absent]
    /\ units = [u \in Units |-> [begun |-> FALSE, level |-> "Default",
                                 issued |-> <<>>, refused |-> FALSE]]
    /\ writes = [w \in Writes |-> [asked |-> FALSE, cover |-> {}, acked |-> FALSE]]
    /\ parted = FALSE

Owns(hd) == hd.active /\ hd.db

ActiveUnits == {handles[h].unit : h \in {g \in Handles : Owns(handles[g])}}

-----------------------------------------------------------------------------
(* Statements.                                                             *)

\* DoSilentQuery: nothing reaches the engine unless m_connected.
DoSilentQuery(s, answers) == IF connected THEN answers ELSE {Refused(s)}

\* The effect of an outcome; the callers ignore o.ok.
Take(o) ==
    /\ session' = o.session
    /\ durable' = durable \cup o.saved

\* Every level below RepeatableRead is BEGIN DEFERRED; the others take a lock.
SQLiteDoBeginTransaction(l) ==
    DoSilentQuery(session, Answers(backend, session,
        SQLiteBegin(session, l \in {"RepeatableRead", "Serializable"})))

PostgresDoBeginTransaction(l) ==
    DoSilentQuery(session, Answers(backend, session, PostgresBegin(session, l)))

MariaDBBeginFrom(o) ==
    DoSilentQuery(o.session, Answers(backend, o.session, MariaDBBegin(o.session)))

MariaDBSet(s, l) ==
    IF l = "Default" THEN {Refused(s)} ELSE DoSilentQuery(s, SetTransaction(backend, s, l))

\* Slip: BEGIN is sent before SET TRANSACTION.
MariaDBBeginBeforeSet(l) ==
    UNION {MariaDBSet(o.session, l) : o \in MariaDBBeginFrom(Refused(session))}

\* SET TRANSACTION, unless the default is asked for, and then BEGIN; the
\* result of neither is looked at.
MariaDBDoBeginTransaction(l) ==
    UNION {MariaDBBeginFrom(o) : o \in MariaDBSet(session, l)}

DoBeginTransaction(l) ==
    CASE backend = "sqlite" -> SQLiteDoBeginTransaction(l)
      [] backend = "postgres" -> PostgresDoBeginTransaction(l)
      [] backend = "mariadb" -> MariaDBDoBeginTransaction(l)

CommitTransaction == DoSilentQuery(session, CommitStatement(backend, session))

RollbackTransaction == DoSilentQuery(session, RollbackStatement(backend, session))

-----------------------------------------------------------------------------
(* Database.                                                               *)

Connect ==
    /\ ~connected
    /\ connected' = TRUE
    /\ session' = Blank("idle")
    /\ UNCHANGED <<backend, durable, handles, units, writes>>

\* Closing the connection makes the engine roll back what is open.
Disconnect ==
    /\ connected
    /\ "detached" \in Liberties \/ ActiveUnits = {}
    /\ connected' = FALSE
    /\ session' = Blank("none")
    /\ UNCHANGED <<backend, durable, handles, units, writes>>

\* Transaction(Database&).
Fresh(u) == [live |-> TRUE, db |-> TRUE, active |-> TRUE, unit |-> u]

\* The handle is active whatever BEGIN answered.
BeginTransaction(h, u, l) ==
    /\ ~handles[h].live
    /\ ~units[u].begun
    /\ connected \/ "detached" \in Liberties
    /\ ActiveUnits = {} \/ "nest" \in Liberties
    /\ \E o \in DoBeginTransaction(l) : Take(o)
    /\ handles' = [handles EXCEPT ![h] = Fresh(u)]
    /\ units' = [units EXCEPT ![u] = [@ EXCEPT !.begun = TRUE, !.level = l]]
    /\ UNCHANGED <<backend, connected, writes>>

\* Database::CommitTransaction and RollbackTransaction are public.
Direct ==
    /\ "direct" \in Liberties
    /\ \E o \in CommitTransaction \cup RollbackTransaction : Take(o)
    /\ UNCHANGED <<backend, connected, handles, units, writes>>

\* SilentQuery of one data-changing statement.
SilentQuery(w) ==
    /\ connected
    /\ ~writes[w].asked
    /\ \E o \in DoSilentQuery(session, WriteStatement(backend, session, w)) :
          /\ Take(o)
          /\ writes' = [writes EXCEPT ![w] = [asked |-> TRUE, cover |-> ActiveUnits,
                                              acked |-> o.ok]]
          /\ units' = [u \in Units |->
                [units[u] EXCEPT !.refused = @ \/ (u \in ActiveUnits /\ ~o.ok)]]
    /\ UNCHANGED <<backend, connected, handles>>

-----------------------------------------------------------------------------
(* Transaction handles.                                                    *)

Inactive(hd) == [hd EXCEPT !.active = FALSE]

\* Slip: the source of a move keeps m_active and m_db.
StillOwning(hd) == hd

\* Slip: the source of a move keeps m_active.
StillActive(hd) == [hd EXCEPT !.db = FALSE, !.unit = NoUnit]

\* What a move leaves behind.
MovedFrom(hd) == [hd EXCEPT !.db = FALSE, !.active = FALSE, !.unit = NoUnit]

Issue(h, terminator) ==
    units' = [units EXCEPT ![handles[h].unit].issued = Append(@, terminator)]

\* Slip: a destructor that leaves the transaction to the server.
ForgetIfOwned(h) == UNCHANGED <<session, durable, units>>

\* Slip: a destructor that commits.
CommitIfOwned(h) ==
    IF Owns(handles[h])
    THEN /\ \E o \in CommitTransaction : Take(o)
         /\ Issue(h, "rollback")
    ELSE UNCHANGED <<session, durable, units>>

\* The guard shared by the destructor and move assignment.
RollbackIfOwned(h) ==
    IF Owns(handles[h])
    THEN /\ \E o \in RollbackTransaction : Take(o)
         /\ Issue(h, "rollback")
    ELSE UNCHANGED <<session, durable, units>>

\* Slip: Commit sends ROLLBACK.
CommitByRollback(h) ==
    /\ Owns(handles[h])
    /\ \E o \in RollbackTransaction : Take(o)
    /\ Issue(h, "commit")
    /\ handles' = [handles EXCEPT ![h] = Inactive(@)]
    /\ UNCHANGED <<backend, connected, writes>>

\* The result of COMMIT is not looked at.  On an inactive handle Commit and
\* Rollback return early and change nothing.
Commit(h) ==
    /\ Owns(handles[h])
    /\ \E o \in CommitTransaction : Take(o)
    /\ Issue(h, "commit")
    /\ handles' = [handles EXCEPT ![h] = Inactive(@)]
    /\ UNCHANGED <<backend, connected, writes>>

Rollback(h) ==
    /\ Owns(handles[h])
    /\ \E o \in RollbackTransaction : Take(o)
    /\ Issue(h, "rollback")
    /\ handles' = [handles EXCEPT ![h] = Inactive(@)]
    /\ UNCHANGED <<backend, connected, writes>>

Destroy(h) ==
    /\ handles[h].live
    /\ RollbackIfOwned(h)
    /\ handles' = [handles EXCEPT ![h] = Absent]
    /\ UNCHANGED <<backend, connected, writes>>

\* Transaction(Transaction&& other), h = other.
MoveConstruct(h, g) ==
    /\ handles[h].live
    /\ ~handles[g].live
    /\ handles' = [handles EXCEPT ![g] = handles[h], ![h] = MovedFrom(@)]
    /\ UNCHANGED <<backend, connected, session, durable, units, writes>>

\* g = std::move(h): what g owned is rolled back.  Self-assignment does
\* nothing.
MoveAssign(h, g) ==
    /\ h # g
    /\ handles[h].live
    /\ handles[g].live
    /\ RollbackIfOwned(g)
    /\ handles' = [handles EXCEPT ![g] = handles[h], ![h] = MovedFrom(@)]
    /\ UNCHANGED <<backend, connected, writes>>

-----------------------------------------------------------------------------

\* The engine is in a transaction exactly while one transaction has an active
\* handle: no handle believes in a transaction that is over and none is left
\* open without a handle to end it.  A lost connection takes no writes.
OpenExactlyWhileOwned ==
    /\ connected /\ session.mode # "lost" =>
          (session.mode \in {"open", "failed"} <=> ActiveUnits # {})
    /\ \A u, v \in ActiveUnits : u = v

Notice(strayed) == parted' = (parted \/ strayed \/ ~OpenExactlyWhileOwned')

Operation ==
    \/ Connect
    \/ Disconnect
    \/ \E w \in Writes : SilentQuery(w)
    \/ \E h \in Handles :
          \/ \E u \in Units, l \in AskedLevels : BeginTransaction(h, u, l)
          \/ Commit(h)
          \/ Rollback(h)
          \/ Destroy(h)
          \/ \E g \in Handles : MoveConstruct(h, g) \/ MoveAssign(h, g)

\* A terminator sent past an active handle strays even when its answer, and
\* the connection, are lost.
Next ==
    \/ Operation /\ Notice(FALSE)
    \/ Direct /\ Notice(ActiveUnits # {})

Spec == Init /\ [][Next]_vars

\* A C++ object does not outlive its scope: a handle that owns a transaction
\* is eventually destroyed, unless something ended or moved it first.
ScopeEnds ==
    /\ \E h \in Handles : Owns(handles[h]) /\ Destroy(h)
    /\ Notice(FALSE)

FairSpec == Spec /\ WF_vars(ScopeEnds)

-----------------------------------------------------------------------------
(* Properties.                                                             *)

\* Types of the connection, the handles and the histories.
TypeOK ==
    /\ backend \in TriedBackends
    /\ connected \in BOOLEAN
    /\ session \in Session
    /\ durable \in SUBSET Writes
    /\ handles \in [Handles -> Handle]
    /\ units \in [Units -> Unit]
    /\ writes \in [Writes -> Write]
    /\ parted \in BOOLEAN

Owners(u) == {h \in Handles : Owns(handles[h]) /\ handles[h].unit = u}

\* Whatever the application does with its handles and whatever the engine
\* answers, a transaction begun has either exactly one handle that can still
\* end it and has been sent no terminator, or none and exactly one
\* terminator: no move, assignment or destructor loses it or ends it twice.
EndedExactlyOnce ==
    \A u \in Units :
        \/ ~units[u].begun /\ Owners(u) = {} /\ units[u].issued = <<>>
        \/ /\ units[u].begun
           /\ units[u].issued = <<>>
           /\ \E h \in Handles : Owners(u) = {h}
        \/ /\ units[u].begun
           /\ Len(units[u].issued) = 1
           /\ Owners(u) = {}

Committed(u) == units[u].issued = <<"commit">>

\* A write made under a transaction is durable only once Commit was called
\* on that transaction: "rolls back on destruction if not committed"
\* (database.hxx:151).
DurableOnlyByCommit ==
    \A w \in durable : \A u \in writes[w].cover : Committed(u)

\* The same whatever liberties the application takes and whatever the engine
\* refuses, aborts or loses, as long as the engine has been in a transaction
\* exactly while a handle was active: nothing else can leak a write.
DurableOnlyByCommitInStep == parted \/ DurableOnlyByCommit

\* A write acknowledged under a transaction in which nothing was refused is
\* durable once Commit was called: "Commits the transaction."
\* (transaction.hxx:74).
CommitIsDurable ==
    \A u \in Units : \A w \in Writes :
        Committed(u) /\ ~units[u].refused /\ writes[w].acked /\ writes[w].cover = {u}
            => w \in durable

\* As long as engine and handles keep in step, the transaction of the active
\* handle runs at no less than the level BeginTransaction was asked for; and
\* MariaDB's one-shot level is never left over for a later transaction.
LevelHonoured ==
    /\ session.mode = "open" /\ ~parted =>
          \A u \in ActiveUnits : Strength[session.level] >= Strength[units[u].level]
    /\ session.next = "Default"

\* Under FairSpec: the engine is not left in a transaction, with its locks,
\* for ever.
EveryTransactionEnds == session.mode = "open" ~> session.mode # "open"

=============================================================================
