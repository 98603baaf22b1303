------------------------------- MODULE Connection -------------------------------
(***************************************************************************)
(* The life of Database objects of one backend: Connect and Disconnect as  *)
(* the template in database.cxx runs them with the backend's hooks, the    *)
(* registry of prepared statements, and the move operations that every     *)
(* class declares as defaulted.  An object is used by one thread at a time *)
(* (database.hxx:40): a call is one step.  The engine's connections are    *)
(* modelled by the calls the backends make on them.                        *)
(***************************************************************************)
EXTENDS Naturals, FiniteSets

CONSTANTS
    Objects,        \* Database objects
    Conns,          \* engine connections (sqlite3*, PGconn*, MYSQL*)
    Names,          \* statement names
    Queries,        \* SQL texts the application prepares
    NoConn,         \* nullptr
    NoStmt,         \* a name that is not registered
    NoQuery,        \* a name PostgreSQL has not prepared
    TriedBackends   \* the backends a behaviour may be of

ASSUME NullsAssumption ==
    /\ NoConn \notin Conns
    /\ NoQuery \notin Queries
    /\ NoStmt \notin [conn: Conns, query: Queries, usable: BOOLEAN]
    /\ TriedBackends \subseteq {"sqlite", "postgres", "mariadb"}

VARIABLES
    backend,    \* the subclass of Database; never changes
    overriding, \* a class derived from it overrides DoPreDisconnect; never changes
    objects,    \* the objects
    conns,      \* the engine's connections
    prepared,   \* what each PostgreSQL connection has prepared under a name
    torn        \* history: a connected object was moved or assigned over, or
                \* disconnected by a class that leaves the registry as it is

class == <<backend, overriding>>

vars == <<class, objects, conns, prepared, torn>>

\* A prepared statement: the connection it was created on, its text and
\* whether the engine accepted it (m_stmt # nullptr).
Stmt == [conn: Conns, query: Queries, usable: BOOLEAN]

Object == [live: BOOLEAN, connected: BOOLEAN, handle: Conns \cup {NoConn},
           stmts: [Names -> Stmt \cup {NoStmt}]]

NoStmts == [n \in Names |-> NoStmt]

Absent == [live |-> FALSE, connected |-> FALSE, handle |-> NoConn, stmts |-> NoStmts]

\* busy: sqlite3_close refused because of unfinalized statements, and nobody
\* holds the handle any more.  misused: used after it was closed.
ConnStates == {"fresh", "open", "closed", "busy", "misused"}

Init ==
    /\ backend \in TriedBackends
    /\ overriding \in BOOLEAN
    /\ objects = [o \in Objects |-> Absent]
    /\ conns = [c \in Conns |-> "fresh"]
    /\ prepared = [c \in Conns |-> [n \in Names |-> NoQuery]]
    /\ torn = FALSE

\* The statements that exist on connection c once the objects are obs.
StatementsOn(obs, c) ==
    {n \in Names : \E o \in Objects : obs[o].stmts[n] # NoStmt /\ obs[o].stmts[n].conn = c}

\* An engine call on c.
Used(c) == IF conns[c] \in {"closed", "misused"} THEN "misused" ELSE conns[c]

-----------------------------------------------------------------------------
(* Construction, Connect, Disconnect, destruction.                         *)

Construct(o) ==
    /\ ~objects[o].live
    /\ objects' = [objects EXCEPT ![o] = [Absent EXCEPT !.live = TRUE]]
    /\ UNCHANGED <<class, conns, prepared, torn>>

\* DoConnect of a backend succeeded: the handle is kept.
Established(o, c) ==
    /\ objects' = [objects EXCEPT ![o].connected = TRUE, ![o].handle = c]
    /\ conns' = [conns EXCEPT ![c] = "open"]

\* Slip: a failed attempt keeps the handle.
FailedKeepsHandle(o, c) ==
    /\ objects' = [objects EXCEPT ![o].handle = c]
    /\ conns' = [conns EXCEPT ![c] = "closed"]

\* It failed: the attempt is closed and nullptr is left behind.
Failed(o, c) ==
    /\ objects' = [objects EXCEPT ![o].handle = NoConn]
    /\ conns' = [conns EXCEPT ![c] = "closed"]

\* A connected object returns false at once.
Connect(o, c) ==
    /\ objects[o].live
    /\ ~objects[o].connected
    /\ conns[c] = "fresh"
    /\ Established(o, c) \/ Failed(o, c)
    /\ UNCHANGED <<class, prepared, torn>>

\* Slip: the statements outlive the connection.
KeepsStatements(ob) == ob.stmts

\* DoPreDisconnect of the backends.
ClearedStatements(ob) ==
    IF backend = "sqlite" /\ ob.handle = NoConn THEN ob.stmts ELSE NoStmts

\* The object after DoDisconnect and the end of Disconnect.
Disconnected(ob, stmts) ==
    [ob EXCEPT !.stmts = stmts, !.handle = NoConn, !.connected = FALSE]

\* DoDisconnect closes the handle, whatever its engine thinks of it.  SQLite
\* keeps a connection with unfinalized statements open and says so.
Close(c, obs) ==
    conns' = [conns EXCEPT ![c] =
        CASE conns[c] = "open" /\ backend = "sqlite" /\ StatementsOn(obs, c) # {} -> "busy"
          [] conns[c] = "open" /\ ~(backend = "sqlite" /\ StatementsOn(obs, c) # {}) -> "closed"
          [] OTHER -> Used(c)]

CloseIfAny(c, obs) == IF c = NoConn THEN UNCHANGED conns ELSE Close(c, obs)

\* The hook of a derived class cannot call the backend's, which is private; one
\* that does not think of the registry leaves it as it is.
Disconnect(o) ==
    LET ob == objects[o]
        stmts == IF overriding THEN ob.stmts ELSE ClearedStatements(ob)
    IN /\ ob.live
       /\ objects' = [objects EXCEPT ![o] = Disconnected(ob, stmts)]
       /\ CloseIfAny(ob.handle, objects')
       /\ torn' = (torn \/ (overriding /\ ob.stmts # NoStmts))
       /\ UNCHANGED <<class, prepared>>

\* The destructor of the backend class calls Disconnect, with the hooks of that
\* class even where a derived one overrides them, and then destroys what is left in the registry.
Destroy(o) ==
    LET ob == objects[o]
    IN /\ ob.live
       /\ CloseIfAny(ob.handle, [objects EXCEPT ![o].stmts = ClearedStatements(ob)])
       /\ objects' = [objects EXCEPT ![o] = Absent]
       /\ UNCHANGED <<class, prepared, torn>>

-----------------------------------------------------------------------------
(* Prepared statements and queries.                                        *)

\* What the engine may answer to preparing q as n on c.  PostgreSQL refuses a
\* name it already knows.
Acceptable(n, c) ==
    IF backend = "postgres" /\ prepared[c][n] # NoQuery THEN {FALSE} ELSE BOOLEAN

\* Slip: PQprepare's result is not looked at.
CreatedUnchecked(c, q, accepted) == [conn |-> c, query |-> q, usable |-> TRUE]

\* Slip: the new statement is not told its connection.
CreatedWithoutConn(c, q, accepted) ==
    IF accepted \/ backend = "mariadb"
    THEN [conn |-> NoConn, query |-> q, usable |-> accepted]
    ELSE NoStmt

\* Slip: a refused statement is returned all the same, by every backend.
CreatedAlways(c, q, accepted) == [conn |-> c, query |-> q, usable |-> accepted]

\* CreatePreparedSTMT: nullptr on failure, except MariaDB's, which returns a
\* statement that cannot be executed.
Created(c, q, accepted) ==
    IF accepted \/ backend = "mariadb"
    THEN [conn |-> c, query |-> q, usable |-> accepted]
    ELSE NoStmt

\* Slip: insert_or_assign.
Assigned(stmts, n, s) == IF s = NoStmt THEN stmts ELSE [stmts EXCEPT ![n] = s]

\* emplace: the first statement registered under a name stays.
Emplaced(stmts, n, s) == IF stmts[n] = NoStmt THEN [stmts EXCEPT ![n] = s] ELSE stmts

\* DoPrepareSTMT.  Without a handle nothing is created.
PrepareSTMT(o, n, q) ==
    LET ob == objects[o]
        c == ob.handle
    IN /\ ob.live
       /\ c # NoConn
       /\ conns' = [conns EXCEPT ![c] = Used(c)]
       /\ \E accepted \in Acceptable(n, c) :
             /\ objects' = [objects EXCEPT ![o].stmts =
                              Emplaced(@, n, Created(c, q, accepted))]
             /\ prepared' = IF accepted /\ backend = "postgres"
                            THEN [prepared EXCEPT ![c][n] = q] ELSE prepared
       /\ UNCHANGED <<class, torn>>

\* ExecuteSTMT of a registered name.  MariaDB detaches the statements of a
\* connection it closes and refuses them later; PostgreSQL's statement uses
\* its own copy of the PGconn pointer.
ExecuteSTMT(o, n) ==
    LET s == objects[o].stmts[n]
    IN /\ objects[o].live
       /\ s # NoStmt
       /\ conns' = IF backend = "postgres" THEN [conns EXCEPT ![s.conn] = Used(s.conn)]
                   ELSE conns
       /\ UNCHANGED <<class, objects, prepared, torn>>

\* Query and SilentQuery of a connected object.
Query(o) ==
    LET ob == objects[o]
    IN /\ ob.live
       /\ ob.connected
       /\ ob.handle # NoConn
       /\ conns' = [conns EXCEPT ![ob.handle] = Used(ob.handle)]
       /\ UNCHANGED <<class, objects, prepared, torn>>

-----------------------------------------------------------------------------
(* Moves.  The defaulted operations move the registry and copy the rest.   *)

\* The raw handle and m_connected stay in the source.
Moved(o, p) ==
    /\ objects' = [objects EXCEPT ![p] = objects[o], ![o].stmts = NoStmts]
    /\ torn' = (torn \/ objects[o].connected \/ objects[p].connected)

MoveConstruct(o, p) ==
    /\ objects[o].live
    /\ ~objects[p].live
    /\ Moved(o, p)
    /\ UNCHANGED <<class, conns, prepared>>

\* What p held is neither disconnected nor closed.
MoveAssign(o, p) ==
    /\ o # p
    /\ objects[o].live
    /\ objects[p].live
    /\ Moved(o, p)
    /\ UNCHANGED <<class, conns, prepared>>

-----------------------------------------------------------------------------

Next ==
    \E o \in Objects :
        \/ Construct(o)
        \/ \E c \in Conns : Connect(o, c)
        \/ Disconnect(o)
        \/ Destroy(o)
        \/ \E n \in Names : ExecuteSTMT(o, n) \/ \E q \in Queries : PrepareSTMT(o, n, q)
        \/ Query(o)
        \/ \E p \in Objects : MoveConstruct(o, p) \/ MoveAssign(o, p)

Spec == Init /\ [][Next]_vars

-----------------------------------------------------------------------------
(* Properties.                                                             *)

\* Types of the objects and connections.
TypeOK ==
    /\ backend \in TriedBackends
    /\ overriding \in BOOLEAN
    /\ objects \in [Objects -> Object]
    /\ conns \in [Conns -> ConnStates]
    /\ prepared \in [Conns -> [Names -> Queries \cup {NoQuery}]]
    /\ torn \in BOOLEAN

\* As long as no connected object is moved or assigned over, nor disconnected by
\* a class that overrides the hook and leaves the registry, an object's
\* statements belong to the connection it holds, and that connection is open:
\* none survives a disconnect to be executed on a connection that is gone.
StatementsLive ==
    ~torn =>
        \A o \in Objects : \A n \in Names :
            LET s == objects[o].stmts[n]
            IN s # NoStmt => s.conn = objects[o].handle /\ conns[s.conn] = "open"

Holders(c) == {o \in Objects : objects[o].live /\ objects[o].handle = c}

\* Under the same condition every open connection is held by exactly one
\* object, which believes itself connected, and no object holds any other:
\* connections are neither leaked, nor shared, nor closed twice, nor used
\* after they were closed.
EveryConnectionHasOneOwner ==
    ~torn =>
        /\ \A c \in Conns :
              /\ conns[c] \notin {"busy", "misused"}
              /\ IF conns[c] = "open"
                 THEN \E o \in Objects : Holders(c) = {o} /\ objects[o].connected
                 ELSE Holders(c) = {}
        /\ \A o \in Objects : objects[o].connected => objects[o].handle # NoConn

\* While an object keeps its connection, and is not moved or assigned over, a
\* name keeps the statement first registered under it, whatever is prepared
\* later.
FirstRegistrationWins ==
    [][\A o \in Objects : \A n \in Names :
          /\ objects[o].stmts[n] # NoStmt
          /\ objects'[o].handle = objects[o].handle
          /\ ~torn'
          => objects'[o].stmts[n] = objects[o].stmts[n]]_vars

\* A registered name can be executed ("Prepared statement or nullptr on
\* failure", database.hxx:217), but for MariaDB's; and, under the same
\* condition, PostgreSQL's own table of prepared names agrees with the registry:
\* a name found in it runs the text registered, and any other can be prepared.
ServerAgrees ==
    \A o \in Objects : \A n \in Names :
        LET s == objects[o].stmts[n]
            c == objects[o].handle
        IN /\ backend # "mariadb" /\ s # NoStmt => s.usable
           /\ backend = "postgres" /\ ~torn /\ c # NoConn =>
                 prepared[c][n] = IF s = NoStmt THEN NoQuery ELSE s.query

=============================================================================
