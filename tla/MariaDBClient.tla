------------------------------ MODULE MariaDBClient ------------------------------
(***************************************************************************)
(* The order in which one MariaDB connection's calls reach the client      *)
(* library: Query, SilentQuery and LogMariaDBWarnings of mariadb.cxx,      *)
(* the constructor, Execute and DoExecute of a prepared statement, and the *)
(* BEGIN, COMMIT and ROLLBACK of one transaction handle.  The protocol     *)
(* allows one command at a time: while the rows of one wait to be read,    *)
(* the library refuses the next ("commands out of sync"), a COMMIT like    *)
(* any other.  A step is one call of the library; which rows and columns   *)
(* come back is left out.                                                  *)
(***************************************************************************)
EXTENDS Naturals

VARIABLES
    logger,     \* m_logger # nullptr; never changes
    forgets,    \* the library drops the columns of an unread result when it
                \* refuses a command; depends on the library
    pc,         \* the next library call of the call in progress, or "idle"
    call,       \* the call in progress, or the last one
    client,     \* the library's side of the connection
    stmt,       \* a prepared statement: not registered, registered with
                \* m_stmt = nullptr, or registered and ready
    active,     \* the transaction handle is active
    open,       \* the server is in a transaction
    strayed,    \* history: the server refused to begin or end a transaction,
                \* ended one on its own, or was left under an active handle
    provoked,   \* history: a call was made that Provokes
    held,       \* what the call has to give back to the library
    accepted,   \* history: the server executed the statement
    broken,     \* history: a library call failed for a reason of its own
    logged,     \* history: its warnings were logged
    answer      \* what the call returned, or "none"

setup == <<logger, forgets>>

transaction == <<active, open, strayed>>

vars == <<setup, pc, call, client, stmt, transaction, provoked, held, accepted,
          broken, logged, answer>>

\* What a statement does: whether it returns rows and raises warnings, and
\* whether it begins or ends a transaction.
Statement ==
    {s \in [rows: BOOLEAN, warns: BOOLEAN, does: {"work", "begin", "end"}] :
        s.does # "work" => ~s.rows /\ ~s.warns}

Call == [how: {"Query", "SilentQuery", "Prepare", "Execute"}, statement: Statement]

\* The library calls of each kind of call.
Stages(how) ==
    CASE how = "Query" -> {"idle", "send", "warnings", "store"}
      [] how = "SilentQuery" -> {"idle", "send", "warnings"}
      [] how = "Prepare" -> {"idle", "init", "prepare"}
      [] how = "Execute" -> {"idle", "reset", "execute", "metadata", "bind",
                             "buffer", "fetch", "finish"}

\* unread: rows wait to be read.  columns: mysql->fields, needed to read them.
\* count: mysql_field_count() # 0.  warned: mysql_warning_count() # 0.
Client == [unread: BOOLEAN, columns: BOOLEAN, count: BOOLEAN, warned: BOOLEAN]

Fresh == [unread |-> FALSE, columns |-> FALSE, count |-> FALSE, warned |-> FALSE]

Init ==
    /\ logger \in BOOLEAN
    /\ forgets \in BOOLEAN
    /\ pc = "idle"
    /\ call = [how |-> "Query", statement |-> [rows |-> FALSE, warns |-> FALSE, does |-> "work"]]
    /\ client = Fresh
    /\ stmt = "none"
    /\ active = FALSE
    /\ open = FALSE
    /\ strayed = FALSE
    /\ provoked = FALSE
    /\ held = {}
    /\ accepted = FALSE
    /\ broken = FALSE
    /\ logged = FALSE
    /\ answer = "none"

-----------------------------------------------------------------------------
(* The library.                                                            *)

\* A command sent while rows wait to be read is refused by the library.
OutOfSync == IF forgets THEN [client EXCEPT !.columns = FALSE, !.count = FALSE] ELSE client

\* A command the server accepted.
AfterCommand(s) == [unread |-> s.rows, columns |-> s.rows, count |-> s.rows, warned |-> s.warns]

\* mysql_store_result reads every row.
AfterStore == [client EXCEPT !.unread = FALSE, !.columns = FALSE]

Readable == client.columns /\ client.unread

Return(a) == answer' = a /\ pc' = "idle"

\* Execute resets the statement before it returns.
Leave(a) == answer' = a /\ pc' = "finish"

Goto(stage) == pc' = stage /\ UNCHANGED answer

-----------------------------------------------------------------------------
(* Query and SilentQuery.                                                  *)

\* The calls that send a second command while rows wait, or leave them to the
\* next: SilentQuery of a statement that returns rows and, with a logger, Query
\* of one that also raises warnings.
Provokes(how, s) ==
    s.rows /\ (how = "SilentQuery" \/ (how = "Query" /\ logger /\ s.warns))

\* BeginTransaction returns an active handle, and Commit and Rollback leave an
\* inactive one, whatever the server answers.
Start(how, s) ==
    /\ pc = "idle"
    /\ s.does # "work" => how = "SilentQuery" /\ (active <=> s.does = "end")
    /\ active' = IF s.does = "work" THEN active ELSE s.does = "begin"
    /\ provoked' = (provoked \/ Provokes(how, s))
    /\ call' = [how |-> how, statement |-> s]
    /\ \/ how \in {"Query", "SilentQuery"} /\ pc' = "send" /\ answer' = "none"
       \/ how = "Prepare" /\ pc' = "init" /\ answer' = "none"
       \/ how = "Execute" /\ stmt = "ready" /\ pc' = "reset" /\ answer' = "none"
       \/ how = "Execute" /\ stmt # "ready" /\ Return("error")
    /\ accepted' = FALSE
    /\ broken' = FALSE
    /\ logged' = FALSE
    /\ UNCHANGED <<setup, client, stmt, open, strayed, held>>

\* The server executed the statement.
Executes ==
    /\ client' = AfterCommand(call.statement)
    /\ accepted' = TRUE
    /\ open' = IF call.statement.does = "work" THEN open ELSE call.statement.does = "begin"
    /\ UNCHANGED strayed

\* The server refused it; it may have rolled the transaction back as well.
Refuses ==
    /\ client' = Fresh
    /\ \/ open' = open /\ strayed' = (strayed \/ call.statement.does # "work")
       \/ open' = FALSE /\ strayed' = TRUE
    /\ UNCHANGED accepted

\* The library refused to send it.
Unsent == client' = OutOfSync /\ UNCHANGED <<accepted, open, strayed>>

\* Slip: the result of mysql_real_query is not looked at.
SendUnchecked ==
    /\ pc = "send"
    /\ IF client.unread THEN Unsent ELSE Executes \/ Refuses
    /\ Goto("warnings")
    /\ UNCHANGED <<setup, call, stmt, active, provoked, held, broken, logged>>

\* mysql_real_query.
Send ==
    /\ pc = "send"
    /\ \/ client.unread /\ Unsent /\ Return("error")
       \/ ~client.unread /\ Refuses /\ Return("error")
       \/ ~client.unread /\ Executes /\ Goto("warnings")
    /\ UNCHANGED <<setup, call, stmt, active, provoked, held, broken, logged>>

\* Slip: SilentQuery goes on to read a result, as Query does.
AlwaysStore == Goto("store")

AfterWarnings == IF call.how = "Query" THEN Goto("store") ELSE Return("ok")

\* Slip: warnings are asked for only when there are none.
LogWarningsInverted ==
    /\ pc = "warnings"
    /\ AfterWarnings
    /\ UNCHANGED <<setup, call, stmt, transaction, provoked, client, held, accepted, broken,
                   logged>>

\* LogMariaDBWarnings: SHOW WARNINGS is a command of its own and leaves its
\* own column count behind.
LogWarnings ==
    /\ pc = "warnings"
    /\ \/ /\ ~(logger /\ client.warned)
          /\ UNCHANGED <<client, broken, logged>>
       \/ /\ logger /\ client.warned /\ client.unread
          /\ client' = OutOfSync
          /\ UNCHANGED <<broken, logged>>
       \/ /\ logger /\ client.warned /\ ~client.unread
          /\ \/ /\ client' \in {Fresh, [client EXCEPT !.count = TRUE]}
                /\ broken' = TRUE
                /\ UNCHANGED logged
             \/ /\ client' = [client EXCEPT !.count = TRUE]
                /\ logged' = TRUE
                /\ UNCHANGED broken
    /\ AfterWarnings
    /\ UNCHANGED <<setup, call, stmt, transaction, provoked, held, accepted>>

\* Slip: no result set is an error.
StoreWithoutFieldCount ==
    /\ pc = "store"
    /\ \/ Readable /\ client' = AfterStore /\ Return("rows") /\ UNCHANGED broken
       \/ ~Readable /\ Return("error") /\ UNCHANGED <<client, broken>>
    /\ UNCHANGED <<setup, call, stmt, transaction, provoked, held, accepted, logged>>

\* mysql_store_result, StepResults and mysql_free_result; or, without a
\* result, mysql_field_count.
Store ==
    /\ pc = "store"
    /\ \/ Readable /\ client' = AfterStore /\ Return("rows") /\ UNCHANGED broken
       \/ /\ Readable
          /\ client' = [client EXCEPT !.unread = FALSE]
          /\ broken' = TRUE
          /\ Return("error")
       \/ ~Readable /\ ~client.count /\ Return("empty") /\ UNCHANGED <<client, broken>>
       \/ ~Readable /\ client.count /\ Return("error") /\ UNCHANGED <<client, broken>>
    /\ UNCHANGED <<setup, call, stmt, transaction, provoked, held, accepted, logged>>

-----------------------------------------------------------------------------
(* PrepareSTMT and ExecuteSTMT of one name.                                *)

\* emplace: a name that is taken keeps its statement.
Registered(s) == stmt' = IF stmt = "none" THEN s ELSE stmt

\* mysql_stmt_init, which may return nullptr.
StmtInit ==
    /\ pc = "init"
    /\ \/ held' = {"stmt"} /\ Goto("prepare") /\ UNCHANGED stmt
       \/ Registered("null") /\ Goto("idle") /\ UNCHANGED held
    /\ UNCHANGED <<setup, call, client, transaction, provoked, accepted, broken, logged>>

\* Slip: a statement the server refused is not closed.
StmtPrepareLeaks ==
    /\ pc = "prepare"
    /\ \/ client.unread /\ client' = OutOfSync /\ Registered("null") /\ UNCHANGED held
       \/ ~client.unread /\ client' = Fresh /\ Registered("null") /\ UNCHANGED held
       \/ ~client.unread /\ client' = Fresh /\ Registered("ready") /\ held' = {}
    /\ Goto("idle")
    /\ UNCHANGED <<setup, call, transaction, provoked, accepted, broken, logged>>

\* mysql_stmt_prepare.  The statement is closed when it is refused, and when
\* its name is taken, with the PreparedSTMT that emplace did not take.
StmtPrepare ==
    /\ pc = "prepare"
    /\ \/ client.unread /\ client' = OutOfSync /\ Registered("null")
       \/ ~client.unread /\ client' = Fresh /\ \E s \in {"null", "ready"} : Registered(s)
    /\ held' = {}
    /\ Goto("idle")
    /\ UNCHANGED <<setup, call, transaction, provoked, accepted, broken, logged>>

\* The first Reset: mysql_stmt_reset has nothing to discard, but may discard
\* what a SilentQuery of rows left unread.
Reset ==
    /\ pc = "reset"
    /\ \/ UNCHANGED client
       \/ client' = Fresh
    /\ Goto("execute")
    /\ UNCHANGED <<setup, call, stmt, transaction, provoked, held, accepted, broken, logged>>

\* mysql_stmt_bind_param, which may fail, and mysql_stmt_execute.
StmtExecute ==
    /\ pc = "execute"
    /\ \/ Leave("error") /\ UNCHANGED <<client, accepted, open, strayed>>
       \/ client.unread /\ Unsent /\ Leave("error")
       \/ ~client.unread /\ Refuses /\ Leave("error")
       \/ /\ ~client.unread
          /\ Executes
          /\ IF call.statement.rows THEN Goto("metadata") ELSE Leave("empty")
    /\ UNCHANGED <<setup, call, stmt, active, provoked, held, broken, logged>>

Fails == broken' = TRUE /\ Leave("error")

\* mysql_stmt_result_metadata.
Metadata ==
    /\ pc = "metadata"
    /\ \/ held' = {"metadata"} /\ Goto("bind") /\ UNCHANGED broken
       \/ Fails /\ UNCHANGED held
    /\ UNCHANGED <<setup, call, stmt, transaction, provoked, client, accepted, logged>>

\* Slip: the early return does not free the metadata.
BindResultLeaks ==
    /\ pc = "bind"
    /\ \/ Goto("buffer") /\ UNCHANGED <<held, broken>>
       \/ Fails /\ UNCHANGED held
    /\ UNCHANGED <<setup, call, stmt, transaction, provoked, client, accepted, logged>>

\* mysql_stmt_bind_result.
BindResult ==
    /\ pc = "bind"
    /\ \/ Goto("buffer") /\ UNCHANGED <<held, broken>>
       \/ Fails /\ held' = held \ {"metadata"}
    /\ UNCHANGED <<setup, call, stmt, transaction, provoked, client, accepted, logged>>

\* mysql_stmt_store_result; when it fails, rows may still wait.
StoreResult ==
    /\ pc = "buffer"
    /\ \/ client' = AfterStore /\ held' = held \cup {"rows"} /\ Goto("fetch") /\ UNCHANGED broken
       \/ Fails /\ client' \in {client, AfterStore} /\ held' = held \ {"metadata"}
    /\ UNCHANGED <<setup, call, stmt, transaction, provoked, accepted, logged>>

\* mysql_stmt_fetch and mysql_stmt_fetch_column until MYSQL_NO_DATA; an
\* error leaves the rows to the final Reset.
Fetch ==
    /\ pc = "fetch"
    /\ \/ Leave("rows") /\ held' = {} /\ UNCHANGED broken
       \/ Fails /\ held' = held \ {"metadata"}
    /\ UNCHANGED <<setup, call, stmt, transaction, provoked, client, accepted, logged>>

\* Slip: an Execute that does not reset the statement at its end.
FinishWithoutReset ==
    /\ pc = "finish"
    /\ pc' = "idle"
    /\ UNCHANGED <<setup, call, stmt, transaction, provoked, client, held, accepted, broken,
                   logged, answer>>

\* The last Reset discards what this statement left unread or buffered.
Finish ==
    /\ pc = "finish"
    /\ pc' = "idle"
    /\ client' = IF accepted THEN Fresh ELSE client
    /\ held' = held \ {"rows"}
    /\ UNCHANGED <<setup, call, stmt, transaction, provoked, accepted, broken, logged, answer>>

\* Disconnect and Connect: the registry is cleared, and the server rolls back.
Reconnect ==
    /\ pc = "idle"
    /\ client' = Fresh
    /\ stmt' = "none"
    /\ open' = FALSE
    /\ strayed' = (strayed \/ active)
    /\ UNCHANGED <<setup, pc, call, active, provoked, held, accepted, broken, logged,
                   answer>>

-----------------------------------------------------------------------------

Next ==
    \/ \E how \in {"Query", "SilentQuery", "Prepare", "Execute"}, s \in Statement : Start(how, s)
    \/ Send
    \/ LogWarnings
    \/ Store
    \/ StmtInit
    \/ StmtPrepare
    \/ Reset
    \/ StmtExecute
    \/ Metadata
    \/ BindResult
    \/ StoreResult
    \/ Fetch
    \/ Finish
    \/ Reconnect

Spec == Init /\ [][Next]_vars

-----------------------------------------------------------------------------
(* Properties.                                                             *)

\* Types of the call and the connection: each kind of call makes its own
\* library calls.
TypeOK ==
    /\ logger \in BOOLEAN
    /\ forgets \in BOOLEAN
    /\ call \in Call
    /\ pc \in Stages(call.how)
    /\ client \in Client
    /\ stmt \in {"none", "null", "ready"}
    /\ active \in BOOLEAN
    /\ open \in BOOLEAN
    /\ strayed \in BOOLEAN
    /\ provoked \in BOOLEAN
    /\ held \subseteq {"stmt", "metadata", "rows"}
    /\ accepted \in BOOLEAN
    /\ broken \in BOOLEAN
    /\ logged \in BOOLEAN
    /\ answer \in {"none", "ok", "rows", "empty", "error"}

\* As long as no call provoked it, the connection is ready for the next
\* command after every call, on every path out of it: no rows wait to be read.
ReadyBetweenCalls == pc = "idle" /\ ~provoked => ~client.unread

\* Every call gives back what it took from the library, also on its error
\* paths.
NothingHeld == pc = "idle" => held = {}

\* A transaction handle is active exactly while the server is in a transaction,
\* as long as the server itself did not refuse or end one: no BEGIN, COMMIT or
\* ROLLBACK is lost on the way because of what an earlier Query, Execute or
\* prepared statement left behind, unless a call provoked the connection.
TransactionsAgree ==
    pc = "idle" /\ ~provoked /\ ~strayed => (open <=> active)

Returned(answers) == pc = "idle" /\ answer \in answers

\* Success is reported only of a statement the server executed, whatever
\* happened before; and rows exactly of one that returns rows, unless the call
\* provoked the connection.
TruthfulSuccess ==
    Returned({"ok", "rows", "empty"}) =>
        /\ accepted
        /\ ~Provokes(call.how, call.statement) => (answer = "rows" <=> call.statement.rows)

\* LogMariaDBWarnings sends its own command in this call.
AsksForWarnings == logger /\ call.how # "Execute" /\ call.statement.warns

\* An error is reported only of a statement the server did not execute, unless
\* the library itself failed ("Result rows or an error.", database.hxx:137),
\* of every call that does not ask for warnings.
TruthfulErrorUnlessWarned ==
    Returned({"error"}) /\ ~AsksForWarnings => ~accepted \/ broken

\* "Server warnings are logged at Level::Notice." (README.md:164), by Query and
\* SilentQuery, of the statements without rows.
ChangesWarningsLogged ==
    pc = "idle" /\ AsksForWarnings /\ accepted /\ ~call.statement.rows => logged \/ broken

=============================================================================
