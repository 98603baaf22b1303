# StormByte-Database: models and proofs

StormByte-Database (`src/`) is a C++23 library that gives SQLite, PostgreSQL and MariaDB one interface: connections,
queries, prepared statements, typed values and RAII transactions. This directory holds TLA+ models of its core logic, the
TLC configurations that check them, and TLAPS proofs of the properties that matter most. `PROJECT.json` is the index: which
definition models which lines, which run checks what, and which deliberate slip of the code each property catches.

## 1. The system

| Part | Source (`src/lib/...`) | State | Operations |
|---|---|---|---|
| Transactions | `public/.../transaction.cxx`, `database.cxx:47-64` | `m_db`, `m_active` of each handle; the engine's session | `BeginTransaction`, `Commit`, `Rollback`, move, assignment, destruction |
| Backend BEGINs | `DoBeginTransaction` of the three backends | none | the statements for each `IsolationLevel` |
| SQLite library count | `sqlite3.cxx:11-90` | `g_sqlite_refcount`, `g_sqlite_init_mutex`, process-wide | `DoConnect`, `DoDisconnect`, `DoPostDisconnect`, destructor |
| Connections | `database.cxx:5-32`, the backends' hooks | `m_connected`, the raw handle | `Connect`, `Disconnect`, hooks, destructor, defaulted moves |
| Statement registry | `database.cxx:34-45`, `CreatePreparedSTMT` | `m_prepared_stmts`; the names PostgreSQL keeps on the server | `PrepareSTMT`, `ExecuteSTMT` |
| PostgreSQL parameters | `postgres/prepared_stmt.cxx` | five vectors, some pointing into others | `Binder`, `Reset`, `DoExecute` |
| MariaDB protocol | `mariadb.cxx:11-34,146-194`, `mariadb/prepared_stmt.cxx` | what the client library has outstanding | `Query`, `SilentQuery`, `LogMariaDBWarnings`, a statement's constructor and `Execute`, and the transaction statements sent over it |
| MariaDB fetch loop | `mariadb/prepared_stmt.cxx:221-414` | output buffers, `bind_out` and the library's copy of it | fetch, refetch after truncation, building rows |
| Conversions | the three `Binder`s, the three `result_fetch.hxx` | none | a `Value` to a parameter, a column to a `Value` |
| `Value::Get` | `value.hxx:141-238` | the variant | the numeric conversions |
| `Row`, `NamedValue` | `row.cxx`, `row.hxx`, `named_value.hxx` | columns and a lazily built name index | `add`, assignment to a column, copies, moves, `operator[](name)` |

How they interact. `Database` is a template-method class: `Connect` and `Disconnect` call private virtual hooks that the backends
implement and applications may override. `BeginTransaction` sends `BEGIN` through the backend and returns a handle that keeps
a pointer to the `Database`; the handle sends `COMMIT` or `ROLLBACK` through the same pointer. `ExecuteSTMT` looks a statement up
in the registry; the statement keeps the connection it was created on. Two pieces of state are shared
between threads: the SQLite use count, and the name index of a `Row`, which the lookup of a `const` `Row` writes. `database.hxx:40` forbids using one `Database` from two threads.

What is hard in it:

* results of `BEGIN`, `COMMIT` and `ROLLBACK` are dropped, so the handle and the engine can disagree;
* ownership moves: handles and whole connections are moved, assigned and destroyed in any order;
* a process-wide count is taken in one critical section and given back in another, with a failing call between them;
* addresses given to C libraries outlive the memory they name (PostgreSQL parameters, MariaDB result buffers);
* one MariaDB connection carries one command at a time, and logging sends commands of its own; a `COMMIT` refused for that reason is not noticed;
* a cached index outlives what it was built from, and is built inside a `const` call;
* integers change width and signedness between `Value`, parameter, column and `Value`.

The correctness of each part is the list of properties in section 3. `PROJECT.json` lists the hazards behind them, line by line.

## 2. Modules

| Module | Models |
|---|---|
| `ServerSession` | the three engines' answers to transaction statements (external; no state of its own) |
| `Transaction` | handles, `Database` and session together; one action per operation |
| `TransactionPromise` | the abstract promise: work becomes durable together at commit, or never |
| `TransactionRefinement` | the refinement mapping from `Transaction` to `TransactionPromise` |
| `Transaction_proofs` | theorems about `Transaction`, and that it implements `TransactionPromise` |
| `SQLiteLibrary` | threads connecting and disconnecting SQLite objects |
| `SQLiteLibrary_proofs` | theorems about `SQLiteLibrary` |
| `Connection` | life of `Database` objects, registry and engine connections |
| `Connection_proofs` | theorems about `Connection` |
| `PostgresBinder` | parameter storage of one PostgreSQL statement |
| `PostgresBinder_proofs` | theorems about `PostgresBinder` |
| `MariaDBClient` | the client-library calls of one MariaDB connection: queries, one prepared statement, one transaction handle |
| `MariaDBClient_proofs` | theorems about `MariaDBClient` |
| `MariaDBFetch` | buffers of the MariaDB fetch loop, of strings and of numbers |
| `MariaDBFetch_proofs` | theorems about `MariaDBFetch` |
| `RoundTrip` | a value bound, stored and fetched, over and over, through any backend |
| `ValueGet` | chains of `Value::Get` |
| `Values_proofs` | theorems about `ValueGet` and `RoundTrip`, which share the arithmetic |
| `RowIndex` | rows, their name index, and the threads that look into it |
| `RowIndex_proofs` | theorems about `RowIndex` |
| `MCTransaction`, `MCSQLiteLibrary`, `MCConnection`, `MCRowIndex` | finite instances and symmetry sets |

Operators whose comment begins with "Slip" are not part of a model: each is a plausible mistake in the definition that follows it,
and `PROJECT.json` (`mutants`) pairs it with the property that notices.

### Correspondence with the code

**Transaction.** An operation of a `Database` is one step, since one thread uses it. `DoSilentQuery` sends nothing unless `connected`.
Every statement is answered by one of a set of outcomes (result, session after it, writes made durable); `Take` applies the session and
the writes and ignores the result, as `database.cxx:50,57,63` do. Handles are `[live, db, active, unit]`; `unit` is a history that names
the application's transaction. `Commit` and `Rollback` of an inactive handle return early in the code and are left out, being no step.
The constants `Liberties` and `Faults` say what the application does beyond one transaction at a time and what the engine does beyond
obeying, so that a property can be stated for the conditions under which the code has it. `parted` is a history: it becomes true as soon as engine and handles
disagree (`OpenExactlyWhileOwned` fails after a step), or a terminator is sent past an active handle. It lets a run that takes every liberty and every fault still ask what holds up to there.

**SQLiteLibrary.** Each object is used by a thread of its own. A step lies between two points where another thread can run: the mutex,
`sqlite3_open`, the close. `Disconnect` and the destructor, which always calls it, are taken on connected and unconnected objects alike, as the code
allows; `stolen` remembers that an unconnected object gave back a use of another's. `sqlite3_open` initialises the library itself when needed.

**Connection.** The raw handle, `m_connected` and the registry per object; per engine connection whether it is open, closed, kept open
by unfinalised statements (`busy`) or used after closing (`misused`); for PostgreSQL, the names prepared on the server. Moves copy
the handle and move the registry, which is what the defaulted members do. `overriding` says that the application derived a class of its own that overrides `DoPreDisconnect`,
as `database.hxx:46` invites it to; that of the backend, in which the registry is cleared, is private and cannot be called from it. Destruction has left the derived class behind and runs the backend's.
`torn` remembers that a connected object was moved or assigned over, or that an overriding hook left a registry that was not empty.

**PostgresBinder.** Capacity stands for the address of a vector's elements, since the elements move exactly when it changes. A short string keeps its
characters inside the element (small-string optimisation), a long one and a blob in a block of their own.

**MariaDBClient.** A step is one call of the client library: what is outstanding (`unread`), whether the columns needed to read it are still there,
and the field and warning counts of the last command. `provoked` remembers that a call left rows unread (`SilentQuery` of a statement that returns
rows) or asked for warnings while rows waited (`Query` with a logger). `forgets` covers both ways a library may treat the columns when it refuses a command.
A statement's name is unregistered, registered with `m_stmt = nullptr`, or ready. `active` is the handle's side of a transaction and changes when the call starts, since `BeginTransaction`, `Commit` and
`Rollback` ignore the answer; `open` is the server's side and changes only if the command reaches it. `SET TRANSACTION` is one more `SilentQuery` without rows. `strayed` remembers that the
server itself refused, or ended a transaction, or was disconnected under an active handle; what remains for `TransactionsAgree` are the commands lost inside the client library.

**MariaDBFetch.** `bind` is the loop's own `bind_out`, `written` the copy the library took in `mysql_stmt_bind_result`. A write through the copy after the
buffer moved is undefined; the model takes the mildest outcome, that nothing arrives; rows are wrong even so. A numeric column is bound to `out_int` and its like
with no `buffer_length`, so at the first truncation the loop fetches it again, into `out_str`; the library goes on writing `out_int`, from which rows are read.

**RoundTrip, ValueGet.** Integers keep their width and signedness (3, 5 bits for 32, 64). `RoundTrip` counts in units three of which are the last decimal
`std::to_string` writes. Texts are three model values, one the others' prefix up to a NUL. Statements the engine refuses change nothing and are left out.
The two modules share no name (`int` is `IntBits` in one, `NarrowBits` in the other), so that `Values_proofs` can extend both.

**RowIndex.** A column is its name. Whatever changes a `Row` (`add`, assigning a `NamedValue` through the `operator[](index)` of `Iterable`, being copied to, moves) has it to itself. The lookup by name of a `const` `Row` takes three steps,
`StartLookup` (is there an index?), `Build` and `Find`, and threads take them in any order; the other overloads take the same steps. `raced` remembers that an index was replaced while another thread used the
`Row`, after which a lookup may return anything; `renamed` that a column got another name under an index, which only `add` resets.

## 3. Runs

The runs are exhaustive for their bounds. One run asks one module everything the module has to answer under one specification; where the code
keeps a promise only as long as something does not happen, the model remembers the happening in a history variable and the property says
"as long as". The limits of each promise are therefore part of what the run shows.

| Run | Shows |
|---|---|
| `tx_ownership` | with every liberty and fault, each transaction has one owner and no terminator, or no owner and one terminator; until engine and handles part, nothing is durable unless committed, and the level asked for is honoured |
| `tx_promise` | with refused statements, refinement of `TransactionPromise`; commit is durable; engine and handles agree; transactions end |
| `lib_use` | until a use is stolen the count is exact and the library lives exactly as long as it is used; the count never exceeds the users; the mutex is given back |
| `conn_life` | until a connected object is moved or assigned over, or an overriding hook leaves the registry, statements die with their connection, connections have one owner, PostgreSQL's names agree with the registry, the first registration stays |
| `bind_any` | a parameter is sent as bound unless it is a short string and the storage grew after it was bound |
| `client_calls` | until provoked, every path leaves the connection ready and no `BEGIN`, `COMMIT` or `ROLLBACK` is lost in the client library; nothing is leaked and no success invented even then |
| `fetch_rows` | rows as sent up to the first value a guessed length was too short for, and numbers always; never past a buffer; none skipped |
| `rt_copied` | the losses `BindRisk` and `FetchRisk` name are the only ones; `Query` and `ExecuteSTMT` agree on the columns both know |
| `get_guarded` | numbers survive every guarded conversion and are refused only when they must be |
| `row_index` | until threads race or a column is renamed under an index, a lookup finds the first column of the name or throws; no index leads outside its row even then |

Two runs exhibit a disagreement between the code and what is said of it (`findings` in `PROJECT.json` quotes the line):

| Run | Shows |
|---|---|
| `tx_begin_refused` | a refused `BEGIN` still yields an active handle; writes under it are committed one by one |
| `bind_short` | a PostgreSQL parameter is read through a pointer into a freed vector |

### What the conditions leave out

Each condition in a property stands for behaviour of the code that a caller should know of. It can be seen by dropping the condition, or changing the constant named, and running TLC.

| Condition | Without it |
|---|---|
| `Faults` without `"commit"` in `tx_promise` | a refused `COMMIT` is ignored (`transaction.cxx:35`): the handle is inactive, the transaction stays open without an owner |
| `~parted` | two handles over one connection: committing the second commits what was written under the first; a transaction the engine aborted goes on in autocommit under an active handle |
| `~stolen` | an object disconnected twice, explicitly and by its destructor, or never connected, takes a use of another's and may shut SQLite down under it (`sqlite3.cxx:87`) |
| `~torn` | a move leaves the raw handle and `m_connected` in the source (`sqlite3.hxx:56` and its likes), whose destructor closes the connection again; assignment over a connected object leaks its connection; a derived class that overrides `DoPreDisconnect` leaves statements of a closed connection registered |
| `backend # "mariadb"` in `ServerAgrees` | MariaDB registers statements the server refused (`mariadb.cxx:200`), and the name stays taken |
| `~provoked` | `SilentQuery` leaves rows unread and every later command is refused; `SHOW WARNINGS` is refused while rows wait (`mariadb.cxx:157`); a `COMMIT` is refused with them (`mariadb.cxx:182`) and the handle goes inactive over an open transaction |
| `~strayed` | the server's own refusals part the two sides, which is the subject of `Transaction` |
| `~AsksForWarnings` | an executed statement with a warning is reported as an error when there is a logger: `mysql_field_count` is that of `SHOW WARNINGS` |
| `~Overlong` | after a truncation the library writes into a freed buffer (`mariadb/prepared_stmt.cxx:326`) |
| `BindRisk`, `FetchRisk` | large unsigned integers become negative, doubles lose what is beyond the sixth decimal in PostgreSQL, empty blobs become NULL, texts end at a NUL, a large `BIGINT UNSIGNED` is 0 to `Query`, 64-bit integers lose bits where `long int` has 32 |
| the columns left out of `PathsAgree` | a `MEDIUMINT` or `DECIMAL` is a number to `Query` and a text to `ExecuteSTMT` |
| `~raced`, `renamed` | a lookup of a `const` `Row` writes without synchronisation (`row.cxx:25`); after `row[i] = ...` the index still leads to the column by its old name (`row.cxx:18`) |
| `~inexact` | `Get` rounds a long integer to a double (`value.hxx:217`), and casts a double to `intmax_t` before it tests the range (`value.hxx:222`) |

### Bounds

* Transactions: two handles are enough for every move and assignment (they relate two objects), two units for a transaction inside or
  after another, two writes for one inside and one outside, three isolation levels for one that sends nothing, a weak and a strong one. Symmetry is used only in runs without liveness or refinement.
* SQLite: three threads, so that one can connect, one fail and one leave at the same time.
* Connections: two objects, three engine connections (reconnecting uses a new one), two names, two texts.
* PostgreSQL: four parameters and a capacity of six: several growths within one Execute and reuse of grown storage by the next.
* MariaDB fetch: two string columns and a number, three rows, strings that are empty, that fill the guessed buffer and that exceed it: a truncation, the row after it and one more.
* MariaDB client: no bounds; the state is finite.
* Rows: two rows (copies and moves relate two), three columns under two names (so that two have the same), two threads.
* Values: 3, 5 or 6 bits keep the order int < long and include every edge; `rt_copied` has `long int` of both widths it has on real platforms, and in `get_guarded` the significand is narrower
  than `LongBits` (as 53 < 64). `MostUnits` covers fractions below, at and between the decimals written.

The unbounded quantities are `MaxRows`, `MaxParams`, `MaxCapacity`, `MaxColumns`, the sets of units and writes (each used once) and the engine connections (each opened once);
everything else is finite by itself.

### Deadlock and fairness

`CHECK_DEADLOCK FALSE` is said where behaviours end: a fetch loop ends (`fetch_rows`), and a value may arrive where no column takes it (`rt_copied`). Elsewhere TLC checks for deadlock.

`EveryTransactionEnds` assumes weak fairness of `ScopeEnds` only: an object that owns a transaction is eventually destroyed. That is the C++ rule for automatic
objects and what RAII rests on; no fairness is assumed of `Commit`, `Rollback` or the engine. `MutexReleased` assumes weak fairness of the step a thread takes inside the
critical section: it contains no waiting (`sqlite3_initialize` and `sqlite3_shutdown` return), so a running thread leaves it. Acquiring the mutex is not assumed fair.

## 4. Proofs

TLAPS proves, for all values of the constants allowed by the named assumptions of the modules (`FaultsAssumption`, `ParametersAssumption`, `InstancesAssumption`, `KindsAssumption`, `NullsAssumption`,
`NullAssumption`, `FetchAssumption`, `WidthsAssumption`, `RoundTripAssumption`, `RowAssumption`), every safety property that a passing run checks. Hypotheses a theorem has
besides are in its row.

| Module | Theorem | Statement | Argument |
|---|---|---|---|
| `Transaction` | `TypeCorrect` | `[]TypeOK` | each engine answer is an `Outcome` (one lemma per statement), then one step per action |
| | `EveryTransactionEndedExactlyOnce` | `[]EndedExactlyOnce` | `Linear` |
| | `OnlyCommitMakesDurable` | `[]DurableOnlyByCommitInStep` | `Safe` and `InStep`, with `Linear` |
| | `TransactionsGetTheirLevel` | `[]LevelHonoured` | inductive with `InStep`: what is left to show is `BeginGrants` |
| | `OpenWhileOwned` | no liberties, `Faults` within `write`, `drop`: `[]OpenExactlyWhileOwned` | `InTune` |
| | `DurableOnlyOnceCommitted` | the same: `[]DurableOnlyByCommit` | then `parted` stays false |
| | `CommittedIsDurable` | no liberties, `Faults` within `write`: `[]CommitIsDurable` | `Sound` |
| | `PromiseKept` | the same: `KeepsPromise`, that is `Promise!Spec` | each kind of step is a step of the promise or a stutter |
| `SQLiteLibrary` | `LibraryTypeCorrect` | `[]TypeOK` | inductive as it stands |
| | `LibraryNeverOvercounted` | `[]NeverOvercounted` | with `Shape` and `Exclusion`; effect of each step on the set of users |
| | `LibraryCountExact` | `[]RefcountExact` | the same, with equality, as long as no use is stolen |
| | `LibraryFollowsUse` | `[](InitialisedWhileOpen /\ ShutDownWhenUnused)` | `InitialisedExactly` |
| | `LibraryShutDownByLast` | `[]ShutDownWhenUnused` | from the last |
| `Connection` | `ConnectionTypeCorrect` | `[]TypeOK` | one step per action |
| | `StatementsDieWithConnection` | `[]StatementsLive` | `Owned` |
| | `ConnectionsHaveOneOwner` | `[]EveryConnectionHasOneOwner` | `Owned` |
| | `ServerKnowsRegistered` | `[]ServerAgrees` | `Usable` and `ServerKnows` |
| | `FirstStatementStays` | `FirstRegistrationWins` | every step is a `Quiet` one or prepares a name |
| `PostgresBinder` | `BinderTypeCorrect` | `[]TypeOK` | with `Fits`: the vectors have room for what was bound |
| | `OnlyShortStringsMove` | `[]SentAsBoundUnlessMoved` | `Holds` |
| `MariaDBClient` | `ClientTypeCorrect`, `NextCommandTaken`, `AllGivenBack`, `HandleAndServerAgree`, `SuccessIsTrue`, `ErrorIsTrue`, `WarningsReachLogger` | every invariant of `client_calls` | `IInv` |
| `MariaDBFetch` | `TypeCorrect` | `[]TypeOK` | with `Counted` |
| | `FetchReadsStayInside` | `[]ReadsStayInside` | `Rooms` |
| | `NoRowSkipped` | `[]NoneSkipped` | `Counted` |
| | `RowsAsSent` | `[]RowsAsSentUpToTruncation` | `Bound`, `Held` |
| `ValueGet` | `GuardedChainKeepsNumber` | `[](~inexact => value.number = origin)` | `Guarded` |
| | `RefusesOnlyWhenItMust` | `[]ThrowsOnlyWhenItMust` | `Guarded` |
| | `NumberKept` | `PowersDouble`: `[]NumberKeptWhereGuarded` | `Fits`, with `RoundedRounded` |
| `RoundTrip` | `TripTypeCorrect`, `CopiedUnchanged`, `BothPathsAgree` | `PowersDouble`: every invariant of `rt_copied` | `Faithful` |
| `RowIndex` | `RowTypeCorrect` | `[]TypeOK` | one step per action |
| | `IndexStaysInsideRow` | `[]IndexInsideRow` | `IInv`: an index leads to columns its row has; a race does not change that, since every thread builds the same index |
| | `LookupsFindFirst` | `LookupFindsFirst` | `IInv`: unless a column was renamed under it, an index leads where a search would (`BuiltFindsFirst`) |

**Transaction.** `EndedExactlyOnce` speaks of how many handles own a unit; counting is awkward to carry through a move. `Linear` says instead that a handle that owns a unit
excludes every other, that an owned unit was begun and has no terminator, and that a unit begun and unowned has one. A move exchanges which handle owns, a terminator ends ownership and adds one entry, and
nothing else touches either; `LinearSuffices` gives the counted form back.

Durability needs to know where writes wait. `Safe` says that writes are pending in an open transaction only (each engine answer is `Tame`: it invents no write and keeps none past the transaction), and `InStep` that, until
engine and handles part, all that is pending was written under the transaction that is active now. A `COMMIT` then saves work of the unit it is recorded for; every other step that saves, saves one write made under no transaction. The
remaining danger is a `BEGIN` that makes MariaDB commit implicitly what is open; `BeginAlone` shows that such a step parts the two sides.
The level rests on the same lemma: in step, `BEGIN` always finds the engine idle, where all three engines open at no less than what was asked (`BeginGrants`), and no other statement changes the level of a transaction that stays open (`KeepsLevel`).

What a commit promises holds only of an application without liberties (`Liberties = {}`: one transaction at a time, begun and ended while connected, and never ended past its handle) and of an engine that does what it is told or
refuses writes; with a refused `BEGIN` it is false (`tx_begin_refused`). Under these hypotheses `StepKinds` shows that, for whatever handles, a step is one of four kinds: `Moot` (no transaction is touched: connecting,
disconnecting, moving, ending what is not owned), `Begins`, `Ends`, or a write. Handles then drop out of the argument but for the set of units they own. `InTune` adds to `OpenExactlyWhileOwned` what connecting and disconnecting
need; a lost connection keeps it, since nothing is claimed of one. `Sound` is what a `COMMIT` finds: no connection is lost, PostgreSQL's session has failed exactly when the active transaction had a write refused (MariaDB and SQLite never fail one), and every write
acknowledged under the active transaction waits in the session. The refinement follows `StepKinds`: `Moot` steps stutter, and `Begins`, `Ends` and writes are the promise's actions of the same name, where a COMMIT that PostgreSQL answers by rolling a
failed block back is the promise's `Rollback`, and a write refused within a transaction is its `Doom` on PostgreSQL and a stutter elsewhere (`PromiseBegins`, `PromiseEnds`, `PromiseWrites`).

**SQLiteLibrary.** `RefcountExact` needs two facts about the threads: `Exclusion` (a thread is inside the critical section exactly when it holds the mutex) and `Shape` (which stages go with being connected
and with an open handle). A `Release` by an object that is not among the users is harmless exactly when the count is 0, and is remembered in `stolen` otherwise, so the invariants need no assumption about the owners. `InitialisedExactly` ties the library to the count: as long as no use is stolen, it is initialised exactly while the count is positive, or a thread is between initialising and counting.

**Connection.** `Owned` says that, until `torn`, an open engine connection is the handle of exactly one object, that this object is connected, and that registries name statements of their own object's connection only. A move of an unconnected
object changes nothing of this; a move of a connected one sets `torn`.

**PostgresBinder.** `Holds` follows the pointers: each leads to where its parameter is now, or its parameter is a short string and the vector has moved since. The vectors only grow while one execution binds, and are emptied by the next `Reset`.

**MariaDBClient.** `IInv` records what one library call leaves to the next: what is held before each (`HeldByStage`), how far the statement has come (`Progress`), what is known of its result before and after the
warnings are logged (`ResultKnown`), where rows may wait (`NothingWaits`), and that the handle is ahead of the server exactly while a `BEGIN` or its end is on its way (`SidesAgree`).

**MariaDBFetch.** `Rooms`: a buffer that was fetched into is at least as long as the length the loop later reads, since the loop grows it first; the library's copy of the bindings never claims more room than the buffer has.
`Counted`: rows handed over are the rows fetched, less the one in hand. `Bound` and `Held` say where a value lies: the library writes to the buffers it was told of before the first fetch, and as long as no row
was longer than the guess (`Smooth`) those are still the loop's own, with the current row in them; a number is fetched into its own place whatever happened. The first overlong row is completed by fetching its column again into the new buffer, which is why that row is still as sent.

**ValueGet.** `Guarded`: as long as nothing was inexact, the number is the first one, a value of any type but `double` holds a whole number, and what was refused did not fit. `Fits`: the number is one the type can hold.
Only the conversion to `double` is not obvious. `RoundedRounded` shows that rounding lands on a double: the result is a multiple of the spacing, and either it is among the doubles of that spacing, or it is the next power of two, which is a multiple of the next spacing.
An integer of any width is rounded to no more than `2 ^ (MaxBits + 1)`, which the doubles must reach (`Beyond` in `WidthsAssumption`: those of the code reach 2 ^ 1024).

**RoundTrip.** `Faithful`: the value in hand is of its type, or a number as text; the cell is one its column accepts, with no blob in a column of text; and unless `risky`, both are what the copying began with. Each binder and each reader has a lemma
that says what it returns for every type and column, and that it is what went in where `BindRisk` and `FetchRisk` say nothing; they rest on `AsSignedKeeps` and `AsUnsignedKeeps`, what the casts between widths keep.

The provers know nothing of `2 ^ n` for a variable `n`, and the law cannot be had by induction, which the library states with an operator for parameter. So `PowersDouble` (each power is positive, and the next is twice as large) is a hypothesis of the
theorems that use it, and the only fact about numbers they take; monotonicity, sums of exponents, division and rounding are proved from it.

Only model-checked: liveness (`EveryTransactionEnds`, and that a mutex is released, `MutexReleased`), which is beyond the prover.

## 5. Not modelled

`Rows` (a vector of `Row` with defaulted operations), the mutators of `Iterable` other than assignment through `operator[]` (they are in another repository), exceptions (wording); logging, except where it sends statements; `SslMode` (a stored option, whose MariaDB part
depends on the preprocessor); symbol visibility; the build system; the vendored libraries and the StormByte base libraries, which are submodules outside the repository. Date, bit and 32-bit float columns take
branches of the conversions that are modelled for other types. `m_db` of a handle is a plain pointer: `Transaction` keeps one `Database` in one place for as long as its handles live. Allocation failures (a `LONGTEXT` column declares up to 4 GiB) are outside what the models tell apart.

The engines and client libraries are modelled from how the code uses them. Where their behaviour is not settled by that use (whether a refused command drops the columns of an
unread result, whether a null pointer of length zero is a NULL), the model has both.

## 6. Plan

Every safety property that a run checks is proved. What is left is to extend the models rather than the proofs:

1. `m_db` as a pointer that a move of the `Database` leaves behind, once several `Database` objects are in `Transaction`.
2. `KeepsPromise` for an engine that may lose the connection: the promise would need a step that abandons the running transaction, and one that says an unconnected session takes no writes.
