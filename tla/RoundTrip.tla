------------------------------- MODULE RoundTrip -------------------------------
(***************************************************************************)
(* What becomes of a Value that is bound to a prepared statement, kept in  *)
(* a column by the engine and fetched again: the Binder (MariaDB:          *)
(* DoExecute) and the two ways results are read, Query and ExecuteSTMT, of *)
(* each backend.  A value may be copied from backend to backend for ever.  *)
(*                                                                         *)
(* Numbers are counted in units, three to the millionth, so that a double  *)
(* may have more decimals than std::to_string writes, and, which keeps the *)
(* instances small, six to the integer.  The engines do not alter a number *)
(* on their own (MariaDB runs in strict mode, its default); a statement    *)
(* they refuse changes nothing and is left out.                            *)
(***************************************************************************)
EXTENDS Integers

CONSTANTS
    NarrowBits,     \* int
    LongWidths,     \* of long int: as narrow as int on Windows
    WideBits,       \* long long, sqlite3_int64, int64_t, BIGINT
    MostUnits,      \* the largest double tried, in units
    Plain, WithNul, Cut,    \* texts: WithNul is Cut up to its first NUL
    NoBytes, Bytes,         \* blobs
    None            \* SQL NULL

IntegralTypes == {"Integer", "UnsignedInteger", "LongInteger", "UnsignedLongInteger"}
NumericTypes == IntegralTypes \cup {"Double", "Boolean"}
ValueTypes == NumericTypes \cup {"Text", "Blob", "Null"}

SQLiteColumns == {"INTEGER", "REAL", "TEXT", "BLOB"}
PostgresColumns == {"boolean", "integer", "bigint", "numeric", "double precision",
                    "text", "bytea"}
MariaDBColumns == {"TINYINT(1)", "MEDIUMINT", "INT", "INT UNSIGNED", "BIGINT",
                   "BIGINT UNSIGNED", "DECIMAL", "DOUBLE", "TEXT", "BLOB"}

Backends == {"SQLite", "Postgres", "MariaDB"}

ColumnsOf(b) ==
    CASE b = "SQLite" -> SQLiteColumns
      [] b = "Postgres" -> PostgresColumns
      [] b = "MariaDB" -> MariaDBColumns

\* MEDIUMINT is narrower than int and still has a bit.
ASSUME RoundTripAssumption ==
    /\ NarrowBits \in Nat \ {0, 1} /\ WideBits \in Nat
    /\ LongWidths \subseteq NarrowBits..WideBits
    /\ MostUnits \in Nat
    /\ {Plain, WithNul, Cut, NoBytes, Bytes, None} \cap Int = {}
    /\ {Plain, WithNul, Cut} \cap {NoBytes, Bytes} = {}
    /\ None \notin {Plain, WithNul, Cut, NoBytes, Bytes}

VARIABLES
    longBits,   \* width of long int; never changes
    hand,       \* the Value in the program's hands
    cell,       \* what an engine keeps: its backend, column and content
    source,     \* history: the content the copying began with
    risky       \* history: a step named in BindRisk or FetchRisk was taken

tripVars == <<longBits, hand, cell, source, risky>>

Fractions == -MostUnits..MostUnits
Texts == {Plain, WithNul, Cut}
Blobs == {NoBytes, Bytes}

Units(n) == 6 * n

Numbers(lowest, highest) == {Units(n) : n \in lowest..highest}
SignedNumbers(bits) == Numbers(-(2 ^ (bits - 1)), 2 ^ (bits - 1) - 1)
UnsignedNumbers(bits) == Numbers(0, 2 ^ bits - 1)

\* The contents a Value of type t may have.
Contents(t) ==
    CASE t = "Integer" -> SignedNumbers(NarrowBits)
      [] t = "UnsignedInteger" -> UnsignedNumbers(NarrowBits)
      [] t = "LongInteger" -> SignedNumbers(longBits)
      [] t = "UnsignedLongInteger" -> UnsignedNumbers(longBits)
      [] t = "Boolean" -> Numbers(0, 1)
      [] t = "Double" -> Fractions
      [] t = "Text" -> Texts
      [] t = "Blob" -> Blobs
      [] t = "Null" -> {None}

\* What a column accepts.
Accepted(column) ==
    CASE column \in {"integer", "INT"} -> SignedNumbers(NarrowBits)
      [] column = "MEDIUMINT" -> SignedNumbers(NarrowBits - 1)
      [] column = "INT UNSIGNED" -> UnsignedNumbers(NarrowBits)
      [] column \in {"INTEGER", "bigint", "BIGINT"} -> SignedNumbers(WideBits)
      [] column = "BIGINT UNSIGNED" -> UnsignedNumbers(WideBits)
      [] column \in {"boolean", "TINYINT(1)"} -> Numbers(0, 1)
      [] column \in {"REAL", "double precision", "DOUBLE", "DECIMAL"} -> Fractions
      [] column = "numeric" -> Fractions \cup SignedNumbers(WideBits) \cup UnsignedNumbers(WideBits)
      [] column \in {"TEXT", "text"} -> Texts
      [] column \in {"BLOB", "bytea"} -> Blobs

\* A text column also takes numbers that were read as text.
Accepts(column, c) == c = None \/ c \in Accepted(column) \/ column \in {"TEXT", "text"}

\* The columns a schema has for values of type t.
Suits(t, column) ==
    CASE t \in IntegralTypes -> column \in {"INTEGER", "integer", "bigint", "numeric", "MEDIUMINT",
                                            "INT", "INT UNSIGNED", "BIGINT", "BIGINT UNSIGNED"}
      [] t = "Boolean" -> column \in {"INTEGER", "boolean", "TINYINT(1)"}
      [] t = "Double" -> column \in {"REAL", "double precision", "numeric", "DECIMAL", "DOUBLE"}
      [] t = "Text" -> column \in {"TEXT", "text"}
      [] t = "Blob" -> column \in {"BLOB", "bytea"}
      [] t = "Null" -> TRUE
      [] t = "nothing" -> FALSE

NoCell == [backend |-> "none", column |-> "none", content |-> None]

Value(t, content) == [type |-> t, content |-> content]

\* Nothing was fetched yet.
NoValue == [type |-> "nothing", content |-> None]

TripInit ==
    /\ longBits \in LongWidths
    /\ \/ \E t \in ValueTypes : hand \in {Value(t, c) : c \in Contents(t)} /\ cell = NoCell
       \/ /\ hand = NoValue
          /\ \E b \in Backends : \E column \in ColumnsOf(b) :
                \E c \in Accepted(column) :
                    cell = [backend |-> b, column |-> column, content |-> c]
    /\ source = IF cell = NoCell THEN hand.content ELSE cell.content
    /\ risky = FALSE

-----------------------------------------------------------------------------
(* Binding.                                                                *)

\* The units of a number kept in that many bits, read as signed.
AsSigned(units, bits) ==
    LET n == (units \div 6) % 2 ^ bits
    IN Units(IF n < 2 ^ (bits - 1) THEN n ELSE n - 2 ^ bits)

\* The cast or the missing is_unsigned that makes an unsigned integer signed.
MadeSigned(v) ==
    CASE v.type = "UnsignedInteger" -> AsSigned(v.content, NarrowBits)
      [] v.type = "UnsignedLongInteger" -> AsSigned(v.content, WideBits)
      [] OTHER -> v.content

\* A const char* without a length.
UpToNul(text) == IF text = WithNul THEN Cut ELSE text

\* std::to_string of a double writes six decimals.
SixDecimals(units) == 3 * ((units + 1) \div 3)

SQLiteBinder(v) ==
    CASE v.type = "Text" -> {UpToNul(v.content)}
      [] v.content = NoBytes -> {None}
      [] OTHER -> {MadeSigned(v)}

\* The data() of an empty vector may be null, which libpq takes for NULL.
PostgresBinder(v) ==
    CASE v.type = "Double" -> {SixDecimals(v.content)}
      [] v.type = "Text" -> {UpToNul(v.content)}
      [] v.content = NoBytes -> {None, NoBytes}
      [] OTHER -> {v.content}

\* The same null pointer, which a client library may take for NULL.
MariaDBBinder(v) == IF v.content = NoBytes THEN {None, NoBytes} ELSE {MadeSigned(v)}

Binder(b, v) ==
    CASE b = "SQLite" -> SQLiteBinder(v)
      [] b = "Postgres" -> PostgresBinder(v)
      [] b = "MariaDB" -> MariaDBBinder(v)

-----------------------------------------------------------------------------
(* Fetching.                                                               *)

\* static_cast<long int>.
Long(units) == Value("LongInteger", AsSigned(units, longBits))

\* Slip: an int whatever the number.
AlwaysInt(units) == Value("Integer", AsSigned(units, NarrowBits))

IntOrLong(units) ==
    IF units \in SignedNumbers(NarrowBits) THEN Value("Integer", units) ELSE Long(units)

\* static_cast<unsigned long int>.
UnsignedLong(units) ==
    Value("UnsignedLongInteger", Units((units \div 6) % 2 ^ longBits))

\* std::stoll, with 0 for what it cannot read.
Stoll(units) == IF units \in SignedNumbers(WideBits) THEN units ELSE 0

SQLiteFetch(column, c) ==
    CASE column = "INTEGER" -> IntOrLong(c)
      [] column = "REAL" -> Value("Double", c)
      [] column = "TEXT" -> Value("Text", UpToNul(c))
      [] column = "BLOB" -> Value("Blob", c)

\* Slip: bytea is not among the types told apart.
PostgresFetchWithoutBytea(column, c) ==
    IF column \in {"integer", "bigint"} THEN IntOrLong(c) ELSE Value("Text", c)

PostgresFetch(column, c) ==
    CASE column = "boolean" -> Value("Boolean", c)
      [] column \in {"integer", "bigint"} -> IntOrLong(c)
      [] column = "double precision" -> Value("Double", c)
      [] column = "bytea" -> Value("Blob", c)
      [] OTHER -> Value("Text", c)

MariaDBQuery(column, c) ==
    CASE column = "TINYINT(1)" -> Value("Boolean", c)
      [] column \in {"MEDIUMINT", "INT", "INT UNSIGNED"} -> IntOrLong(c)
      [] column \in {"BIGINT", "BIGINT UNSIGNED"} -> Long(Stoll(c))
      [] column \in {"DECIMAL", "DOUBLE"} -> Value("Double", c)
      [] column = "BLOB" -> Value("Blob", c)
      [] OTHER -> Value("Text", c)

\* Slip: INT UNSIGNED read as a signed int.
MariaDBExecuteSigned(column, c) ==
    CASE column = "TINYINT(1)" -> Value("Boolean", c)
      [] column \in {"INT", "INT UNSIGNED"} -> Value("Integer", AsSigned(c, NarrowBits))
      [] column = "BIGINT" -> Long(c)
      [] OTHER -> MariaDBQuery(column, c)

\* The integers are bound as signed; the bits of an unsigned one arrive all the
\* same.
MariaDBExecute(column, c) ==
    CASE column = "TINYINT(1)" -> Value("Boolean", c)
      [] column = "INT" -> Value("Integer", c)
      [] column = "INT UNSIGNED" -> Value("UnsignedInteger", c)
      [] column = "BIGINT" -> Long(c)
      [] column = "BIGINT UNSIGNED" -> UnsignedLong(c)
      [] column = "DOUBLE" -> Value("Double", c)
      [] column = "BLOB" -> Value("Blob", c)
      [] OTHER -> Value("Text", c)

\* What Query or ExecuteSTMT returns of a cell.
Fetched(k, path) ==
    IF k.content = None THEN Value("Null", None)
    ELSE CASE k.backend = "SQLite" -> SQLiteFetch(k.column, k.content)
           [] k.backend = "Postgres" -> PostgresFetch(k.column, k.content)
           [] k.backend = "MariaDB" /\ path = "Query" -> MariaDBQuery(k.column, k.content)
           [] k.backend = "MariaDB" /\ path = "ExecuteSTMT" -> MariaDBExecute(k.column, k.content)

Paths == {"Query", "ExecuteSTMT"}

\* The bindings that lose something, for lack of a test: an unsigned integer
\* that no signed one of its width is, decimals beyond the sixth, a text with a
\* NUL, an empty blob.
BindRisk(b, v) ==
    \/ b # "Postgres" /\ v.type = "UnsignedInteger" /\ v.content \notin SignedNumbers(NarrowBits)
    \/ b # "Postgres" /\ v.type = "UnsignedLongInteger" /\ v.content \notin SignedNumbers(WideBits)
    \/ b = "Postgres" /\ v.type = "Double" /\ v.content % 3 # 0
    \/ b # "MariaDB" /\ v.content = WithNul
    \/ v.content = NoBytes

\* The fetches that do: a number beyond long int or, in MariaDB's Query, beyond
\* long long; a text with a NUL.
FetchRisk(k, path) ==
    \/ /\ k.column \in {"INTEGER", "bigint", "BIGINT", "INT UNSIGNED"}
       /\ k.content # None
       /\ k.content \notin SignedNumbers(longBits)
    \/ /\ k.column = "BIGINT UNSIGNED"
       /\ k.content # None
       /\ k.content \notin (IF path = "Query" THEN SignedNumbers(longBits) ELSE UnsignedNumbers(longBits))
    \/ k.backend = "SQLite" /\ k.content = WithNul

-----------------------------------------------------------------------------

\* ExecuteSTMT of an INSERT or UPDATE the engine accepts.
Bind(b, column) ==
    /\ Suits(hand.type, column)
    /\ \E c \in Binder(b, hand) :
          /\ Accepts(column, c)
          /\ cell' = [backend |-> b, column |-> column, content |-> c]
    /\ risky' = (risky \/ BindRisk(b, hand))
    /\ UNCHANGED <<longBits, hand, source>>

\* Query or ExecuteSTMT of a SELECT.
Fetch(path) ==
    /\ cell # NoCell
    /\ hand' = Fetched(cell, path)
    /\ risky' = (risky \/ FetchRisk(cell, path))
    /\ UNCHANGED <<longBits, cell, source>>

TripNext ==
    \/ \E b \in Backends : \E column \in ColumnsOf(b) : Bind(b, column)
    \/ \E path \in Paths : Fetch(path)

TripSpec == TripInit /\ [][TripNext]_tripVars

-----------------------------------------------------------------------------
(* Properties.                                                             *)

\* Types: a Value holds what its type can hold, or a number as text.
TypeOK ==
    /\ longBits \in LongWidths
    /\ \/ hand = NoValue
       \/ hand.type \in ValueTypes /\ hand.content \in Contents(hand.type)
       \/ hand.type = "Text" /\ hand.content \notin Blobs \cup {None}
    /\ cell # NoCell => cell.column \in ColumnsOf(cell.backend) /\ Accepts(cell.column, cell.content)
    /\ risky \in BOOLEAN

\* However often a value is bound and fetched, through whichever backends,
\* columns and calls, it is what it was, but for the losses BindRisk and
\* FetchRisk name.
KeptWhereSafe == hand # NoValue /\ ~risky => hand.content = source

\* Where the two ways to read an unsigned column lose something else.
ReadApart(k) ==
    /\ k.column \in {"INT UNSIGNED", "BIGINT UNSIGNED"}
    /\ \E path \in Paths : FetchRisk(k, path)

\* Query and ExecuteSTMT return the same of the same cell ("a single API for
\* connections, queries, prepared statements", README.md:11), the same content
\* and numbers for numbers, of every column type that both know.
PathsAgree ==
    LET query == Fetched(cell, "Query")
        execute == Fetched(cell, "ExecuteSTMT")
    IN /\ cell # NoCell
       /\ cell.column \notin {"MEDIUMINT", "DECIMAL"}
       /\ ~ReadApart(cell)
       => /\ query.content = execute.content
          /\ query.type \in NumericTypes <=> execute.type \in NumericTypes

=============================================================================
