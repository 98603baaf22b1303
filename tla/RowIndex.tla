-------------------------------- MODULE RowIndex --------------------------------
(***************************************************************************)
(* Row objects and the index from column names to positions that a lookup  *)
(* by name builds when there is none (row.cxx, row.hxx).  The lookup of a   *)
(* const Row writes the index, so threads that only read one Row take its  *)
(* steps in any interleaving; whatever changes or moves a Row has it to    *)
(* itself.  The values are left out: a column is its name.                 *)
(***************************************************************************)
EXTENDS Naturals, Sequences

CONSTANTS
    Rows,       \* Row objects
    Threads,    \* threads that look up by name
    Names,      \* column names, of columns or asked for
    MaxColumns, \* columns of a row, at most
    NoIndex,    \* std::nullopt
    NoRow       \* the row of a thread that looks nothing up

\* A name index: positions of some names.
Index == UNION {[K -> 1..MaxColumns] : K \in SUBSET Names}

ASSUME RowAssumption ==
    /\ MaxColumns \in Nat
    /\ NoRow \notin Rows
    /\ NoIndex \notin Index

VARIABLES
    rows,       \* each Row: the names of its columns and its index
    lookup,     \* what each thread is looking up, and how far it is
    answer,     \* history: what the last lookup returned, 0 for ColumnNotFound
    raced       \* history: an index was written while another thread used it

vars == <<rows, lookup, answer, raced>>

\* m_data, m_name_index, and, as history, whether a column got another name
\* after the index was built.
Row == [columns: Seq(Names), index: Index \cup {NoIndex}, renamed: BOOLEAN]

Idle == [row |-> NoRow, name |-> NoRow, at |-> "idle"]

Init ==
    /\ rows = [r \in Rows |-> [columns |-> <<>>, index |-> NoIndex, renamed |-> FALSE]]
    /\ lookup = [t \in Threads |-> Idle]
    /\ answer = 0
    /\ raced = FALSE

Readers(r) == {t \in Threads : lookup[t].row = r}

Positions(columns, n) == {i \in DOMAIN columns : columns[i] = n}

\* Slip: the index is assigned to, not emplaced into: the last of two columns
\* of one name wins.
BuiltFromLast(columns) ==
    [n \in {columns[i] : i \in DOMAIN columns} |->
        CHOOSE i \in Positions(columns, n) : \A j \in Positions(columns, n) : j <= i]

\* BuildNameIndex: of columns of one name, the first is kept.
Built(columns) ==
    [n \in {columns[i] : i \in DOMAIN columns} |->
        CHOOSE i \in Positions(columns, n) : \A j \in Positions(columns, n) : i <= j]

-----------------------------------------------------------------------------
(* What changes a Row.                                                     *)

\* Slip: an index that exists is kept.
AddKeepsIndex(r, n) ==
    /\ Readers(r) = {}
    /\ Len(rows[r].columns) < MaxColumns
    /\ rows' = [rows EXCEPT ![r].columns = Append(@, n)]
    /\ UNCHANGED <<lookup, answer, raced>>

\* add.
Add(r, n) ==
    /\ Readers(r) = {}
    /\ Len(rows[r].columns) < MaxColumns
    /\ rows' = [rows EXCEPT ![r] = [columns |-> Append(@.columns, n), index |-> NoIndex,
                                    renamed |-> FALSE]]
    /\ UNCHANGED <<lookup, answer, raced>>

\* row[i] = NamedValue(n, v), through the operator[] of Iterable: the index, if
\* there is one, stays.
Replace(r, i, n) ==
    /\ Readers(r) = {}
    /\ i \in DOMAIN rows[r].columns
    /\ rows' = [rows EXCEPT ![r].columns[i] = n,
                            ![r].renamed = @ \/ (rows[r].index # NoIndex
                                                 /\ rows[r].columns[i] # n)]
    /\ UNCHANGED <<lookup, answer, raced>>

\* Copies of r to s, constructed or assigned.  Copying reads the index, which a
\* lookup may be about to write.
Copy(r, s) ==
    /\ r # s
    /\ Readers(s) = {}
    /\ rows' = [rows EXCEPT ![s] = rows[r]]
    /\ raced' = (raced \/ \E t \in Readers(r) : lookup[t].at = "build")
    /\ UNCHANGED <<lookup, answer>>

\* Slip: the move takes the columns only.
LeavesIndex(row) == [row EXCEPT !.columns = <<>>]

\* A moved-from Row: no columns, and an index, if there was one, with no names.
MovedFrom(row) ==
    [columns |-> <<>>, renamed |-> FALSE,
     index |-> IF row.index = NoIndex THEN NoIndex ELSE Built(<<>>)]

\* The defaulted move operations.
Move(r, s) ==
    /\ r # s
    /\ Readers(r) \cup Readers(s) = {}
    /\ rows' = [rows EXCEPT ![s] = rows[r], ![r] = MovedFrom(@)]
    /\ UNCHANGED <<lookup, answer, raced>>

-----------------------------------------------------------------------------
(* operator[](name) of a const Row, on which the others are built.  That of *)
(* an rvalue takes the same steps and moves the value out.                  *)

\* Slip: nobody looks whether there is an index.
StartLookupUnbuilt(t, r, n) ==
    /\ lookup[t] = Idle
    /\ lookup' = [lookup EXCEPT ![t] = [row |-> r, name |-> n, at |-> "find"]]
    /\ UNCHANGED <<rows, answer, raced>>

\* BuildNameIndex looks for an index.
StartLookup(t, r, n) ==
    /\ lookup[t] = Idle
    /\ lookup' = [lookup EXCEPT ![t] =
          [row |-> r, name |-> n, at |-> IF rows[r].index = NoIndex THEN "build" ELSE "find"]]
    /\ UNCHANGED <<rows, answer, raced>>

\* It builds one beside the Row and moves it into place, under the hands of
\* whoever is using the Row.
Build(t) ==
    LET r == lookup[t].row
    IN /\ lookup[t].at = "build"
       /\ rows' = [rows EXCEPT ![r].index = Built(rows[r].columns)]
       /\ raced' = (raced \/ Readers(r) # {t})
       /\ lookup' = [lookup EXCEPT ![t].at = "find"]
       /\ UNCHANGED answer

Found(index, n) == IF n \in DOMAIN index THEN index[n] ELSE 0

\* find, and the value at the position found or ColumnNotFound.  Once threads
\* raced, anything.
Find(t) ==
    /\ lookup[t].at = "find"
    /\ \/ answer' = Found(rows[lookup[t].row].index, lookup[t].name)
       \/ raced /\ answer' \in 0..MaxColumns
    /\ lookup' = [lookup EXCEPT ![t] = Idle]
    /\ UNCHANGED <<rows, raced>>

-----------------------------------------------------------------------------

Next ==
    \/ \E r \in Rows, n \in Names :
          \/ Add(r, n)
          \/ \E i \in 1..MaxColumns : Replace(r, i, n)
          \/ \E t \in Threads : StartLookup(t, r, n)
    \/ \E r, s \in Rows : Copy(r, s) \/ Move(r, s)
    \/ \E t \in Threads : Build(t) \/ Find(t)

Spec == Init /\ [][Next]_vars

-----------------------------------------------------------------------------
(* Properties.                                                             *)

\* Types of the rows and lookups: a thread that uses an index has one.
TypeOK ==
    /\ rows \in [Rows -> Row]
    /\ lookup \in [Threads -> {Idle} \cup
                      [row: Rows, name: Names, at: {"build", "find"}]]
    /\ \A t \in Threads : lookup[t].at = "find" => rows[lookup[t].row].index # NoIndex
    /\ answer \in 0..MaxColumns
    /\ raced \in BOOLEAN

\* The position of the first column named n, 0 for none: what a search through
\* the columns would find.
FirstNamed(columns, n, a) ==
    IF a = 0
    THEN \A i \in DOMAIN columns : columns[i] # n
    ELSE /\ a \in DOMAIN columns
         /\ columns[a] = n
         /\ \A i \in 1..(a - 1) : columns[i] # n

\* A lookup by name finds the first column of that name, or throws
\* ColumnNotFound because there is none, whatever was added, replaced, copied
\* and moved before; unless threads raced, or a column of the row got another
\* name after its index was built.
LookupFindsFirst ==
    [][\A t \in Threads :
          lookup[t].at = "find" /\ lookup'[t] = Idle /\ ~raced =>
              LET row == rows[lookup[t].row]
              IN row.renamed \/ FirstNamed(row.columns, lookup[t].name, answer')]_vars

\* An index never leads outside its row, not even that of a row moved from or
\* with columns renamed.
IndexInsideRow ==
    \A r \in Rows : rows[r].index # NoIndex =>
        \A n \in DOMAIN rows[r].index : rows[r].index[n] \in DOMAIN rows[r].columns

=============================================================================
