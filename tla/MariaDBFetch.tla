------------------------------ MODULE MariaDBFetch ------------------------------
(***************************************************************************)
(* The fetch loop of MariaDB::PreparedSTMT::DoExecute                      *)
(* (mariadb/prepared_stmt.cxx:234-409).  A column fetched as a string has  *)
(* a buffer out_str[i] sized from the length the server declared; the      *)
(* client library keeps the copy of bind_out it was given before the first *)
(* fetch, and writes every row through it.  When a value does not fit, the *)
(* loop gives the column a longer buffer and fetches the column again.     *)
(*                                                                         *)
(* A numeric column is fetched into out_int[i] and its like, which never   *)
(* move; but its bind_out has no buffer_length, so the loop takes it for   *)
(* one that does not fit and fetches it again, into out_str[i].            *)
(***************************************************************************)
EXTENDS Naturals, Sequences

CONSTANTS
    Columns,        \* columns of the result
    Numeric,        \* those of a numeric type
    Lengths,        \* lengths of the values
    MaxRows,        \* rows of the result, at most
    Guess,          \* length assumed where the server declares none (1024)
    Undeclared,     \* columns that may have no declared length
    NoValue         \* SQL NULL

ASSUME FetchAssumption ==
    /\ Lengths \subseteq Nat
    /\ MaxRows \in Nat
    /\ Guess \in Nat
    /\ Numeric \subseteq Columns
    /\ Undeclared \subseteq Columns \ Numeric
    /\ NoValue \notin Nat

VARIABLES
    declared,   \* MYSQL_FIELD::length, 0 for none; never changes
    pc,         \* "bound", "fetched", "row", "done" or "failed"
    cells,      \* history: the rows the server sent, as lengths or NoValue
    buffer,     \* out_str: which block of memory, its size, and whose bytes
    bind,       \* bind_out[i].buffer_length
    written,    \* where the library writes, and how much: its copy of bind_out
    number,     \* the row whose number out_int[i] and its like hold, 0 for none
    rows        \* the rows returned so far

vars == <<declared, pc, cells, buffer, bind, written, number, rows>>

Width == 1  \* of a number

Cell == Lengths \cup {NoValue, Width}

\* A row the server may send: no value is longer than its column declares.
ServerRow ==
    {row \in [Columns -> Cell] :
        \A c \in Columns : row[c] # NoValue =>
            IF c \in Numeric THEN row[c] = Width
            ELSE row[c] \in Lengths /\ (declared[c] # 0 => row[c] <= declared[c])}

\* block counts the reallocations.  from is the row whose first "bytes" bytes
\* the buffer begins with, 0 for none.
Buffer == [block: Nat, size: Nat, from: 0..MaxRows, bytes: Nat]

\* What a column of a returned row holds: NoValue, or whether it is the value
\* of that row.
Faithful == [own: BOOLEAN]

BlobLength(c) == IF declared[c] = 0 THEN Guess ELSE declared[c]

\* buffer_length as bound before the first fetch.
BoundLength(c) == IF c \in Numeric THEN 0 ELSE BlobLength(c) + 1

Init ==
    /\ declared \in {d \in [Columns -> Lengths \cup {Width}] :
          \A c \in Columns : IF c \in Numeric THEN d[c] = Width
                             ELSE d[c] \in Lengths /\ (d[c] = 0 => c \in Undeclared)}
    /\ pc = "bound"
    /\ cells = <<>>
    /\ buffer = [c \in Columns |-> [block |-> 0, size |-> BoundLength(c),
                                    from |-> 0, bytes |-> 0]]
    /\ bind = [c \in Columns |-> buffer[c].size]
    /\ written = [c \in Columns |-> [block |-> 0, room |-> buffer[c].size]]
    /\ number = [c \in Numeric |-> 0]
    /\ rows = <<>>

Row == Len(cells)

Shorter(a, b) == IF a < b THEN a ELSE b

\* The column after the library wrote cell.  Through a pointer to an earlier
\* block, which was freed, nothing arrives; this is the mildest outcome.
Filled(c, cell, row) ==
    IF c \in Numeric \/ cell = NoValue \/ written[c].block # buffer[c].block
    THEN buffer[c]
    ELSE [buffer[c] EXCEPT !.from = row, !.bytes = Shorter(cell, written[c].room)]

\* mysql_stmt_fetch: another row, the end, or an error.
Fetch ==
    /\ pc = "bound"
    /\ \/ /\ Row < MaxRows
          /\ \E row \in ServerRow :
                /\ cells' = Append(cells, row)
                /\ buffer' = [c \in Columns |-> Filled(c, row[c], Row + 1)]
                /\ number' = [c \in Numeric |-> IF row[c] = NoValue \/ written[c].block # 0
                                                THEN number[c] ELSE Row + 1]
          /\ pc' = "fetched"
       \/ pc' \in {"done", "failed"} /\ UNCHANGED <<cells, buffer, number>>
    /\ UNCHANGED <<declared, bind, written, rows>>

Current == cells[Row]

\* MYSQL_DATA_TRUNCATED: some value did not fit where the library writes.
Truncated ==
    \E c \in Columns \ Numeric : Current[c] # NoValue /\ Current[c] > written[c].room

\* What mysql_stmt_fetch may return: MYSQL_DATA_TRUNCATED also for an unsigned
\* number beyond the signed type it is fetched as.
Reports == {Truncated} \cup {TRUE : c \in {n \in Numeric : Current[n] # NoValue}}

\* out_len[c] > bind_out[c].buffer_length.
TooLong(c) == Current[c] # NoValue /\ Current[c] > bind[c]

\* Slip: truncation is not looked at.
RefetchNothing ==
    /\ pc = "fetched"
    /\ pc' = "row"
    /\ UNCHANGED <<declared, cells, buffer, bind, written, number, rows>>

\* Slip: a truncated row is passed over.
RefetchOrSkip ==
    /\ pc = "fetched"
    /\ pc' = IF Truncated THEN "bound" ELSE "row"
    /\ UNCHANGED <<declared, cells, buffer, bind, written, number, rows>>

\* Slip: a longer buffer, but the column is not fetched again.
RefetchGrowOnly ==
    /\ pc = "fetched"
    /\ buffer' = [c \in Columns |->
           IF Truncated /\ TooLong(c)
           THEN [block |-> buffer[c].block + 1, size |-> Current[c] + 1,
                 from |-> 0, bytes |-> 0]
           ELSE buffer[c]]
    /\ bind' = [c \in Columns |-> buffer'[c].size]
    /\ pc' = "row"
    /\ UNCHANGED <<declared, cells, written, number, rows>>

\* Slip: bind_out is bound again after the buffers grew, numbers to out_str.
RefetchRebinds ==
    /\ pc = "fetched"
    /\ buffer' = [c \in Columns |->
           IF Truncated /\ TooLong(c)
           THEN [block |-> buffer[c].block + 1, size |-> Current[c] + 1,
                 from |-> Row, bytes |-> Current[c]]
           ELSE buffer[c]]
    /\ bind' = [c \in Columns |-> buffer'[c].size]
    /\ written' = [c \in Columns |-> [block |-> buffer'[c].block, room |-> bind'[c]]]
    /\ pc' = "row"
    /\ UNCHANGED <<declared, cells, number, rows>>

\* A longer buffer, at another address, and the column fetched again into it;
\* bind_out is not bound again.
Refetch ==
    /\ pc = "fetched"
    /\ \E truncated \in Reports :
       LET long == {c \in Columns : truncated /\ TooLong(c)}
       IN \/ /\ buffer' = [c \in Columns |->
                    IF c \in long
                    THEN [block |-> buffer[c].block + 1, size |-> Current[c] + 1,
                          from |-> Row, bytes |-> Current[c]]
                    ELSE buffer[c]]
             /\ bind' = [c \in Columns |-> buffer'[c].size]
             /\ pc' = "row"
          \/ long # {} /\ pc' = "failed" /\ UNCHANGED <<buffer, bind>>
    /\ UNCHANGED <<declared, cells, written, number, rows>>

\* The value read: the number, or out_len bytes from the buffer.
Read(c) ==
    IF Current[c] = NoValue THEN NoValue
    ELSE [own |-> IF c \in Numeric THEN number[c] = Row
                  ELSE Current[c] = 0
                          \/ (buffer[c].from = Row /\ buffer[c].bytes >= Current[c])]

\* Slip: what is added is the row that was moved from.
AddMovedRow ==
    /\ pc = "row"
    /\ rows' = Append(rows, <<>>)
    /\ pc' = "bound"
    /\ UNCHANGED <<declared, cells, buffer, bind, written, number>>

\* Row::add of every column, Rows::add.
AddRow ==
    /\ pc = "row"
    /\ rows' = Append(rows, [c \in Columns |-> Read(c)])
    /\ pc' = "bound"
    /\ UNCHANGED <<declared, cells, buffer, bind, written, number>>

Next == Fetch \/ Refetch \/ AddRow

Spec == Init /\ [][Next]_vars

-----------------------------------------------------------------------------
(* Properties.                                                             *)

\* Types of the buffers and rows.
TypeOK ==
    /\ declared \in [Columns -> Lengths \cup {Width}]
    /\ pc \in {"bound", "fetched", "row", "done", "failed"}
    /\ cells \in Seq([Columns -> Cell])
    /\ buffer \in [Columns -> Buffer]
    /\ bind \in [Columns -> Nat]
    /\ written \in [Columns -> [block: Nat, room: Nat]]
    /\ number \in [Numeric -> 0..Row]
    /\ rows \in Seq([Columns -> Faithful \cup {NoValue}])

\* What the loop reads lies inside the buffer, whatever the server declared,
\* however the lengths of successive rows go up and down.
ReadsStayInside ==
    pc = "row" => \A c \in Columns \ Numeric : Current[c] # NoValue => Current[c] <= buffer[c].size

\* Columns of a row are returned as the server sent them: NULL where it was
\* NULL, their own value elsewhere.
AsSent(r, columns) ==
    \A c \in columns :
        IF cells[r][c] = NoValue THEN rows[r][c] = NoValue ELSE rows[r][c] = [own |-> TRUE]

\* A value longer than the buffer guessed for a column without a declared
\* length.
Overlong(r) ==
    \E c \in Undeclared :
        /\ declared[c] = 0
        /\ cells[r][c] # NoValue
        /\ cells[r][c] > written[c].room

\* Every row is as sent ("Executes the statement and fetches result rows.",
\* mariadb/prepared_stmt.hxx:107) up to and including the first in which the
\* guess was too short: where the server declares every length, every row is.
\* Numbers always are, although the loop may fetch them a second time.
RowsAsSentUpToTruncation ==
    \A r \in DOMAIN rows :
        /\ AsSent(r, Numeric)
        /\ (\A s \in 1..(r - 1) : ~Overlong(s)) => AsSent(r, Columns)

\* Rows come out in the order and number in which they were sent.
NoneSkipped == pc \in {"bound", "done"} => Len(rows) = Len(cells)

=============================================================================
