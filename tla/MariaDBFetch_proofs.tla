--------------------------- MODULE MariaDBFetch_proofs ---------------------------
(***************************************************************************)
(* Proofs about MariaDBFetch, for any columns, lengths and number of rows. *)
(***************************************************************************)
EXTENDS MariaDBFetch, TLAPS

\* What keeps the loop inside its buffers: the loop's own bind_out tells the
\* size of the buffer, and the library's copy, taken before the buffer grew,
\* never more than that.
Rooms ==
    /\ buffer \in [Columns -> [block: Nat, size: Nat, from: Nat, bytes: Nat]]
    /\ bind \in [Columns -> Nat]
    /\ written \in [Columns -> [block: Nat, room: Nat]]
    /\ \A c \in Columns : bind[c] = buffer[c].size /\ written[c].room <= buffer[c].size

Shape ==
    /\ declared \in [Columns -> Nat]
    /\ pc \in {"bound", "fetched", "row", "done", "failed"}
    /\ cells \in Seq([Columns -> Cell])
    /\ pc \in {"fetched", "row"} => cells # <<>>

IInv == Shape /\ Rooms /\ ReadsStayInside

LEMMA CellType == Cell \subseteq Nat \cup {NoValue}
<1> SUFFICES ASSUME NEW x \in Cell PROVE x \in Nat \cup {NoValue}
    OBVIOUS
<1>1. Lengths \subseteq Nat
    BY FetchAssumption
<1> QED
    BY <1>1 DEF Cell, Width

LEMMA CurrentType ==
    ASSUME Shape, cells # <<>>
    PROVE  Current \in [Columns -> Cell]
BY DEF Shape, Current, Row

LEMMA InitInside == Init => IInv
<1> SUFFICES ASSUME Init PROVE IInv
    OBVIOUS
<1>1. declared \in [Columns -> Nat]
    <2>1. Lengths \subseteq Nat
        BY FetchAssumption
    <2>2. declared \in [Columns -> Lengths \cup {Width}]
        BY DEF Init
    <2>3. Width \in Nat
        BY DEF Width
    <2> QED
        BY <2>1, <2>2, <2>3
<1>2. \A c \in Columns : BoundLength(c) \in Nat
    BY <1>1, FetchAssumption DEF BoundLength, BlobLength
<1>3. Shape
    BY <1>1 DEF Init, Shape
<1>4. Rooms
    BY <1>2 DEF Init, Rooms
<1> QED
    BY <1>3, <1>4 DEF IInv, ReadsStayInside, Init

\* Writing a row into a buffer leaves its size.
LEMMA FilledSize ==
    ASSUME Rooms, NEW c \in Columns, NEW cell \in Cell, NEW row \in Nat
    PROVE  /\ Filled(c, cell, row) \in [block: Nat, size: Nat, from: Nat, bytes: Nat]
           /\ Filled(c, cell, row).size = buffer[c].size
<1>1. buffer[c] \in [block: Nat, size: Nat, from: Nat, bytes: Nat]
    BY DEF Rooms
<1>2. CASE c \in Numeric \/ cell = NoValue \/ written[c].block # buffer[c].block
    BY <1>1, <1>2 DEF Filled
<1>3. CASE ~(c \in Numeric \/ cell = NoValue \/ written[c].block # buffer[c].block)
    <2>1. cell \in Nat /\ written[c].room \in Nat
        BY <1>3, CellType DEF Rooms
    <2>2. Shorter(cell, written[c].room) \in Nat
        BY <2>1 DEF Shorter
    <2> QED
        BY <1>1, <1>3, <2>2 DEF Filled
<1> QED
    BY <1>2, <1>3

LEMMA FetchInside == IInv /\ Fetch => IInv'
<1> SUFFICES ASSUME IInv, Fetch PROVE IInv'
    OBVIOUS
<1> USE DEF IInv
<1>1. CASE UNCHANGED <<cells, buffer, number>> /\ pc' \in {"done", "failed"}
    BY <1>1 DEF Fetch, Shape, Rooms, ReadsStayInside
<1>2. ASSUME NEW row \in ServerRow,
             cells' = Append(cells, row),
             buffer' = [c \in Columns |-> Filled(c, row[c], Row + 1)],
             pc' = "fetched"
      PROVE  IInv'
    <2>1. row \in [Columns -> Cell]
        BY DEF ServerRow
    <2>2. cells' \in Seq([Columns -> Cell]) /\ cells' # <<>>
        BY <1>2, <2>1 DEF Shape
    <2>3. Row + 1 \in Nat
        BY DEF Row, Shape
    <2>4. Shape'
        BY <1>2, <2>2 DEF Shape, Fetch
    <2>5. \A c \in Columns :
              /\ buffer'[c] \in [block: Nat, size: Nat, from: Nat, bytes: Nat]
              /\ buffer'[c].size = buffer[c].size
        BY <1>2, <2>1, <2>3, FilledSize
    <2>6. Rooms'
        BY <1>2, <2>5 DEF Rooms, Fetch
    <2> QED
        BY <1>2, <2>4, <2>6 DEF ReadsStayInside
<1> QED
    BY <1>1, <1>2 DEF Fetch

\* Where no buffer grows, the value fits: in the library's room when nothing
\* is reported, in the loop's own bind_out otherwise.
LEMMA RefetchInside == IInv /\ Refetch => IInv'
<1> SUFFICES ASSUME IInv, Refetch PROVE IInv'
    OBVIOUS
<1>1. PICK truncated \in Reports :
        LET long == {c \in Columns : truncated /\ TooLong(c)}
        IN \/ /\ buffer' = [c \in Columns |->
                     IF c \in long
                     THEN [block |-> buffer[c].block + 1, size |-> Current[c] + 1,
                           from |-> Row, bytes |-> Current[c]]
                     ELSE buffer[c]]
              /\ bind' = [c \in Columns |-> buffer'[c].size]
              /\ pc' = "row"
           \/ long # {} /\ pc' = "failed" /\ UNCHANGED <<buffer, bind>>
    BY DEF Refetch
<1> DEFINE long == {c \in Columns : truncated /\ TooLong(c)}
<1>2. Current \in [Columns -> Cell] /\ Row \in Nat
    BY CurrentType DEF IInv, Shape, Refetch, Row
<1>3. Current' = Current
    BY DEF Refetch, Current, Row
<1>4. truncated \in BOOLEAN /\ (truncated = FALSE => ~Truncated)
    BY <1>1 DEF Reports, Truncated
<1>5. CASE UNCHANGED <<buffer, bind>> /\ pc' = "failed"
    BY <1>5 DEF Refetch, IInv, Shape, Rooms, ReadsStayInside
<1>6. CASE /\ buffer' = [c \in Columns |->
                  IF c \in long
                  THEN [block |-> buffer[c].block + 1, size |-> Current[c] + 1,
                        from |-> Row, bytes |-> Current[c]]
                  ELSE buffer[c]]
           /\ bind' = [c \in Columns |-> buffer'[c].size]
           /\ pc' = "row"
    <2>1. \A c \in long : /\ Current[c] \in Nat
                          /\ Current[c] > buffer[c].size
        BY <1>2, CellType DEF TooLong, IInv, Rooms
    <2>2. \A c \in Columns :
              /\ buffer'[c] \in [block: Nat, size: Nat, from: Nat, bytes: Nat]
              /\ buffer'[c].size \in Nat
              /\ buffer[c].size <= buffer'[c].size
        <3> TAKE c \in Columns
        <3>1. buffer[c] \in [block: Nat, size: Nat, from: Nat, bytes: Nat]
            BY DEF IInv, Rooms
        <3>2. CASE c \in long
            BY <1>2, <1>6, <2>1, <3>1, <3>2
        <3>3. CASE c \notin long
            BY <1>6, <3>1, <3>3
        <3> QED
            BY <3>2, <3>3
    <2>3. Rooms'
        BY <1>6, <2>2 DEF IInv, Rooms, Refetch
    <2>4. Shape'
        BY <1>6 DEF IInv, Shape, Refetch
    <2>5. ASSUME NEW c \in Columns \ Numeric, Current[c] # NoValue
          PROVE  Current[c] <= buffer'[c].size
        <3>1. Current[c] \in Nat /\ buffer[c].size \in Nat /\ written[c].room \in Nat
            BY <1>2, <2>5, CellType DEF IInv, Rooms
        <3>2. CASE c \in long
            BY <1>6, <3>1, <3>2
        <3>3. CASE c \notin long /\ truncated
            BY <1>6, <2>5, <3>1, <3>3 DEF TooLong, IInv, Rooms
        <3>4. CASE ~truncated
            BY <1>4, <1>6, <2>2, <2>5, <3>1, <3>4 DEF Truncated, IInv, Rooms
        <3> QED
            BY <1>4, <3>2, <3>3, <3>4
    <2> QED
        BY <1>3, <2>3, <2>4, <2>5 DEF IInv, ReadsStayInside
<1> QED
    BY <1>1, <1>5, <1>6

LEMMA AddRowInside == IInv /\ AddRow => IInv'
BY DEF AddRow, IInv, Shape, Rooms, ReadsStayInside

LEMMA Inside == Spec => []IInv
<1>1. IInv /\ UNCHANGED vars => IInv'
    BY DEF vars, IInv, Shape, Rooms, ReadsStayInside, Current, Row
<1>2. IInv /\ [Next]_vars => IInv'
    BY <1>1, FetchInside, RefetchInside, AddRowInside DEF Next
<1> QED
    BY <1>2, InitInside, PTL DEF Spec

\* However the lengths of successive rows go up and down, whatever the server
\* declared and whichever numbers make the library report a truncation, the
\* fetch loop reads no column beyond its buffer
\* (mariadb/prepared_stmt.cxx:325-345).
THEOREM FetchReadsStayInside == Spec => []ReadsStayInside
BY Inside, PTL DEF IInv

-----------------------------------------------------------------------------
(***************************************************************************)
(* Types, and no row is skipped.                                           *)
(***************************************************************************)

\* How far the rows returned are behind the rows sent.
Counted ==
    /\ Row <= MaxRows
    /\ Len(rows) <= Row
    /\ pc \in {"bound", "done"} => Len(rows) = Row
    /\ pc \in {"fetched", "row"} => Len(rows) + 1 = Row

LEMMA InitTyped == Init => TypeOK /\ Counted
<1> SUFFICES ASSUME Init PROVE TypeOK /\ Counted
    OBVIOUS
<1>1. declared \in [Columns -> Lengths \cup {Width}] /\ declared \in [Columns -> Nat]
    BY InitInside DEF Init, IInv, Shape
<1>2. \A c \in Columns : BoundLength(c) \in Nat
    BY <1>1, FetchAssumption DEF BoundLength, BlobLength
<1>3. Len(<<>>) = 0 /\ 0 \in 0..MaxRows /\ 0 <= MaxRows /\ Row = 0
    BY FetchAssumption DEF Init, Row
<1>4. /\ buffer \in [Columns -> Buffer] /\ bind \in [Columns -> Nat]
      /\ written \in [Columns -> [block: Nat, room: Nat]]
    BY <1>2, <1>3 DEF Init, Buffer
<1>5. number \in [Numeric -> 0..Row]
    BY <1>3 DEF Init
<1>6. cells \in Seq([Columns -> Cell]) /\ rows \in Seq([Columns -> Faithful \cup {NoValue}])
    BY DEF Init
<1>7. Counted
    BY <1>3 DEF Init, Counted
<1> QED
    BY <1>1, <1>4, <1>5, <1>6, <1>7 DEF Init, TypeOK

\* Another row makes the sequence of them one longer and leaves the others.
LEMMA FetchGrows ==
    ASSUME TypeOK, NEW row \in ServerRow, cells' = Append(cells, row)
    PROVE  /\ cells' \in Seq([Columns -> Cell])
           /\ Row \in Nat /\ Row' = Row + 1 /\ Current' = row
           /\ \A r \in 1..Row : cells'[r] = cells[r]
<1>1. row \in [Columns -> Cell] /\ cells \in Seq([Columns -> Cell])
    BY DEF ServerRow, TypeOK
<1>2. /\ cells' \in Seq([Columns -> Cell])
      /\ Len(cells) \in Nat /\ Len(cells') = Len(cells) + 1
      /\ cells'[Len(cells) + 1] = row
      /\ \A r \in 1..Len(cells) : cells'[r] = cells[r]
    BY <1>1
<1> QED
    BY <1>2 DEF Row, Current

LEMMA FetchTyped == TypeOK /\ Counted /\ Fetch => TypeOK' /\ Counted'
<1> SUFFICES ASSUME TypeOK, Counted, Fetch PROVE TypeOK' /\ Counted'
    OBVIOUS
<1>1. Row \in Nat /\ Len(rows) \in Nat /\ MaxRows \in Nat
    BY FetchAssumption DEF TypeOK, Row
<1>2. CASE UNCHANGED <<cells, buffer, number>> /\ pc' \in {"done", "failed"}
    BY <1>2 DEF Fetch, TypeOK, Counted, Row
<1>3. ASSUME NEW row \in ServerRow, Row < MaxRows,
             cells' = Append(cells, row),
             buffer' = [c \in Columns |-> Filled(c, row[c], Row + 1)],
             number' = [c \in Numeric |-> IF row[c] = NoValue \/ written[c].block # 0
                                          THEN number[c] ELSE Row + 1],
             pc' = "fetched"
      PROVE  TypeOK' /\ Counted'
    <2>1. cells' \in Seq([Columns -> Cell]) /\ Row' = Row + 1
        BY <1>3, FetchGrows
    <2>2. row \in [Columns -> Cell]
        BY DEF ServerRow
    <2>3. \A c \in Columns : Filled(c, row[c], Row + 1) \in Buffer
        <3> SUFFICES ASSUME NEW c \in Columns PROVE Filled(c, row[c], Row + 1) \in Buffer
            OBVIOUS
        <3>1. buffer[c] \in Buffer /\ written[c].room \in Nat
            BY DEF TypeOK
        <3>2. Row + 1 \in 0..MaxRows
            BY <1>1, <1>3
        <3>3. row[c] # NoValue => row[c] \in Nat
            BY <2>2, CellType
        <3>4. row[c] # NoValue => Shorter(row[c], written[c].room) \in Nat
            BY <3>1, <3>3 DEF Shorter
        <3> QED
            BY <3>1, <3>2, <3>4 DEF Filled, Buffer
    <2>4. number' \in [Numeric -> 0..Row']
        BY <1>1, <1>3, <2>1 DEF TypeOK
    <2>5. buffer' \in [Columns -> Buffer]
        BY <1>3, <2>3
    <2>6. TypeOK'
        BY <1>3, <2>1, <2>4, <2>5 DEF Fetch, TypeOK
    <2>7. Counted'
        BY <1>1, <1>3, <2>1 DEF Fetch, Counted
    <2> QED
        BY <2>6, <2>7
<1> QED
    BY <1>2, <1>3 DEF Fetch

LEMMA RefetchTyped == TypeOK /\ Counted /\ Refetch => TypeOK' /\ Counted'
<1> SUFFICES ASSUME TypeOK, Counted, Refetch PROVE TypeOK' /\ Counted'
    OBVIOUS
<1>1. /\ Row \in Nat /\ Len(rows) \in Nat /\ MaxRows \in Nat /\ Row' = Row
      /\ Row \in 0..MaxRows /\ Row # 0
    BY FetchAssumption DEF TypeOK, Row, Refetch, Counted
<1>2. Current \in [Columns -> Cell]
    BY <1>1 DEF TypeOK, Row, Current
<1>3. PICK truncated \in Reports :
        LET long == {c \in Columns : truncated /\ TooLong(c)}
        IN \/ /\ buffer' = [c \in Columns |->
                     IF c \in long
                     THEN [block |-> buffer[c].block + 1, size |-> Current[c] + 1,
                           from |-> Row, bytes |-> Current[c]]
                     ELSE buffer[c]]
              /\ bind' = [c \in Columns |-> buffer'[c].size]
              /\ pc' = "row"
           \/ long # {} /\ pc' = "failed" /\ UNCHANGED <<buffer, bind>>
    BY DEF Refetch
<1> DEFINE long == {c \in Columns : truncated /\ TooLong(c)}
<1>4. CASE UNCHANGED <<buffer, bind>> /\ pc' = "failed"
    BY <1>1, <1>4 DEF Refetch, TypeOK, Counted
<1>5. CASE /\ buffer' = [c \in Columns |->
                  IF c \in long
                  THEN [block |-> buffer[c].block + 1, size |-> Current[c] + 1,
                        from |-> Row, bytes |-> Current[c]]
                  ELSE buffer[c]]
           /\ bind' = [c \in Columns |-> buffer'[c].size]
           /\ pc' = "row"
    <2>1. \A c \in long : Current[c] \in Nat
        BY <1>2, CellType DEF TooLong
    <2>2. \A c \in Columns : buffer'[c] \in Buffer
        <3> TAKE c \in Columns
        <3>1. buffer[c] \in Buffer
            BY DEF TypeOK
        <3>2. CASE c \in long
            BY <1>1, <1>5, <2>1, <3>1, <3>2 DEF Buffer
        <3>3. CASE c \notin long
            BY <1>5, <3>1, <3>3
        <3> QED
            BY <3>2, <3>3
    <2>3. buffer' \in [Columns -> Buffer] /\ bind' \in [Columns -> Nat]
        BY <1>5, <2>2 DEF Buffer
    <2>4. TypeOK'
        BY <1>1, <1>5, <2>3 DEF Refetch, TypeOK
    <2> QED
        BY <1>1, <1>5, <2>4 DEF Refetch, Counted
<1> QED
    BY <1>3, <1>4, <1>5

LEMMA AddRowTyped == TypeOK /\ Counted /\ AddRow => TypeOK' /\ Counted'
<1> SUFFICES ASSUME TypeOK, Counted, AddRow PROVE TypeOK' /\ Counted'
    OBVIOUS
<1>1. \A c \in Columns : Read(c) \in Faithful \cup {NoValue}
    BY DEF Read, Faithful
<1>2. [c \in Columns |-> Read(c)] \in [Columns -> Faithful \cup {NoValue}]
    BY <1>1
<1>3. /\ rows' \in Seq([Columns -> Faithful \cup {NoValue}])
      /\ Len(rows') = Len(rows) + 1 /\ Len(rows) \in Nat
    BY <1>2 DEF AddRow, TypeOK
<1>4. Row' = Row
    BY DEF AddRow, Row
<1> QED
    BY <1>3, <1>4 DEF AddRow, TypeOK, Counted

LEMMA Typed == Spec => [](TypeOK /\ Counted)
<1>1. TypeOK /\ Counted /\ UNCHANGED vars => TypeOK' /\ Counted'
    BY DEF vars, TypeOK, Counted, Row
<1>2. TypeOK /\ Counted /\ [Next]_vars => TypeOK' /\ Counted'
    BY <1>1, FetchTyped, RefetchTyped, AddRowTyped DEF Next
<1> QED
    BY <1>2, InitTyped, PTL DEF Spec

\* The types of the buffers, of the library's copy of them and of the rows.
THEOREM TypeCorrect == Spec => []TypeOK
BY Typed, PTL

\* Rows come out in the order and number in which the server sent them, however
\* often a truncated column is fetched again.
THEOREM NoRowSkipped == Spec => []NoneSkipped
<1>1. Counted => NoneSkipped
    BY DEF Counted, NoneSkipped, Row
<1> QED
    BY <1>1, Typed, PTL

-----------------------------------------------------------------------------
(***************************************************************************)
(* Rows are as sent.                                                       *)
(***************************************************************************)

Strings == Columns \ Numeric

\* The server sends what it declared, the library writes where it was told
\* before the first fetch, and a buffer that never grew is the one it was told.
Bound ==
    /\ \A c \in Strings : declared[c] = 0 => c \in Undeclared
    /\ \A r \in DOMAIN cells : cells[r] \in ServerRow
    /\ \A c \in Columns : written[c] = [block |-> 0, room |-> BoundLength(c)]
    /\ \A c \in Strings : buffer[c].block = 0 => buffer[c].size = BoundLength(c)

\* None of the first n rows had a value longer than the guess.
Smooth(n) == \A s \in 1..n : ~Overlong(s)

\* What is read from column c at this moment is the value of the current row.
Own(c) == Current[c] # NoValue => Read(c) = [own |-> TRUE]

\* What the buffers hold at each step of the loop: as long as no row was
\* overlong they are the ones the library writes to.
Held ==
    /\ pc \in {"fetched", "row"} => \A c \in Numeric : Current[c] # NoValue => number[c] = Row
    /\ pc = "bound" /\ Smooth(Row) => \A c \in Strings : buffer[c].block = 0
    /\ pc = "fetched" /\ Smooth(Row - 1) =>
          \A c \in Strings :
              /\ buffer[c].block = 0
              /\ Current[c] # NoValue =>
                    /\ buffer[c].from = Row
                    /\ buffer[c].bytes = Shorter(Current[c], written[c].room)
    /\ pc = "row" /\ Smooth(Row - 1) => \A c \in Strings : Own(c)
    /\ pc = "row" /\ Smooth(Row) => \A c \in Strings : buffer[c].block = 0

Kept == Bound /\ Held /\ RowsAsSentUpToTruncation

LEMMA InitKept == Init => Kept
<1> SUFFICES ASSUME Init PROVE Kept
    OBVIOUS
<1>1. Bound
    <2>1. \A c \in Strings : declared[c] = 0 => c \in Undeclared
        BY DEF Init, Strings
    <2>2. DOMAIN cells = {}
        BY DEF Init
    <2>3. \A c \in Columns : /\ written[c] = [block |-> 0, room |-> BoundLength(c)]
                             /\ buffer[c].size = BoundLength(c)
        BY DEF Init
    <2> QED
        BY <2>1, <2>2, <2>3 DEF Bound, Strings
<1>2. Held
    BY DEF Init, Held, Strings
<1>3. RowsAsSentUpToTruncation
    BY DEF Init, RowsAsSentUpToTruncation
<1> QED
    BY <1>1, <1>2, <1>3 DEF Kept

LEMMA WrittenWhere ==
    ASSUME Bound, NEW c \in Columns
    PROVE  written[c].block = 0 /\ written[c].room = BoundLength(c)
<1>1. written[c] = [block |-> 0, room |-> BoundLength(c)]
    BY DEF Bound
<1> QED
    BY <1>1

\* What was overlong stays so: rows sent earlier and the library's copy of the
\* binding do not change.
LEMMA OverlongKept ==
    ASSUME NEW r, cells'[r] = cells[r], UNCHANGED <<declared, written>>
    PROVE  Overlong(r)' <=> Overlong(r)
BY DEF Overlong

\* A step that adds no row to the result leaves the verdict on it.
LEMMA ResultKept ==
    ASSUME TypeOK, Counted, RowsAsSentUpToTruncation,
           UNCHANGED <<declared, written, rows>>,
           \A r \in 1..Row : cells'[r] = cells[r]
    PROVE  RowsAsSentUpToTruncation'
<1> SUFFICES ASSUME NEW r \in DOMAIN rows
             PROVE  /\ AsSent(r, Numeric)'
                    /\ (\A s \in 1..(r - 1) : ~Overlong(s))' => AsSent(r, Columns)'
    BY DEF RowsAsSentUpToTruncation
<1>1. r \in 1..Row /\ \A s \in 1..(r - 1) : s \in 1..Row
    BY DEF TypeOK, Counted, Row
<1>2. \A s \in 1..(r - 1) : Overlong(s)' <=> Overlong(s)
    BY <1>1, OverlongKept
<1>3. \A columns : AsSent(r, columns)' <=> AsSent(r, columns)
    BY <1>1 DEF AsSent
<1> QED
    BY <1>2, <1>3 DEF RowsAsSentUpToTruncation

LEMMA FetchKept == TypeOK /\ Counted /\ Kept /\ Fetch => Kept'
<1> SUFFICES ASSUME TypeOK, Counted, Kept, Fetch PROVE Kept'
    OBVIOUS
<1> USE DEF Kept
<1>1. UNCHANGED <<declared, bind, written, rows>>
    BY DEF Fetch
<1>2. CASE UNCHANGED <<cells, buffer, number>> /\ pc' \in {"done", "failed"}
    <2>1. Bound'
        BY <1>1, <1>2 DEF Bound, ServerRow, BoundLength, BlobLength
    <2>2. Held'
        BY <1>2 DEF Held
    <2>3. RowsAsSentUpToTruncation'
        BY <1>1, <1>2, ResultKept
    <2> QED
        BY <2>1, <2>2, <2>3
<1>3. ASSUME NEW row \in ServerRow, pc = "bound",
             cells' = Append(cells, row),
             buffer' = [c \in Columns |-> Filled(c, row[c], Row + 1)],
             number' = [c \in Numeric |-> IF row[c] = NoValue \/ written[c].block # 0
                                          THEN number[c] ELSE Row + 1],
             pc' = "fetched"
      PROVE  Kept'
    <2>1. /\ Row \in Nat /\ Row' = Row + 1 /\ Current' = row
          /\ \A r \in 1..Row : cells'[r] = cells[r]
          /\ cells' \in Seq([Columns -> Cell])
        BY <1>3, FetchGrows
    <2>2. RowsAsSentUpToTruncation'
        BY <1>1, <2>1, ResultKept
    <2>3. ServerRow' = ServerRow /\ \A c : BoundLength(c)' = BoundLength(c)
        BY <1>1 DEF ServerRow, BoundLength, BlobLength
    <2>4. \A r \in DOMAIN cells' : cells'[r] \in ServerRow
        <3> TAKE r \in DOMAIN cells'
        <3>1. r \in 1..(Row + 1)
            BY <2>1 DEF Row
        <3>2. CASE r = Row + 1
            BY <2>1, <3>2 DEF Current
        <3>3. CASE r # Row + 1
            <4>1. r \in 1..Row /\ r \in DOMAIN cells
                BY <2>1, <3>1, <3>3 DEF Row, TypeOK
            <4> QED
                BY <2>1, <4>1 DEF Bound
        <3> QED
            BY <3>2, <3>3
    <2>5. \A c \in Columns : /\ buffer'[c].block = buffer[c].block
                             /\ buffer'[c].size = buffer[c].size
        <3> TAKE c \in Columns
        <3>1. buffer[c] \in Buffer /\ buffer'[c] = Filled(c, row[c], Row + 1)
            BY <1>3 DEF TypeOK
        <3> QED
            BY <3>1 DEF Filled, Buffer
    <2>6. Bound'
        BY <1>1, <2>3, <2>4, <2>5 DEF Bound, Strings
    <2>7. \A c \in Numeric : row[c] # NoValue => number'[c] = Row'
        <3>1. \A c \in Numeric : c \in Columns /\ written[c].block = 0
            BY FetchAssumption, WrittenWhere
        <3> QED
            BY <1>3, <2>1, <3>1
    <2>8. Smooth(Row - 1)' => Smooth(Row)
        <3>1. Row' - 1 = Row
            BY <2>1
        <3>2. \A s \in 1..Row : Overlong(s)' <=> Overlong(s)
            BY <1>1, <2>1, OverlongKept
        <3> QED
            BY <3>1, <3>2 DEF Smooth
    <2>9. ASSUME Smooth(Row - 1)', NEW c \in Strings
          PROVE  /\ buffer'[c].block = 0
                 /\ row[c] # NoValue =>
                       /\ buffer'[c].from = Row'
                       /\ buffer'[c].bytes = Shorter(row[c], written[c].room)
        <3>1. c \in Columns /\ c \notin Numeric /\ buffer[c] \in Buffer
              /\ buffer'[c] = Filled(c, row[c], Row + 1)
            BY <1>3 DEF TypeOK, Strings
        <3>2. buffer[c].block = 0 /\ written[c].block = 0
            BY <1>3, <2>8, <2>9, <3>1, WrittenWhere DEF Held
        <3> QED
            BY <2>1, <3>1, <3>2 DEF Filled, Buffer
    <2>10. Held'
        BY <1>1, <1>3, <2>1, <2>7, <2>9 DEF Held
    <2> QED
        BY <2>2, <2>6, <2>10
<1> QED
    BY <1>2, <1>3 DEF Fetch

\* A row that was not overlong fits the buffers that never grew.
LEMMA SmoothFits ==
    ASSUME TypeOK, Counted, Bound, pc \in {"fetched", "row"}, ~Overlong(Row),
           NEW c \in Strings, Current[c] # NoValue
    PROVE  Current[c] <= BoundLength(c)
<1>1. Row \in DOMAIN cells
    BY DEF TypeOK, Counted, Row
<1>2. Current \in ServerRow
    BY <1>1 DEF Bound, Current
<1>3. c \in Columns /\ c \notin Numeric /\ declared[c] \in Nat /\ Current[c] \in Nat
    <2>1. c \in Columns /\ c \notin Numeric
        BY DEF Strings
    <2>2. declared[c] \in Lengths \cup {Width} /\ Width \in Nat
        BY <2>1 DEF TypeOK, Width
    <2>3. Current[c] \in Lengths
        BY <1>2, <2>1 DEF ServerRow
    <2> QED
        BY <2>1, <2>2, <2>3, FetchAssumption
<1>4. CASE declared[c] # 0
    BY <1>2, <1>3, <1>4 DEF ServerRow, BoundLength, BlobLength
<1>5. CASE declared[c] = 0
    <2>1. c \in Undeclared /\ ~(Current[c] > written[c].room) /\ written[c].room = BoundLength(c)
        <3>1. c \in Undeclared /\ written[c].room = BoundLength(c)
            BY <1>3, <1>5, WrittenWhere DEF Bound
        <3> QED
            BY <1>5, <3>1 DEF Overlong, Current
    <2>2. BoundLength(c) \in Nat
        BY <1>3, FetchAssumption DEF BoundLength, BlobLength
    <2> QED
        BY <1>3, <2>1, <2>2
<1> QED
    BY <1>4, <1>5

LEMMA RefetchKept == TypeOK /\ Counted /\ Rooms /\ Kept /\ Refetch => Kept'
<1> SUFFICES ASSUME TypeOK, Counted, Rooms, Kept, Refetch PROVE Kept'
    OBVIOUS
<1> USE DEF Kept
<1>1. /\ UNCHANGED <<declared, cells, written, number, rows>> /\ pc = "fetched"
      /\ Row' = Row /\ Current' = Current
    BY DEF Refetch, Row, Current
<1>2. /\ Row \in DOMAIN cells /\ Row \in Nat
      /\ Current \in ServerRow /\ Current \in [Columns -> Cell]
    <2>1. Row \in DOMAIN cells /\ Row \in Nat
        BY <1>1 DEF TypeOK, Counted, Row
    <2> QED
        BY <2>1 DEF Bound, Current, ServerRow
<1>3. RowsAsSentUpToTruncation'
    BY <1>1, ResultKept
<1>4. ServerRow' = ServerRow /\ \A c : BoundLength(c)' = BoundLength(c)
    BY <1>1 DEF ServerRow, BoundLength, BlobLength
<1>5. \A n : Smooth(n)' <=> Smooth(n)
    BY <1>1 DEF Smooth, Overlong
<1>6. PICK truncated \in Reports :
        LET long == {c \in Columns : truncated /\ TooLong(c)}
        IN \/ /\ buffer' = [c \in Columns |->
                     IF c \in long
                     THEN [block |-> buffer[c].block + 1, size |-> Current[c] + 1,
                           from |-> Row, bytes |-> Current[c]]
                     ELSE buffer[c]]
              /\ bind' = [c \in Columns |-> buffer'[c].size]
              /\ pc' = "row"
           \/ long # {} /\ pc' = "failed" /\ UNCHANGED <<buffer, bind>>
    BY DEF Refetch
<1> DEFINE long == {c \in Columns : truncated /\ TooLong(c)}
<1>7. CASE UNCHANGED <<buffer, bind>> /\ pc' = "failed"
    <2>1. Bound'
        BY <1>1, <1>4, <1>7 DEF Bound
    <2>2. Held'
        BY <1>7 DEF Held
    <2> QED
        BY <1>3, <2>1, <2>2
<1>8. CASE /\ buffer' = [c \in Columns |->
                  IF c \in long
                  THEN [block |-> buffer[c].block + 1, size |-> Current[c] + 1,
                        from |-> Row, bytes |-> Current[c]]
                  ELSE buffer[c]]
           /\ bind' = [c \in Columns |-> buffer'[c].size]
           /\ pc' = "row"
    <2>1. \A c \in Columns :
              \/ c \notin long /\ buffer'[c] = buffer[c]
              \/ /\ c \in long
                 /\ buffer'[c].block = buffer[c].block + 1
                 /\ buffer'[c].from = Row /\ buffer'[c].bytes = Current[c]
        BY <1>8
    <2>2. \A c \in Columns : buffer[c].block + 1 # 0
        BY DEF TypeOK, Buffer
    <2>3. Bound'
        BY <1>1, <1>4, <2>1, <2>2 DEF Bound, Strings
    <2>4. ASSUME Smooth(Row - 1), NEW c \in Strings, Current[c] # NoValue
          PROVE  /\ buffer'[c].from = Row
                 /\ buffer'[c].bytes >= Current[c]
        <3>1. c \in Columns /\ Current[c] \in Nat /\ written[c].room \in Nat /\ bind[c] \in Nat
            <4>1. c \in Columns
                BY DEF Strings
            <4>2. Current[c] \in Nat
                BY <1>2, <2>4, <4>1, CellType
            <4> QED
                BY <4>1, <4>2 DEF TypeOK
        <3>2. /\ buffer[c].block = 0 /\ buffer[c].from = Row
              /\ buffer[c].bytes = Shorter(Current[c], written[c].room)
            BY <1>1, <2>4 DEF Held
        <3>3. CASE c \in long
            BY <2>1, <3>1, <3>3
        <3>4. CASE c \notin long
            <4>1. bind[c] = written[c].room
                BY <2>4, <3>1, <3>2 DEF Rooms, Bound
            <4>2. Current[c] <= written[c].room
                <5>1. CASE truncated
                    BY <2>4, <3>1, <3>4, <4>1, <5>1 DEF TooLong
                <5>2. CASE ~truncated
                    <6>1. ~Truncated
                        BY <1>6, <5>2 DEF Reports, Truncated
                    <6> QED
                        BY <2>4, <3>1, <6>1 DEF Truncated, Strings
                <5> QED
                    BY <5>1, <5>2
            <4> QED
                BY <2>1, <3>1, <3>2, <3>4, <4>2 DEF Shorter
        <3> QED
            BY <3>3, <3>4
    <2>5. ASSUME Smooth(Row - 1), NEW c \in Strings
          PROVE  Own(c)'
        BY <1>1, <2>4, <2>5 DEF Own, Read, Strings
    <2>6. ASSUME Smooth(Row), NEW c \in Strings
          PROVE  buffer'[c].block = 0
        <3>1. Smooth(Row - 1) /\ ~Overlong(Row)
            BY <1>1, <1>2, <2>6 DEF Smooth, TypeOK, Row
        <3>2. c \in Columns /\ buffer[c].block = 0 /\ bind[c] = BoundLength(c)
            BY <1>1, <2>6, <3>1 DEF Held, Bound, Rooms, Strings
        <3>3. Current[c] # NoValue => Current[c] <= bind[c]
            BY <1>1, <3>1, <3>2, SmoothFits
        <3>4. c \notin long
            <4>1. Current[c] # NoValue => Current[c] \in Nat /\ bind[c] \in Nat
                BY <1>2, <3>2, CellType DEF TypeOK
            <4> QED
                BY <3>3, <4>1 DEF TooLong
        <3> QED
            BY <2>1, <3>2, <3>4
    <2>7. Held'
        BY <1>1, <1>5, <1>8, <2>5, <2>6 DEF Held
    <2> QED
        BY <1>3, <2>3, <2>7
<1> QED
    BY <1>6, <1>7, <1>8

LEMMA AddRowKept == TypeOK /\ Counted /\ Kept /\ AddRow => Kept'
<1> SUFFICES ASSUME TypeOK, Counted, Kept, AddRow PROVE Kept'
    OBVIOUS
<1> USE DEF Kept
<1>1. /\ UNCHANGED <<declared, cells, buffer, bind, written, number>>
      /\ pc = "row" /\ pc' = "bound" /\ Row' = Row
      /\ rows' = Append(rows, [c \in Columns |-> Read(c)])
    BY DEF AddRow, Row
<1>2. /\ Len(rows) \in Nat /\ Len(rows) + 1 = Row /\ Row \in DOMAIN cells
      /\ DOMAIN rows' = 1..Row
      /\ rows'[Row] = [c \in Columns |-> Read(c)]
      /\ \A r \in DOMAIN rows : rows'[r] = rows[r]
      /\ DOMAIN rows = 1..(Row - 1)
    <2>1. [c \in Columns |-> Read(c)] \in [Columns -> Faithful \cup {NoValue}]
        BY DEF Read, Faithful
    <2>2. rows \in Seq([Columns -> Faithful \cup {NoValue}]) /\ Len(rows) + 1 = Row
          /\ cells \in Seq([Columns -> Cell])
        BY <1>1 DEF TypeOK, Counted
    <2> QED
        BY <1>1, <2>1, <2>2 DEF Row
<1>3. Bound'
    BY <1>1 DEF Bound, ServerRow, BoundLength, BlobLength
<1>4. \A n : Smooth(n)' <=> Smooth(n)
    BY <1>1 DEF Smooth, Overlong
<1>5. Held'
    BY <1>1, <1>4 DEF Held
<1>6. Current = cells[Row]
    BY DEF Current
<1>7. ASSUME NEW r, r = Row PROVE AsSent(r, Numeric)'
    <2> SUFFICES ASSUME NEW c \in Numeric
                 PROVE  IF cells[Row][c] = NoValue THEN rows'[Row][c] = NoValue
                        ELSE rows'[Row][c] = [own |-> TRUE]
        BY <1>1, <1>7 DEF AsSent
    <2>1. rows'[Row][c] = Read(c)
        BY <1>2, FetchAssumption
    <2>2. Current[c] # NoValue => number[c] = Row
        BY <1>1 DEF Held
    <2> QED
        BY <1>6, <2>1, <2>2 DEF Read
<1>8. ASSUME NEW r, r = Row, Smooth(Row - 1) PROVE AsSent(r, Columns)'
    <2> SUFFICES ASSUME NEW c \in Columns
                 PROVE  IF cells[Row][c] = NoValue THEN rows'[Row][c] = NoValue
                        ELSE rows'[Row][c] = [own |-> TRUE]
        BY <1>1, <1>8 DEF AsSent
    <2>1. rows'[Row][c] = Read(c)
        BY <1>2
    <2>2. CASE c \in Numeric
        BY <1>1, <1>7, <2>2 DEF AsSent
    <2>3. CASE c \notin Numeric
        BY <1>1, <1>6, <1>8, <2>1, <2>3 DEF Held, Own, Strings, Read
    <2> QED
        BY <2>2, <2>3
<1>9. RowsAsSentUpToTruncation'
    <2> SUFFICES ASSUME NEW r \in 1..Row
                 PROVE  /\ AsSent(r, Numeric)'
                        /\ Smooth(r - 1)' => AsSent(r, Columns)'
        BY <1>2 DEF RowsAsSentUpToTruncation, Smooth
    <2>1. CASE r = Row
        BY <1>4, <1>7, <1>8, <2>1
    <2>2. CASE r # Row
        <3>1. r \in DOMAIN rows /\ rows'[r] = rows[r]
            BY <1>2, <2>2
        <3>2. \A columns : AsSent(r, columns)' <=> AsSent(r, columns)
            BY <1>1, <3>1 DEF AsSent
        <3> QED
            BY <1>4, <3>1, <3>2 DEF RowsAsSentUpToTruncation, Smooth
    <2> QED
        BY <2>1, <2>2
<1> QED
    BY <1>3, <1>5, <1>9

\* Every row is as the server sent it, up to and including the first in which a
\* value was longer than the length guessed for a column without a declared one;
\* numbers always are, although the loop may fetch them a second time
\* (mariadb/prepared_stmt.cxx:318-353).
THEOREM RowsAsSent == Spec => []RowsAsSentUpToTruncation
<1>1. TypeOK /\ Counted /\ Kept /\ UNCHANGED vars => Kept'
    <2> SUFFICES ASSUME TypeOK, Counted, Kept, UNCHANGED vars PROVE Kept'
        OBVIOUS
    <2> USE DEF vars, Kept
    <2>1. Bound'
        BY DEF Bound, ServerRow, BoundLength, BlobLength
    <2>2. Held'
        BY DEF Held, Smooth, Overlong, Own, Read, Current, Row
    <2>3. RowsAsSentUpToTruncation'
        BY ResultKept
    <2> QED
        BY <2>1, <2>2, <2>3
<1>2. TypeOK /\ Counted /\ IInv /\ Kept /\ [Next]_vars => Kept'
    BY <1>1, FetchKept, RefetchKept, AddRowKept DEF Next, IInv
<1>3. Kept => RowsAsSentUpToTruncation
    BY DEF Kept
<1> QED
    BY <1>2, <1>3, InitKept, Typed, Inside, PTL DEF Spec

=============================================================================
