----------------------------- MODULE RowIndex_proofs -----------------------------
(***************************************************************************)
(* Theorems about RowIndex, for any rows, names, threads and columns.      *)
(***************************************************************************)
EXTENDS RowIndex, WellFoundedInduction, TLAPS

\* A position a name has, it has first somewhere.
LEMMA LeastPosition ==
  ASSUME NEW P \in SUBSET Nat, P # {}
  PROVE  \E i \in P : \A j \in P : i <= j
<1> DEFINE less == {pair \in Nat \X Nat : pair[1] < pair[2]}
<1>1. IsWellFoundedOn(less, Nat)
  BY NatLessThanWellFounded DEF OpToRel
<1>2. \E i \in P : \A j \in P : <<j, i>> \notin less
  <2> HIDE DEF less
  <2> QED
    BY <1>1, WFMin
<1>3. \A i, j \in Nat : <<j, i>> \notin less => i <= j
  OBVIOUS
<1> HIDE DEF less
<1> QED
  BY <1>2, <1>3

(***************************************************************************)
(* What BuildNameIndex builds.                                             *)
(***************************************************************************)

LEMMA BuiltPosition ==
  ASSUME NEW columns \in Seq(Names), NEW n \in {columns[i] : i \in DOMAIN columns}
  PROVE  /\ Built(columns)[n] \in DOMAIN columns
         /\ columns[Built(columns)[n]] = n
         /\ \A j \in DOMAIN columns : columns[j] = n => Built(columns)[n] <= j
<1> DEFINE P == Positions(columns, n)
<1>1. P \in SUBSET Nat /\ P # {}
  BY DEF Positions
<1>2. \E i \in P : \A j \in P : i <= j
  BY <1>1, LeastPosition
<1>3. Built(columns)[n] = CHOOSE i \in P : \A j \in P : i <= j
  BY DEF Built
<1>4. Built(columns)[n] \in P /\ \A j \in P : Built(columns)[n] <= j
  BY <1>2, <1>3
<1> QED
  BY <1>4 DEF Positions

LEMMA BuiltDomain ==
  ASSUME NEW columns
  PROVE  DOMAIN Built(columns) = {columns[i] : i \in DOMAIN columns}
BY DEF Built

LEMMA BuiltType ==
  ASSUME NEW columns \in Seq(Names), Len(columns) <= MaxColumns
  PROVE  Built(columns) \in Index
<1> DEFINE K == {columns[i] : i \in DOMAIN columns}
<1>1. K \in SUBSET Names
  OBVIOUS
<1>2. DOMAIN columns \subseteq 1..MaxColumns
  BY RowAssumption
<1>3. \A n \in K : Built(columns)[n] \in 1..MaxColumns
  BY <1>2, BuiltPosition
<1>4. Built(columns) \in [K -> 1..MaxColumns]
  BY <1>3 DEF Built
<1> QED
  BY <1>1, <1>4 DEF Index

\* Looking a name up in a new index is searching the columns for it.
LEMMA BuiltFindsFirst ==
  ASSUME NEW columns \in Seq(Names), NEW n \in Names
  PROVE  FirstNamed(columns, n, Found(Built(columns), n))
<1> DEFINE a == Found(Built(columns), n)
<1>1. CASE n \in {columns[i] : i \in DOMAIN columns}
  <2>1. a = Built(columns)[n]
    BY <1>1, BuiltDomain DEF Found
  <2>2. /\ a \in DOMAIN columns
        /\ columns[a] = n
        /\ \A j \in DOMAIN columns : columns[j] = n => a <= j
    BY <1>1, <2>1, BuiltPosition
  <2>3. DOMAIN columns = 1..Len(columns) /\ Len(columns) \in Nat
    OBVIOUS
  <2> HIDE DEF a
  <2>4. a \in Nat /\ a # 0
    BY <2>2, <2>3
  <2>5. \A i \in 1..(a - 1) : columns[i] # n
    BY <2>2, <2>3, <2>4
  <2>6. FirstNamed(columns, n, a)
    BY <2>2, <2>4, <2>5 DEF FirstNamed
  <2> QED
    BY <2>6 DEF a
<1>2. CASE n \notin {columns[i] : i \in DOMAIN columns}
  <2>1. a = 0
    BY <1>2, BuiltDomain DEF Found
  <2> QED
    BY <1>2, <2>1 DEF FirstNamed
<1> QED
  BY <1>1, <1>2

(***************************************************************************)
(* The invariant.                                                          *)
(***************************************************************************)

\* An index leads inside its row, and to where a search would, unless a column
\* got another name under it.  A race does no harm to the index itself: each
\* thread builds it from the columns, which nobody changes meanwhile.
Good(row) ==
  /\ row \in Row
  /\ Len(row.columns) <= MaxColumns
  /\ row.index # NoIndex =>
       \A n \in DOMAIN row.index : row.index[n] \in DOMAIN row.columns
  /\ row.index # NoIndex /\ ~row.renamed =>
       \A n \in Names : FirstNamed(row.columns, n, Found(row.index, n))

Looking == [row: Rows, name: Names, at: {"build", "find"}]

Lookups ==
  /\ lookup \in [Threads -> {Idle} \cup Looking]
  /\ \A t \in Threads : lookup[t].at = "find" => rows[lookup[t].row].index # NoIndex
  /\ answer \in 0..MaxColumns
  /\ raced \in BOOLEAN

IInv ==
  /\ rows \in [Rows -> Row]
  /\ \A r \in Rows : Good(rows[r])
  /\ Lookups

LEMMA GoodEmpty == Good([columns |-> <<>>, index |-> NoIndex, renamed |-> FALSE])
<1>1. Len(<<>>) = 0 /\ MaxColumns \in Nat /\ <<>> \in Seq(Names)
  BY RowAssumption
<1> QED
  BY <1>1 DEF Good, Row

\* A row with columns and a new index.
LEMMA BuiltGood ==
  ASSUME NEW columns \in Seq(Names), Len(columns) <= MaxColumns, NEW b \in BOOLEAN
  PROVE  Good([columns |-> columns, index |-> Built(columns), renamed |-> b])
<1> DEFINE new == [columns |-> columns, index |-> Built(columns), renamed |-> b]
<1>1. Built(columns) \in Index
  BY BuiltType
<1>2. new \in Row /\ new.columns = columns /\ new.index = Built(columns)
  BY <1>1 DEF Row
<1>3. \A n \in DOMAIN Built(columns) : Built(columns)[n] \in DOMAIN columns
  BY BuiltDomain, BuiltPosition
<1>4. \A n \in Names : FirstNamed(columns, n, Found(Built(columns), n))
  BY BuiltFindsFirst
<1> HIDE DEF new
<1>5. Good(new)
  BY <1>2, <1>3, <1>4 DEF Good
<1> QED
  BY <1>5 DEF new

\* Rows change to good rows, and no thread loses the index it uses.
LEMMA Kept ==
  ASSUME IInv, NEW r \in Rows, NEW new, Good(new), Readers(r) = {},
         rows' = [rows EXCEPT ![r] = new],
         lookup' = lookup, answer' = answer, raced' \in BOOLEAN
  PROVE  IInv'
<1>1. new \in Row
  BY DEF Good
<1>2. rows' \in [Rows -> Row] /\ \A s \in Rows : Good(rows'[s])
  BY <1>1 DEF IInv
<1>3. \A t \in Threads : lookup[t].row # r
  BY DEF Readers
<1>4. \A t \in Threads : lookup[t].at = "find" => lookup[t].row \in Rows
  BY DEF IInv, Lookups, Idle, Looking
<1>5. Lookups'
  BY <1>3, <1>4 DEF IInv, Lookups, Looking, Idle
<1> QED
  BY <1>2, <1>5 DEF IInv

LEMMA InitGood == Init => IInv
<1> SUFFICES ASSUME Init PROVE IInv
  OBVIOUS
<1>1. \A r \in Rows : Good(rows[r])
  BY GoodEmpty DEF Init
<1>2. rows \in [Rows -> Row]
  BY <1>1 DEF Init, Good
<1>3. \A t \in Threads : lookup[t] = Idle /\ Idle.at # "find"
  BY DEF Init, Idle
<1>4. Lookups
  <2>1. lookup \in [Threads -> {Idle} \cup Looking]
    BY <1>3 DEF Init
  <2>2. 0 \in 0..MaxColumns
    BY RowAssumption
  <2> QED
    BY <1>3, <2>1, <2>2 DEF Init, Lookups
<1> QED
  BY <1>1, <1>2, <1>4 DEF IInv

-----------------------------------------------------------------------------
(* What changes a row.                                                     *)

LEMMA AddStep ==
  ASSUME IInv, NEW r \in Rows, NEW n \in Names, Add(r, n)
  PROVE  IInv'
<1> DEFINE new == [columns |-> Append(rows[r].columns, n), index |-> NoIndex, renamed |-> FALSE]
<1>1. rows[r].columns \in Seq(Names) /\ MaxColumns \in Nat
  BY RowAssumption DEF IInv, Row
<1>2. Good(new)
  BY <1>1 DEF Add, Good, Row
<1>3. rows' = [rows EXCEPT ![r] = new]
  BY DEF Add
<1> HIDE DEF new
<1> QED
  BY <1>2, <1>3, Kept DEF Add, IInv, Lookups

LEMMA ReplaceStep ==
  ASSUME IInv, NEW r \in Rows, NEW i \in 1..MaxColumns, NEW n \in Names, Replace(r, i, n)
  PROVE  IInv'
<1> DEFINE row == rows[r]
           columns == [row.columns EXCEPT ![i] = n]
           new == [row EXCEPT !.columns = columns,
                              !.renamed = @ \/ (row.index # NoIndex /\ row.columns[i] # n)]
<1>1. row \in Row /\ Good(row) /\ row.columns \in Seq(Names)
  BY DEF IInv, Row
<1>2. columns \in Seq(Names) /\ Len(columns) = Len(row.columns)
      /\ DOMAIN columns = DOMAIN row.columns
  BY <1>1 DEF Replace
<1>3. new \in Row /\ new.columns = columns /\ new.index = row.index
  BY <1>1, <1>2 DEF Row
<1>4. row.index # NoIndex /\ ~new.renamed => columns = row.columns /\ ~row.renamed
  <2>1. new.renamed = (row.renamed \/ (row.index # NoIndex /\ row.columns[i] # n))
    BY <1>1 DEF Row
  <2>2. row.columns[i] = n => columns = row.columns
    BY <1>1
  <2> QED
    BY <2>1, <2>2
<1>5. Good(new)
  BY <1>1, <1>2, <1>3, <1>4 DEF Good
<1>6. rows' = [rows EXCEPT ![r] = new]
  BY DEF Replace, IInv, Row
<1> HIDE DEF new
<1> QED
  BY <1>5, <1>6, Kept DEF Replace, IInv, Lookups

LEMMA CopyStep ==
  ASSUME IInv, NEW r \in Rows, NEW s \in Rows, Copy(r, s)
  PROVE  IInv'
<1>1. raced' \in BOOLEAN
  BY DEF Copy, IInv, Lookups
<1> QED
  BY <1>1, Kept DEF Copy, IInv

\* A row moved from is a row with no columns whose index, if any, is new.
LEMMA MovedFromGood ==
  ASSUME NEW row, Good(row)
  PROVE  Good(MovedFrom(row))
<1>1. CASE row.index = NoIndex
  BY <1>1, GoodEmpty DEF MovedFrom
<1>2. CASE row.index # NoIndex
  <2>1. <<>> \in Seq(Names) /\ Len(<<>>) <= MaxColumns
    BY RowAssumption
  <2>2. Good([columns |-> <<>>, index |-> Built(<<>>), renamed |-> FALSE])
    BY <2>1, BuiltGood
  <2>3. MovedFrom(row) = [columns |-> <<>>, index |-> Built(<<>>), renamed |-> FALSE]
    BY <1>2 DEF MovedFrom
  <2> QED
    BY <2>2, <2>3
<1> QED
  BY <1>1, <1>2

LEMMA MoveStep ==
  ASSUME IInv, NEW r \in Rows, NEW s \in Rows, Move(r, s)
  PROVE  IInv'
<1>1. Good(rows[r]) /\ Good(MovedFrom(rows[r]))
  BY MovedFromGood DEF IInv
<1>2. \A x \in Rows : rows'[x] = IF x = r THEN MovedFrom(rows[r])
                                ELSE IF x = s THEN rows[r] ELSE rows[x]
  BY DEF Move, IInv
<1>3. \A x \in Rows : Good(rows'[x])
  BY <1>1, <1>2 DEF IInv
<1>4. rows' \in [Rows -> Row]
  BY <1>1, <1>3 DEF Good, Move, IInv
<1>5. \A t \in Threads : lookup[t].row # r /\ lookup[t].row # s
  BY DEF Move, Readers
<1>6. \A t \in Threads : lookup[t].at = "find" => lookup[t].row \in Rows
  BY DEF IInv, Lookups, Idle, Looking
<1>7. Lookups'
  BY <1>2, <1>5, <1>6 DEF Move, IInv, Lookups
<1> QED
  BY <1>3, <1>4, <1>7 DEF IInv

-----------------------------------------------------------------------------
(* Lookups.                                                                *)

LEMMA StartLookupStep ==
  ASSUME IInv, NEW t \in Threads, NEW r \in Rows, NEW n \in Names, StartLookup(t, r, n)
  PROVE  IInv'
<1>1. rows' \in [Rows -> Row] /\ \A s \in Rows : Good(rows'[s])
  BY DEF StartLookup, IInv
<1>2. lookup' \in [Threads -> {Idle} \cup Looking]
  BY DEF StartLookup, IInv, Lookups, Looking
<1>3. \A u \in Threads : lookup'[u].at = "find" => rows'[lookup'[u].row].index # NoIndex
  BY DEF StartLookup, IInv, Lookups
<1> QED
  BY <1>1, <1>2, <1>3 DEF IInv, Lookups, StartLookup

LEMMA BuildStep ==
  ASSUME IInv, NEW t \in Threads, Build(t)
  PROVE  IInv'
<1> DEFINE r == lookup[t].row
           row == rows[r]
           new == [columns |-> row.columns, index |-> Built(row.columns),
                   renamed |-> row.renamed]
<1>1. r \in Rows
  BY DEF Build, IInv, Lookups, Looking, Idle
<1>2. /\ Good(new)
      /\ row \in Row
  BY <1>1, BuiltGood DEF IInv, Good, Row
<1>3. rows' = [rows EXCEPT ![r] = new]
  <2>1. new = [row EXCEPT !.index = Built(row.columns)]
    BY <1>2 DEF Row
  <2> QED
    BY <2>1 DEF Build
<1>4. new \in Row /\ new.index # NoIndex
  <2>1. Built(rows[r].columns) \in Index
    BY <1>1, BuiltType DEF IInv, Good, Row
  <2> QED
    BY <1>1, <1>2, <2>1, RowAssumption DEF Good, IInv, Row
<1> HIDE DEF new
<1>5. rows' \in [Rows -> Row] /\ \A s \in Rows : Good(rows'[s])
  BY <1>1, <1>2, <1>3, <1>4 DEF IInv
<1>6. lookup' \in [Threads -> {Idle} \cup Looking]
  BY <1>1 DEF Build, IInv, Lookups, Looking, Idle
<1>7. \A u \in Threads : lookup'[u].at = "find" => rows'[lookup'[u].row].index # NoIndex
  <2> SUFFICES ASSUME NEW u \in Threads, lookup'[u].at = "find"
               PROVE  rows'[lookup'[u].row].index # NoIndex
    OBVIOUS
  <2>1. lookup'[u].row \in Rows
    BY <1>6 DEF Looking, Idle
  <2>2. lookup'[u].row = lookup[u].row /\ (u # t => lookup'[u] = lookup[u])
    BY DEF Build, IInv, Lookups
  <2> QED
    BY <1>1, <1>3, <1>4, <2>1, <2>2 DEF IInv, Lookups
<1>8. answer' = answer /\ raced' \in BOOLEAN
  BY DEF Build, IInv, Lookups
<1> QED
  BY <1>5, <1>6, <1>7, <1>8 DEF IInv, Lookups

LEMMA FoundType ==
  ASSUME NEW index \in Index, NEW n
  PROVE  Found(index, n) \in 0..MaxColumns
BY RowAssumption DEF Index, Found

LEMMA FindStep ==
  ASSUME IInv, NEW t \in Threads, Find(t)
  PROVE  IInv'
<1>1. lookup[t].row \in Rows /\ rows[lookup[t].row].index \in Index
  BY DEF Find, IInv, Lookups, Looking, Idle, Row
<1>2. answer' \in 0..MaxColumns
  BY <1>1, FoundType DEF Find
<1>3. lookup' \in [Threads -> {Idle} \cup Looking]
  BY DEF Find, IInv, Lookups
<1>4. \A u \in Threads : lookup'[u].at = "find" => lookup'[u] = lookup[u]
  BY DEF Find, IInv, Lookups, Idle
<1> QED
  BY <1>2, <1>3, <1>4 DEF Find, IInv, Lookups

LEMMA StepGood == IInv /\ [Next]_vars => IInv'
<1> SUFFICES ASSUME IInv, [Next]_vars PROVE IInv'
  OBVIOUS
<1>1. CASE UNCHANGED vars
  BY <1>1 DEF vars, IInv, Lookups
<1>2. CASE Next
  BY <1>2, AddStep, ReplaceStep, CopyStep, MoveStep, StartLookupStep, BuildStep, FindStep DEF Next
<1> QED
  BY <1>1, <1>2

LEMMA AlwaysGood == Spec => []IInv
BY InitGood, StepGood, PTL DEF Spec

\* Every reachable state is well typed; in particular a thread about to use an
\* index has one, whatever the other threads do (row.cxx:30 dereferences it).
THEOREM RowTypeCorrect == Spec => []TypeOK
<1>1. IInv => TypeOK
  BY DEF IInv, Lookups, Looking, TypeOK
<1> QED
  BY <1>1, AlwaysGood, PTL

\* No index ever leads outside its row, whatever is copied, moved, renamed or
\* raced for (row.cxx:33 indexes without a test).
THEOREM IndexStaysInsideRow == Spec => []IndexInsideRow
<1>1. IInv => IndexInsideRow
  BY DEF IInv, Good, IndexInsideRow
<1> QED
  BY <1>1, AlwaysGood, PTL

\* Until threads race for the index, or a column gets another name under it,
\* a lookup by name finds the first column of the name, or none when there is
\* none.
THEOREM LookupsFindFirst == Spec => LookupFindsFirst
<1> DEFINE Step == \A t \in Threads :
          lookup[t].at = "find" /\ lookup'[t] = Idle /\ ~raced =>
              LET row == rows[lookup[t].row]
              IN row.renamed \/ FirstNamed(row.columns, lookup[t].name, answer')
<1>1. IInv /\ Next => Step
  <2> SUFFICES ASSUME IInv, Next,
                      NEW t \in Threads, lookup[t].at = "find", lookup'[t] = Idle, ~raced
               PROVE  \/ rows[lookup[t].row].renamed
                      \/ FirstNamed(rows[lookup[t].row].columns, lookup[t].name, answer')
    OBVIOUS
  <2>1. lookup \in [Threads -> {Idle} \cup Looking] /\ lookup[t] # lookup'[t]
    BY DEF IInv, Lookups, Idle
  <2>2. \E u \in Threads : \/ Build(u) \/ Find(u)
                           \/ \E r \in Rows, n \in Names : StartLookup(u, r, n)
    BY <2>1 DEF Next, Add, Replace, Copy, Move
  <2>3. Find(t)
    BY <2>1, <2>2 DEF Build, Find, StartLookup, Idle
  <2>4. /\ lookup[t].row \in Rows
        /\ lookup[t].name \in Names
        /\ rows[lookup[t].row].index # NoIndex
    BY DEF IInv, Lookups, Looking, Idle
  <2>5. answer' = Found(rows[lookup[t].row].index, lookup[t].name)
    BY <2>3 DEF Find
  <2> QED
    BY <2>4, <2>5 DEF IInv, Good
<1>2. UNCHANGED vars => Step
  BY DEF vars, Idle
<1>3. IInv /\ [Next]_vars => [Step]_vars
  BY <1>1
<1> QED
  BY <1>3, AlwaysGood, PTL DEF Spec, LookupFindsFirst

=============================================================================
