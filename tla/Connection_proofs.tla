---------------------------- MODULE Connection_proofs ----------------------------
(***************************************************************************)
(* Theorems about Connection, for any objects, connections, names and      *)
(* texts.                                                                  *)
(***************************************************************************)
EXTENDS Connection, TLAPS

-----------------------------------------------------------------------------
(* Types.                                                                  *)

LEMMA NullFacts == NoConn \notin Conns /\ NoQuery \notin Queries /\ NoStmt \notin Stmt
BY NullsAssumption DEF Stmt

LEMMA AbsentType == Absent \in Object /\ NoStmts \in [Names -> Stmt \cup {NoStmt}]
BY DEF Absent, Object, NoStmts

\* Any call of the engine leaves a connection in one of its states.
LEMMA UsedType ==
  ASSUME TypeOK, NEW c \in Conns
  PROVE  Used(c) \in ConnStates
BY DEF TypeOK, Used, ConnStates

LEMMA CloseIfAnyType ==
  ASSUME TypeOK, NEW c \in Conns \cup {NoConn}, NEW obs, CloseIfAny(c, obs)
  PROVE  conns' \in [Conns -> ConnStates]
<1>1. CASE c = NoConn
  BY <1>1 DEF CloseIfAny, TypeOK
<1>2. CASE c # NoConn
  <2>1. c \in Conns
    BY <1>2
  <2>2. Used(c) \in ConnStates
    BY <2>1, UsedType
  <2>3. PICK state \in ConnStates : conns' = [conns EXCEPT ![c] = state]
    BY <1>2, <2>2 DEF CloseIfAny, Close, ConnStates
  <2> QED
    BY <2>3 DEF TypeOK
<1> QED
  BY <1>1, <1>2

LEMMA CreatedType ==
  ASSUME NEW c \in Conns, NEW q \in Queries, NEW accepted \in BOOLEAN
  PROVE  Created(c, q, accepted) \in Stmt \cup {NoStmt}
BY DEF Created, Stmt

LEMMA ClearedType ==
  ASSUME NEW ob \in Object
  PROVE  ClearedStatements(ob) \in [Names -> Stmt \cup {NoStmt}]
BY AbsentType DEF ClearedStatements, Object

LEMMA DisconnectedType ==
  ASSUME NEW ob \in Object, NEW stmts \in [Names -> Stmt \cup {NoStmt}]
  PROVE  Disconnected(ob, stmts) \in Object
BY DEF Disconnected, Object

LEMMA TypeInit == Init => TypeOK
BY AbsentType DEF Init, TypeOK, ConnStates

LEMMA TypeStep == TypeOK /\ [Next]_vars => TypeOK'
<1> SUFFICES ASSUME TypeOK, [Next]_vars PROVE TypeOK'
  OBVIOUS
<1>0. CASE UNCHANGED vars
  BY <1>0 DEF vars, class, TypeOK
<1>1. ASSUME NEW o \in Objects, Construct(o) PROVE TypeOK'
  <2>1. [Absent EXCEPT !.live = TRUE] \in Object
    BY AbsentType DEF Object
  <2> QED
    BY <1>1, <2>1 DEF Construct, class, TypeOK
<1>2. ASSUME NEW o \in Objects, NEW c \in Conns, Connect(o, c) PROVE TypeOK'
  <2>1. \/ objects' = [objects EXCEPT ![o] = [@ EXCEPT !.connected = TRUE, !.handle = c]]
        \/ objects' = [objects EXCEPT ![o] = [@ EXCEPT !.handle = NoConn]]
    BY <1>2 DEF Connect, Established, Failed
  <2>2. objects[o] \in Object
    BY DEF TypeOK
  <2>3. /\ [objects[o] EXCEPT !.connected = TRUE, !.handle = c] \in Object
        /\ [objects[o] EXCEPT !.handle = NoConn] \in Object
    BY <2>2 DEF Object
  <2>4. objects' \in [Objects -> Object]
    BY <2>1, <2>3 DEF TypeOK
  <2>5. conns' \in [Conns -> ConnStates]
    BY <1>2 DEF Connect, Established, Failed, TypeOK, ConnStates
  <2> QED
    BY <1>2, <2>4, <2>5 DEF Connect, class, TypeOK
<1>3. ASSUME NEW o \in Objects, Disconnect(o) PROVE TypeOK'
  <2> DEFINE ob == objects[o]
             stmts == IF overriding THEN ob.stmts ELSE ClearedStatements(ob)
  <2>1. ob \in Object /\ ob.handle \in Conns \cup {NoConn}
    BY DEF TypeOK, Object
  <2>2. stmts \in [Names -> Stmt \cup {NoStmt}]
    BY <2>1, ClearedType DEF Object
  <2>3. objects' \in [Objects -> Object]
    BY <1>3, <2>1, <2>2, DisconnectedType DEF Disconnect, TypeOK
  <2>4. conns' \in [Conns -> ConnStates]
    BY <1>3, <2>1, CloseIfAnyType DEF Disconnect
  <2> QED
    BY <1>3, <2>3, <2>4 DEF Disconnect, class, TypeOK
<1>4. ASSUME NEW o \in Objects, Destroy(o) PROVE TypeOK'
  <2>1. objects[o].handle \in Conns \cup {NoConn}
    BY DEF TypeOK, Object
  <2>2. conns' \in [Conns -> ConnStates]
    BY <1>4, <2>1, CloseIfAnyType DEF Destroy
  <2>3. objects' \in [Objects -> Object]
    BY <1>4, AbsentType DEF Destroy, TypeOK
  <2> QED
    BY <1>4, <2>2, <2>3 DEF Destroy, class, TypeOK
<1>5. ASSUME NEW o \in Objects, NEW n \in Names, NEW q \in Queries, PrepareSTMT(o, n, q)
      PROVE  TypeOK'
  <2> DEFINE c == objects[o].handle
  <2>1. c \in Conns
    BY <1>5 DEF PrepareSTMT, TypeOK, Object
  <2>2. PICK accepted \in BOOLEAN :
          /\ objects' = [objects EXCEPT ![o].stmts = Emplaced(@, n, Created(c, q, accepted))]
          /\ prepared' = IF accepted /\ backend = "postgres"
                         THEN [prepared EXCEPT ![c][n] = q] ELSE prepared
    BY <1>5 DEF PrepareSTMT, Acceptable
  <2>3. Emplaced(objects[o].stmts, n, Created(c, q, accepted)) \in [Names -> Stmt \cup {NoStmt}]
    BY <2>1, CreatedType DEF Emplaced, TypeOK, Object
  <2>4. objects' \in [Objects -> Object]
    BY <2>2, <2>3 DEF TypeOK, Object
  <2>5. prepared' \in [Conns -> [Names -> Queries \cup {NoQuery}]]
    BY <2>1, <2>2 DEF TypeOK
  <2>6. conns' \in [Conns -> ConnStates]
    BY <1>5, <2>1, UsedType DEF PrepareSTMT, TypeOK
  <2> QED
    BY <1>5, <2>4, <2>5, <2>6 DEF PrepareSTMT, class, TypeOK
<1>6. ASSUME NEW o \in Objects, NEW n \in Names, ExecuteSTMT(o, n) PROVE TypeOK'
  <2>1. objects[o].stmts[n].conn \in Conns
    BY <1>6 DEF ExecuteSTMT, TypeOK, Object, Stmt
  <2>2. conns' \in [Conns -> ConnStates]
    BY <1>6, <2>1, UsedType DEF ExecuteSTMT, TypeOK
  <2> QED
    BY <1>6, <2>2 DEF ExecuteSTMT, class, TypeOK
<1>7. ASSUME NEW o \in Objects, Query(o) PROVE TypeOK'
  <2>1. objects[o].handle \in Conns
    BY <1>7 DEF Query, TypeOK, Object
  <2>2. conns' \in [Conns -> ConnStates]
    BY <1>7, <2>1, UsedType DEF Query, TypeOK
  <2> QED
    BY <1>7, <2>2 DEF Query, class, TypeOK
<1>8. ASSUME NEW o \in Objects, NEW p \in Objects, MoveConstruct(o, p) \/ MoveAssign(o, p)
      PROVE  TypeOK'
  <2>1. Moved(o, p)
    BY <1>8 DEF MoveConstruct, MoveAssign
  <2>2. objects[o] \in Object /\ objects[p] \in Object
    BY DEF TypeOK
  <2>3. objects' = [[objects EXCEPT ![p] = objects[o]] EXCEPT ![o] = [@ EXCEPT !.stmts = NoStmts]]
    BY <2>1 DEF Moved
  <2>4. \A ob \in Object : [ob EXCEPT !.stmts = NoStmts] \in Object
    BY AbsentType DEF Object
  <2>5. objects' \in [Objects -> Object]
    BY <2>2, <2>3, <2>4 DEF TypeOK
  <2>6. torn' \in BOOLEAN
    BY <2>1, <2>2 DEF Moved, TypeOK, Object
  <2> QED
    BY <1>8, <2>5, <2>6 DEF MoveConstruct, MoveAssign, class, TypeOK
<1> QED
  BY <1>0, <1>1, <1>2, <1>3, <1>4, <1>5, <1>6, <1>7, <1>8 DEF Next

\* The objects, connections and registries keep their types, whatever is moved
\* over what.
THEOREM ConnectionTypeCorrect == Spec => []TypeOK
BY TypeInit, TypeStep, PTL DEF Spec

-----------------------------------------------------------------------------
(* Ownership.                                                              *)

\* As long as nothing is torn: an object that believes itself connected holds
\* an open connection, one that nobody else holds, and owns only statements
\* made on it; and every open connection is held.
OneOwner ==
  /\ \A o \in Objects :
       /\ objects[o].connected <=> objects[o].handle # NoConn
       /\ ~objects[o].live => objects[o].handle = NoConn
       /\ objects[o].handle # NoConn => conns[objects[o].handle] = "open"
       /\ \A n \in Names :
            objects[o].stmts[n] # NoStmt => objects[o].stmts[n].conn = objects[o].handle
  /\ \A o, p \in Objects :
       objects[o].handle # NoConn /\ objects[o].handle = objects[p].handle => o = p
  /\ \A c \in Conns :
       /\ conns[c] \in {"fresh", "open", "closed"}
       /\ conns[c] = "open" => \E o \in Objects : objects[o].handle = c

Owned == ~torn => OneOwner

\* An object without a connection has no statements.
LEMMA NoneWithoutConn ==
  ASSUME TypeOK, OneOwner, NEW o \in Objects, objects[o].handle = NoConn
  PROVE  objects[o].stmts = NoStmts
<1>1. objects[o].stmts \in [Names -> Stmt \cup {NoStmt}]
  BY DEF TypeOK, Object
<1>2. \A n \in Names : objects[o].stmts[n] = NoStmt
  BY <1>1, NullFacts DEF OneOwner, Stmt
<1> QED
  BY <1>1, <1>2 DEF NoStmts

\* An engine call on the connection of an object changes nothing.
LEMMA UsedOpen ==
  ASSUME TypeOK, OneOwner, NEW c \in Conns, conns[c] = "open"
  PROVE  [conns EXCEPT ![c] = Used(c)] = conns
BY DEF TypeOK, Used

\* Closing the connection of an object whose statements are gone closes it:
\* no statement of anybody else's keeps it open.
LEMMA CloseOwned ==
  ASSUME TypeOK, OneOwner, NEW o \in Objects, NEW obs,
         \A x \in Objects : obs[x].stmts = IF x = o THEN NoStmts ELSE objects[x].stmts,
         CloseIfAny(objects[o].handle, obs)
  PROVE  conns' = IF objects[o].handle = NoConn THEN conns
                  ELSE [conns EXCEPT ![objects[o].handle] = "closed"]
<1> DEFINE c == objects[o].handle
<1>1. CASE c = NoConn
  BY <1>1 DEF CloseIfAny
<1>2. CASE c # NoConn
  <2>1. conns[c] = "open"
    BY <1>2 DEF OneOwner
  <2>2. \A x \in Objects, n \in Names :
          obs[x].stmts[n] # NoStmt => x # o /\ obs[x].stmts[n].conn = objects[x].handle
    BY DEF OneOwner, NoStmts
  <2>3. \A x \in Objects : x # o => objects[x].handle # c
    BY <1>2 DEF OneOwner
  <2>4. StatementsOn(obs, c) = {}
    BY <2>2, <2>3 DEF StatementsOn
  <2> QED
    BY <1>2, <2>1, <2>4 DEF CloseIfAny, Close
<1> QED
  BY <1>1, <1>2

\* An object that lets go of its connection, and its statements, leaves the
\* others as they were.
LEMMA Release ==
  ASSUME TypeOK, OneOwner, NEW o \in Objects, NEW ob,
         ob.connected = FALSE, ob.handle = NoConn, ob.stmts = NoStmts,
         objects' = [objects EXCEPT ![o] = ob],
         conns' = IF objects[o].handle = NoConn THEN conns
                  ELSE [conns EXCEPT ![objects[o].handle] = "closed"]
  PROVE  OneOwner'
<1> DEFINE c == objects[o].handle
<1>1. c \in Conns \cup {NoConn} /\ \A x \in Objects : objects[x].handle \in Conns \cup {NoConn}
  BY DEF TypeOK, Object
<1>2. \A x \in Objects : objects'[x] = IF x = o THEN ob ELSE objects[x]
  BY DEF TypeOK
<1>3. \A d \in Conns : conns'[d] = IF d = c THEN "closed" ELSE conns[d]
  BY <1>1, NullFacts DEF TypeOK
<1>4. \A x \in Objects : x # o /\ objects[x].handle # NoConn => objects[x].handle # c
  BY DEF OneOwner
<1>5. \A x \in Objects :
        /\ objects'[x].connected <=> objects'[x].handle # NoConn
        /\ ~objects'[x].live => objects'[x].handle = NoConn
        /\ objects'[x].handle # NoConn => conns'[objects'[x].handle] = "open"
  BY <1>1, <1>2, <1>3, <1>4 DEF OneOwner
<1>6. \A x \in Objects, n \in Names :
        objects'[x].stmts[n] # NoStmt => objects'[x].stmts[n].conn = objects'[x].handle
  BY <1>2 DEF OneOwner, NoStmts
<1>7. \A x, y \in Objects :
        objects'[x].handle # NoConn /\ objects'[x].handle = objects'[y].handle => x = y
  BY <1>2 DEF OneOwner
<1>8. \A d \in Conns :
        /\ conns'[d] \in {"fresh", "open", "closed"}
        /\ conns'[d] = "open" => \E x \in Objects : objects'[x].handle = d
  BY <1>2, <1>3 DEF OneOwner
<1> QED
  BY <1>5, <1>6, <1>7, <1>8 DEF OneOwner

LEMMA OwnedInit == Init => OneOwner
BY DEF Init, OneOwner, Absent, NoStmts

LEMMA ConstructOwned ==
  ASSUME TypeOK, OneOwner, NEW o \in Objects, Construct(o)
  PROVE  OneOwner'
<1> DEFINE new == [Absent EXCEPT !.live = TRUE]
<1>1. new.connected = FALSE /\ new.handle = NoConn /\ new.stmts = NoStmts
  BY DEF Absent
<1>2. objects' = [objects EXCEPT ![o] = new] /\ conns' = conns /\ objects[o].handle = NoConn
  BY DEF Construct, OneOwner
<1> HIDE DEF new
<1> QED
  BY <1>1, <1>2, Release

LEMMA ConnectOwned ==
  ASSUME TypeOK, OneOwner, NEW o \in Objects, NEW c \in Conns, Connect(o, c)
  PROVE  OneOwner'
<1>1. objects[o].handle = NoConn /\ objects[o].stmts = NoStmts /\ objects[o].live
  BY NoneWithoutConn DEF Connect, OneOwner
<1>2. objects[o] \in Object /\ objects \in [Objects -> Object] /\ conns \in [Conns -> ConnStates]
  BY DEF TypeOK
<1>3. \A x \in Objects : objects[x].handle # c
  BY NullFacts DEF Connect, OneOwner
<1>4. CASE Established(o, c)
  <2>1. \A x \in Objects : x # o => objects'[x] = objects[x]
    BY <1>2, <1>4 DEF Established
  <2>2. /\ objects'[o].connected = TRUE
        /\ objects'[o].handle = c
        /\ objects'[o].live
        /\ objects'[o].stmts = NoStmts
    BY <1>1, <1>2, <1>4 DEF Established, Object
  <2>3. \A d \in Conns : conns'[d] = IF d = c THEN "open" ELSE conns[d]
    BY <1>2, <1>4 DEF Established
  <2>4. c # NoConn /\ \A x \in Objects : objects[x].handle \in Conns \cup {NoConn}
    BY NullFacts, <1>2 DEF Object
  <2>5. \A x \in Objects :
          /\ objects'[x].connected <=> objects'[x].handle # NoConn
          /\ ~objects'[x].live => objects'[x].handle = NoConn
          /\ objects'[x].handle # NoConn => conns'[objects'[x].handle] = "open"
    BY <1>3, <2>1, <2>2, <2>3, <2>4 DEF OneOwner
  <2>6. \A x \in Objects, n \in Names :
          objects'[x].stmts[n] # NoStmt => objects'[x].stmts[n].conn = objects'[x].handle
    BY <2>1, <2>2 DEF OneOwner, NoStmts
  <2>7. \A x, y \in Objects :
          objects'[x].handle # NoConn /\ objects'[x].handle = objects'[y].handle => x = y
    BY <1>3, <2>1, <2>2 DEF OneOwner
  <2>8. \A d \in Conns :
          /\ conns'[d] \in {"fresh", "open", "closed"}
          /\ conns'[d] = "open" => \E x \in Objects : objects'[x].handle = d
    BY <1>1, <2>1, <2>2, <2>3, NullFacts DEF OneOwner
  <2> QED
    BY <2>5, <2>6, <2>7, <2>8 DEF OneOwner
<1>5. CASE Failed(o, c)
  <2>1. objects' = objects
    BY <1>1, <1>2, <1>5 DEF Failed, Object
  <2>2. \A d \in Conns : conns'[d] = IF d = c THEN "closed" ELSE conns[d]
    BY <1>2, <1>5 DEF Failed
  <2>3. \A x \in Objects : objects[x].handle \in Conns \cup {NoConn}
    BY <1>2 DEF Object
  <2> QED
    BY <1>3, <2>1, <2>2, <2>3 DEF OneOwner
<1> QED
  BY <1>4, <1>5 DEF Connect

LEMMA DisconnectOwned ==
  ASSUME TypeOK, OneOwner, NEW o \in Objects, Disconnect(o), ~torn'
  PROVE  OneOwner'
<1> DEFINE ob == objects[o]
           stmts == IF overriding THEN ob.stmts ELSE ClearedStatements(ob)
           new == Disconnected(ob, stmts)
<1>1. ob \in Object
  BY DEF TypeOK
<1>2. stmts = NoStmts
  BY NoneWithoutConn DEF Disconnect, ClearedStatements
<1>3. new.connected = FALSE /\ new.handle = NoConn /\ new.stmts = NoStmts
  BY <1>1, <1>2 DEF Disconnected, Object
<1>4. objects' = [objects EXCEPT ![o] = new]
  BY DEF Disconnect
<1> HIDE DEF new
<1>5. \A x \in Objects : objects'[x].stmts = IF x = o THEN NoStmts ELSE objects[x].stmts
  BY <1>3, <1>4 DEF TypeOK
<1>6. CloseIfAny(objects[o].handle, objects')
  BY DEF Disconnect
<1>7. conns' = IF objects[o].handle = NoConn THEN conns
               ELSE [conns EXCEPT ![objects[o].handle] = "closed"]
  BY <1>5, <1>6, CloseOwned
<1> QED
  BY <1>3, <1>4, <1>7, Release

LEMMA DestroyOwned ==
  ASSUME TypeOK, OneOwner, NEW o \in Objects, Destroy(o)
  PROVE  OneOwner'
<1> DEFINE obs == [objects EXCEPT ![o].stmts = ClearedStatements(objects[o])]
<1>1. ClearedStatements(objects[o]) = NoStmts
  BY NoneWithoutConn DEF ClearedStatements
<1>2. \A x \in Objects : obs[x].stmts = IF x = o THEN NoStmts ELSE objects[x].stmts
  BY <1>1 DEF TypeOK, Object
<1>3. CloseIfAny(objects[o].handle, obs)
  BY DEF Destroy
<1>4. objects' = [objects EXCEPT ![o] = Absent]
  BY DEF Destroy
<1>5. Absent.connected = FALSE /\ Absent.handle = NoConn /\ Absent.stmts = NoStmts
  BY DEF Absent
<1> HIDE DEF obs
<1> QED
  BY <1>2, <1>3, <1>4, <1>5, CloseOwned, Release

LEMMA PrepareOwned ==
  ASSUME TypeOK, OneOwner, NEW o \in Objects, NEW n \in Names, NEW q \in Queries,
         PrepareSTMT(o, n, q)
  PROVE  OneOwner'
<1> DEFINE c == objects[o].handle
<1>1. c \in Conns /\ conns[c] = "open"
  BY DEF PrepareSTMT, OneOwner, TypeOK, Object
<1>2. conns' = conns
  BY <1>1, UsedOpen DEF PrepareSTMT
<1>3. PICK accepted : objects' = [objects EXCEPT ![o].stmts =
                                    Emplaced(@, n, Created(c, q, accepted))]
  BY DEF PrepareSTMT
<1> DEFINE new == Emplaced(objects[o].stmts, n, Created(c, q, accepted))
<1>4. \A m \in Names : new[m] # NoStmt => new[m].conn = c
  BY DEF Emplaced, Created, OneOwner, TypeOK, Object
<1>5. \A x \in Objects :
        /\ objects'[x].connected = objects[x].connected
        /\ objects'[x].live = objects[x].live
        /\ objects'[x].handle = objects[x].handle
        /\ objects'[x].stmts = IF x = o THEN new ELSE objects[x].stmts
  BY <1>3 DEF TypeOK, Object
<1> HIDE DEF new
<1> QED
  BY <1>2, <1>4, <1>5 DEF OneOwner

LEMMA UseOwned ==
  ASSUME TypeOK, OneOwner, NEW o \in Objects,
         Query(o) \/ \E n \in Names : ExecuteSTMT(o, n)
  PROVE  OneOwner'
<1>1. conns' = conns
  <2>1. CASE Query(o)
    BY <2>1, UsedOpen DEF Query, OneOwner, TypeOK, Object
  <2>2. ASSUME NEW n \in Names, ExecuteSTMT(o, n) PROVE conns' = conns
    <3>1. objects[o].stmts[n].conn \in Conns /\ objects[o].stmts[n].conn = objects[o].handle
      BY <2>2, NullFacts DEF ExecuteSTMT, OneOwner, TypeOK, Object, Stmt
    <3>2. conns[objects[o].stmts[n].conn] = "open"
      BY <3>1, NullFacts DEF OneOwner
    <3> QED
      BY <2>2, <3>1, <3>2, UsedOpen DEF ExecuteSTMT
  <2> QED
    BY <2>1, <2>2
<1>2. objects' = objects
  BY DEF Query, ExecuteSTMT
<1> QED
  BY <1>1, <1>2 DEF OneOwner

\* Objects that are not connected have nothing to move.
LEMMA MoveOwned ==
  ASSUME TypeOK, OneOwner, NEW o \in Objects, NEW p \in Objects,
         Moved(o, p), conns' = conns, ~torn'
  PROVE  OneOwner'
<1>1. ~objects[o].connected /\ ~objects[p].connected
  BY DEF Moved
<1>2. /\ objects[o].handle = NoConn /\ objects[p].handle = NoConn
      /\ objects[o].stmts = NoStmts
  BY <1>1, NoneWithoutConn DEF OneOwner
<1>3. objects[o] \in Object /\ objects \in [Objects -> Object]
  BY DEF TypeOK
<1>4. \A x \in Objects :
        \/ objects'[x] = objects[x]
        \/ /\ ~objects'[x].connected
           /\ objects'[x].handle = NoConn
           /\ objects'[x].stmts = NoStmts
  BY <1>1, <1>2, <1>3 DEF Moved, Object
<1>5. \A x \in Objects : objects'[x].handle = objects[x].handle
  BY <1>2, <1>3 DEF Moved, Object
<1> QED
  BY <1>4, <1>5 DEF OneOwner, NoStmts

LEMMA OwnedStep == TypeOK /\ Owned /\ [Next]_vars => Owned'
<1> SUFFICES ASSUME TypeOK, Owned, [Next]_vars, ~torn' PROVE OneOwner'
  BY DEF Owned
<1>1. ~torn
  BY DEF Next, vars, Construct, Connect, Disconnect, Destroy, PrepareSTMT, ExecuteSTMT,
         Query, MoveConstruct, MoveAssign, Moved, TypeOK
<1>2. OneOwner
  BY <1>1 DEF Owned
<1>3. CASE UNCHANGED vars
  BY <1>2, <1>3 DEF vars, OneOwner
<1>4. CASE Next
  BY <1>2, <1>4, ConstructOwned, ConnectOwned, DisconnectOwned, DestroyOwned, PrepareOwned,
     UseOwned, MoveOwned DEF Next, MoveConstruct, MoveAssign
<1> QED
  BY <1>3, <1>4

LEMMA AlwaysOwned == Spec => [](TypeOK /\ Owned)
<1>1. Init => Owned
  BY OwnedInit DEF Owned
<1> QED
  BY <1>1, TypeInit, TypeStep, OwnedStep, PTL DEF Spec

\* No statement outlives its connection, as long as no connected object is moved
\* or assigned over and no overriding hook leaves the registry.
THEOREM StatementsDieWithConnection == Spec => []StatementsLive
<1>1. TypeOK /\ Owned => StatementsLive
  <2> SUFFICES ASSUME TypeOK, OneOwner, NEW o \in Objects, NEW n \in Names,
                      objects[o].stmts[n] # NoStmt
               PROVE  /\ objects[o].stmts[n].conn = objects[o].handle
                      /\ conns[objects[o].stmts[n].conn] = "open"
    BY DEF StatementsLive, Owned
  <2>1. objects[o].stmts[n].conn \in Conns
    BY DEF TypeOK, Object, Stmt
  <2> QED
    BY <2>1, NullFacts DEF OneOwner
<1> QED
  BY <1>1, AlwaysOwned, PTL

\* Under the same condition connections are neither leaked, nor shared, nor
\* closed twice, nor used after they were closed.
THEOREM ConnectionsHaveOneOwner == Spec => []EveryConnectionHasOneOwner
<1>1. TypeOK /\ Owned => EveryConnectionHasOneOwner
  <2> SUFFICES ASSUME TypeOK, OneOwner, ~torn PROVE EveryConnectionHasOneOwner
    BY DEF Owned, EveryConnectionHasOneOwner
  <2>1. ASSUME NEW c \in Conns, conns[c] = "open"
        PROVE  \E o \in Objects : Holders(c) = {o} /\ objects[o].connected
    <3>1. PICK o \in Objects : objects[o].handle = c
      BY <2>1 DEF OneOwner
    <3>2. objects[o].live /\ objects[o].connected
      BY <3>1, NullFacts DEF OneOwner
    <3>3. \A p \in Objects : objects[p].handle = c => p = o
      BY <3>1, NullFacts DEF OneOwner
    <3> QED
      BY <3>1, <3>2, <3>3 DEF Holders
  <2>2. ASSUME NEW c \in Conns, conns[c] # "open"
        PROVE  Holders(c) = {}
    BY <2>2, NullFacts DEF OneOwner, Holders
  <2> QED
    BY <2>1, <2>2 DEF OneOwner, EveryConnectionHasOneOwner
<1> QED
  BY <1>1, AlwaysOwned, PTL

-----------------------------------------------------------------------------
(* The registry and the server.                                            *)

\* The parts of ServerAgrees, and that a connection starts with no names.
Usable ==
  backend # "mariadb" =>
    \A o \in Objects, n \in Names : objects[o].stmts[n] # NoStmt => objects[o].stmts[n].usable

NamesAgree ==
  /\ \A c \in Conns : conns[c] = "fresh" => prepared[c] = [n \in Names |-> NoQuery]
  /\ \A o \in Objects, n \in Names :
       objects[o].handle # NoConn =>
         prepared[objects[o].handle][n] = IF objects[o].stmts[n] = NoStmt THEN NoQuery
                                          ELSE objects[o].stmts[n].query

ServerKnows == backend = "postgres" /\ ~torn => NamesAgree

\* What PrepareSTMT of an owned connection does, to its object and its server.
LEMMA PrepareEffect ==
  ASSUME TypeOK, NEW o \in Objects, NEW n \in Names, NEW q \in Queries, PrepareSTMT(o, n, q)
  PROVE  \E accepted \in Acceptable(n, objects[o].handle) :
           LET c == objects[o].handle
               s == Created(c, q, accepted)
           IN /\ c \in Conns
              /\ \A x \in Objects : objects'[x].handle = objects[x].handle
              /\ \A x \in Objects, m \in Names :
                   objects'[x].stmts[m] =
                     IF x = o /\ m = n /\ objects[o].stmts[n] = NoStmt THEN s
                     ELSE objects[x].stmts[m]
              /\ prepared' = IF accepted /\ backend = "postgres"
                             THEN [prepared EXCEPT ![c][n] = q] ELSE prepared
<1> DEFINE c == objects[o].handle
<1>1. c \in Conns
  BY DEF PrepareSTMT, TypeOK, Object
<1>2. PICK accepted \in Acceptable(n, c) :
        /\ objects' = [objects EXCEPT ![o].stmts = Emplaced(@, n, Created(c, q, accepted))]
        /\ prepared' = IF accepted /\ backend = "postgres"
                       THEN [prepared EXCEPT ![c][n] = q] ELSE prepared
  BY DEF PrepareSTMT
<1>3. \A x \in Objects : objects'[x].handle = objects[x].handle
  BY <1>2 DEF TypeOK, Object
<1>4. \A x \in Objects :
        objects'[x].stmts = IF x = o
                            THEN Emplaced(objects[o].stmts, n, Created(c, q, accepted))
                            ELSE objects[x].stmts
  BY <1>2 DEF TypeOK, Object
<1>5. objects[o].stmts \in [Names -> Stmt \cup {NoStmt}]
  BY DEF TypeOK, Object
<1>6. \A x \in Objects, m \in Names :
        objects'[x].stmts[m] = IF x = o /\ m = n /\ objects[o].stmts[n] = NoStmt
                               THEN Created(c, q, accepted)
                               ELSE objects[x].stmts[m]
  BY <1>4, <1>5 DEF Emplaced
<1> QED
  BY <1>1, <1>2, <1>3, <1>6

\* Preparing keeps what is registered.
LEMMA PrepareKeeps ==
  ASSUME TypeOK, NEW p \in Objects, NEW m \in Names, NEW q \in Queries, PrepareSTMT(p, m, q),
         NEW o \in Objects, NEW n \in Names, objects[o].stmts[n] # NoStmt
  PROVE  objects'[o].stmts[n] = objects[o].stmts[n]
<1>1. PICK accepted \in Acceptable(m, objects[p].handle) :
        \A y \in Objects, k \in Names :
          objects'[y].stmts[k] = IF y = p /\ k = m /\ objects[p].stmts[m] = NoStmt
                                 THEN Created(objects[p].handle, q, accepted)
                                 ELSE objects[y].stmts[k]
  BY PrepareEffect
<1>2. objects'[o].stmts[n] = IF o = p /\ n = m /\ objects[p].stmts[m] = NoStmt
                             THEN Created(objects[p].handle, q, accepted)
                             ELSE objects[o].stmts[n]
  BY <1>1
<1> QED
  BY <1>2

\* What the other operations do to the objects, field by field.
LEMMA LetGoEffect ==
  ASSUME TypeOK, NEW p \in Objects, Construct(p) \/ Destroy(p) \/ Disconnect(p), NEW o \in Objects
  PROVE  /\ o # p => objects'[o] = objects[o]
         /\ objects'[p].handle = NoConn
         /\ objects'[p].stmts \in {NoStmts, objects[p].stmts}
<1>1. objects \in [Objects -> Object] /\ objects[p] \in Object
  BY DEF TypeOK
<1>2. CASE Construct(p)
  BY <1>1, <1>2 DEF Construct, Absent
<1>3. CASE Destroy(p)
  BY <1>1, <1>3 DEF Destroy, Absent
<1>4. CASE Disconnect(p)
  <2>1. PICK stmts \in {NoStmts, objects[p].stmts} :
          objects' = [objects EXCEPT ![p] = Disconnected(objects[p], stmts)]
    BY <1>4 DEF Disconnect, ClearedStatements
  <2> QED
    BY <1>1, <2>1 DEF Disconnected, Object
<1> QED
  BY <1>2, <1>3, <1>4

LEMMA ConnectEffect ==
  ASSUME TypeOK, NEW p \in Objects, NEW c \in Conns, Connect(p, c), NEW o \in Objects
  PROVE  /\ o # p => objects'[o] = objects[o]
         /\ objects'[p].handle \in {c, NoConn}
         /\ objects'[p].stmts = objects[p].stmts
<1>1. objects \in [Objects -> Object] /\ objects[p] \in Object
  BY DEF TypeOK
<1>2. CASE Established(p, c)
  <2>1. objects' = [objects EXCEPT ![p] = [@ EXCEPT !.connected = TRUE, !.handle = c]]
    BY <1>2 DEF Established
  <2> QED
    BY <1>1, <2>1 DEF Object
<1>3. CASE Failed(p, c)
  BY <1>1, <1>3 DEF Failed, Object
<1> QED
  BY <1>2, <1>3 DEF Connect

LEMMA MovedEffect ==
  ASSUME TypeOK, NEW p \in Objects, NEW x \in Objects, Moved(p, x), NEW o \in Objects
  PROVE  objects'[o].stmts \in {NoStmts, objects[o].stmts, objects[p].stmts}
<1>1. objects \in [Objects -> Object] /\ objects[o] \in Object /\ objects[p] \in Object
  BY DEF TypeOK
<1>2. objects' = [[objects EXCEPT ![x] = objects[p]] EXCEPT ![p] = [@ EXCEPT !.stmts = NoStmts]]
  BY DEF Moved
<1> QED
  BY <1>1, <1>2 DEF Object

LEMMA UsableStep == TypeOK /\ Usable /\ [Next]_vars => Usable'
<1> SUFFICES ASSUME TypeOK, Usable, [Next]_vars, backend' # "mariadb",
                    NEW o \in Objects, NEW n \in Names, objects'[o].stmts[n] # NoStmt
             PROVE  objects'[o].stmts[n].usable
  BY DEF Usable
<1>1. backend' = backend
  BY DEF Next, vars, class, Construct, Connect, Disconnect, Destroy, PrepareSTMT, ExecuteSTMT,
         Query, MoveConstruct, MoveAssign
<1>2. \A p \in Objects : objects[p].stmts[n] # NoStmt => objects[p].stmts[n].usable
  BY <1>1 DEF Usable
<1>3. ASSUME NEW p \in Objects, objects'[o].stmts \in {NoStmts, objects[o].stmts, objects[p].stmts}
      PROVE  objects'[o].stmts[n].usable
  BY <1>2, <1>3 DEF NoStmts
<1>4. ASSUME NEW x \in Objects, NEW m \in Names, NEW q \in Queries, PrepareSTMT(x, m, q)
      PROVE  objects'[o].stmts[n].usable
  <2>0. PICK accepted \in Acceptable(m, objects[x].handle) :
          \A y \in Objects, k \in Names :
            objects'[y].stmts[k] = IF y = x /\ k = m /\ objects[x].stmts[m] = NoStmt
                                   THEN Created(objects[x].handle, q, accepted)
                                   ELSE objects[y].stmts[k]
    BY <1>4, PrepareEffect
  <2>1. objects'[o].stmts[n] = IF o = x /\ n = m /\ objects[x].stmts[m] = NoStmt
                               THEN Created(objects[x].handle, q, accepted)
                               ELSE objects[o].stmts[n]
    BY <2>0
  <2>2. Created(objects[x].handle, q, accepted) # NoStmt =>
          Created(objects[x].handle, q, accepted).usable
    BY <1>1 DEF Created
  <2> QED
    BY <1>2, <2>1, <2>2
<1>5. ASSUME NEW p \in Objects, Construct(p) \/ Destroy(p) \/ Disconnect(p)
      PROVE  objects'[o].stmts[n].usable
  BY <1>3, <1>5, LetGoEffect
<1>6. ASSUME NEW p \in Objects, NEW c \in Conns, Connect(p, c)
      PROVE  objects'[o].stmts[n].usable
  BY <1>3, <1>6, ConnectEffect
<1>7. ASSUME NEW p \in Objects, NEW x \in Objects, Moved(p, x)
      PROVE  objects'[o].stmts[n].usable
  BY <1>3, <1>7, MovedEffect
<1>8. CASE objects' = objects
  BY <1>3, <1>8
<1> QED
  BY <1>4, <1>5, <1>6, <1>7, <1>8 DEF Next, vars, ExecuteSTMT, Query, MoveConstruct, MoveAssign

\* A step that registers nothing, seen from the servers.
Quiet ==
  /\ prepared' = prepared
  /\ \A x \in Objects : objects'[x].handle # NoConn =>
       /\ objects'[x].stmts = objects[x].stmts
       /\ objects'[x].handle \in Conns
       /\ \/ objects'[x].handle = objects[x].handle
          \/ objects[x].handle = NoConn /\ conns[objects'[x].handle] = "fresh"
  /\ \A d \in Conns : conns'[d] = "fresh" => conns[d] = "fresh"

LEMMA QuietNames ==
  ASSUME TypeOK, OneOwner, NamesAgree, Quiet
  PROVE  NamesAgree'
<1> SUFFICES ASSUME NEW o \in Objects, NEW n \in Names, objects'[o].handle # NoConn
             PROVE  prepared'[objects'[o].handle][n] =
                      IF objects'[o].stmts[n] = NoStmt THEN NoQuery ELSE objects'[o].stmts[n].query
  BY DEF Quiet, NamesAgree
<1>1. CASE objects'[o].handle = objects[o].handle
  BY <1>1 DEF Quiet, NamesAgree
<1>2. CASE objects[o].handle = NoConn /\ conns[objects'[o].handle] = "fresh"
  <2>1. objects'[o].stmts = NoStmts
    BY <1>2, NoneWithoutConn DEF Quiet
  <2>2. prepared[objects'[o].handle][n] = NoQuery
    BY <1>2 DEF Quiet, NamesAgree
  <2> QED
    BY <2>1, <2>2 DEF Quiet, NoStmts
<1> QED
  BY <1>1, <1>2 DEF Quiet

LEMMA PrepareNames ==
  ASSUME TypeOK, OneOwner, NamesAgree, backend = "postgres",
         NEW o \in Objects, NEW n \in Names, NEW q \in Queries, PrepareSTMT(o, n, q)
  PROVE  NamesAgree'
<1> DEFINE c == objects[o].handle
           s(accepted) == Created(c, q, accepted)
<1>0. objects \in [Objects -> Object] /\ conns \in [Conns -> ConnStates]
      /\ prepared \in [Conns -> [Names -> Queries \cup {NoQuery}]]
  BY DEF TypeOK
<1>1. PICK accepted \in Acceptable(n, c) :
         /\ c \in Conns
         /\ \A x \in Objects : objects'[x].handle = objects[x].handle
         /\ \A x \in Objects, m \in Names :
              objects'[x].stmts[m] =
                IF x = o /\ m = n /\ objects[o].stmts[n] = NoStmt
                THEN s(accepted) ELSE objects[x].stmts[m]
         /\ prepared' = IF accepted /\ backend = "postgres"
                        THEN [prepared EXCEPT ![c][n] = q] ELSE prepared
  BY PrepareEffect
<1>2. c # NoConn /\ accepted \in BOOLEAN
  BY <1>1, NullFacts DEF Acceptable
<1>3. conns[c] = "open" /\ conns' = conns
  BY <1>1, <1>2, UsedOpen DEF OneOwner, PrepareSTMT
<1>4. \A d \in Conns, m \in Names :
        prepared'[d][m] = IF accepted /\ d = c /\ m = n THEN q ELSE prepared[d][m]
  BY <1>0, <1>1
<1>5. accepted => objects[o].stmts[n] = NoStmt
  <2> SUFFICES ASSUME accepted, objects[o].stmts[n] # NoStmt PROVE FALSE
    OBVIOUS
  <2>1. prepared[c][n] = NoQuery
    BY <1>1 DEF Acceptable
  <2>2. objects[o].stmts[n] \in Stmt
    BY <1>0 DEF Object
  <2>3. prepared[c][n] = objects[o].stmts[n].query
    BY <1>2 DEF NamesAgree
  <2> QED
    BY <2>1, <2>2, <2>3, NullFacts DEF Stmt
<1>6. s(accepted) = IF accepted THEN [conn |-> c, query |-> q, usable |-> TRUE] ELSE NoStmt
  BY <1>2 DEF Created
<1>7. [conn |-> c, query |-> q, usable |-> TRUE] # NoStmt
  <2>1. c \in Conns
    BY <1>1
  <2> HIDE DEF c
  <2>2. [conn |-> c, query |-> q, usable |-> TRUE] \in Stmt
    BY <2>1 DEF Stmt
  <2> QED
    BY <2>2, NullFacts
<1>8. ASSUME NEW x \in Objects, NEW m \in Names, objects'[x].handle # NoConn
      PROVE  prepared'[objects'[x].handle][m] =
               IF objects'[x].stmts[m] = NoStmt THEN NoQuery ELSE objects'[x].stmts[m].query
  <2>1. objects[x].handle \in Conns /\ objects[x].handle # NoConn
    BY <1>0, <1>1, <1>8 DEF Object
  <2>2. prepared[objects[x].handle][m] =
          IF objects[x].stmts[m] = NoStmt THEN NoQuery ELSE objects[x].stmts[m].query
    BY <2>1 DEF NamesAgree
  <2>3. CASE accepted /\ x = o /\ m = n
    BY <1>1, <1>4, <1>5, <1>6, <1>7, <2>3
  <2>4. CASE ~(accepted /\ x = o /\ m = n)
    <3>1. prepared'[objects'[x].handle][m] = prepared[objects[x].handle][m]
      BY <1>1, <1>2, <1>4, <2>1, <2>4 DEF OneOwner
    <3>2. objects'[x].stmts[m] = objects[x].stmts[m]
      BY <1>1, <1>2, <1>6, <2>4
    <3> QED
      BY <2>2, <3>1, <3>2
  <2> QED
    BY <2>3, <2>4
<1>9. ASSUME NEW d \in Conns, conns'[d] = "fresh"
      PROVE  prepared'[d] = [m \in Names |-> NoQuery]
  <2>1. d # c /\ conns[d] = "fresh"
    BY <1>3, <1>9
  <2>2. prepared'[d] = prepared[d]
    BY <1>0, <1>1, <2>1
  <2> QED
    BY <2>1, <2>2 DEF NamesAgree
<1> QED
  BY <1>8, <1>9 DEF NamesAgree


\* An object that is, or becomes, one without a connection may be left out of
\* Quiet, and so may one that nothing happens to.
LEMMA QuietLetGo ==
  ASSUME TypeOK, OneOwner, NEW p \in Objects, Construct(p) \/ Destroy(p) \/ Disconnect(p)
  PROVE  Quiet
<1>1. \A x \in Objects : x # p => objects'[x] = objects[x]
  BY LetGoEffect
<1>2. objects'[p].handle = NoConn
  BY LetGoEffect
<1>3. prepared' = prepared
  BY DEF Construct, Destroy, Disconnect
<1>4. \A x \in Objects : objects[x] \in Object /\ objects[x].handle \in Conns \cup {NoConn}
  BY DEF TypeOK, Object
<1>5. \A d \in Conns : conns'[d] = "fresh" => conns[d] = "fresh"
  <2>1. CASE conns' = conns
    BY <2>1
  <2>2. CASE \E obs : Close(objects[p].handle, obs) /\ objects[p].handle # NoConn
    <3>1. objects[p].handle \in Conns /\ conns[objects[p].handle] = "open"
      BY <1>4, <2>2 DEF OneOwner
    <3>2. PICK state \in {"busy", "closed", "open"} :
            conns' = [conns EXCEPT ![objects[p].handle] = state]
      BY <2>2, <3>1 DEF Close, Used
    <3> QED
      BY <3>1, <3>2 DEF TypeOK
  <2> QED
    BY <2>1, <2>2 DEF Construct, Destroy, Disconnect, CloseIfAny
<1> QED
  BY <1>1, <1>2, <1>3, <1>4, <1>5 DEF Quiet

LEMMA QuietConnect ==
  ASSUME TypeOK, OneOwner, NEW p \in Objects, NEW c \in Conns, Connect(p, c)
  PROVE  Quiet
<1>1. \A x \in Objects : x # p => objects'[x] = objects[x]
  BY ConnectEffect
<1>2. objects'[p].handle \in {c, NoConn} /\ objects'[p].stmts = objects[p].stmts
  BY ConnectEffect
<1>3. objects[p].handle = NoConn /\ conns[c] = "fresh" /\ prepared' = prepared
  BY DEF Connect, OneOwner
<1>4. \A x \in Objects : objects[x].handle \in Conns \cup {NoConn}
  BY DEF TypeOK, Object
<1>5. \A d \in Conns : conns'[d] = "fresh" => conns[d] = "fresh"
  BY <1>3 DEF Connect, Established, Failed, TypeOK
<1> QED
  BY <1>1, <1>2, <1>3, <1>4, <1>5 DEF Quiet

\* Only objects without a connection are moved as long as nothing is torn.
LEMMA QuietMove ==
  ASSUME TypeOK, OneOwner, ~torn', NEW p \in Objects, NEW x \in Objects,
         MoveConstruct(p, x) \/ MoveAssign(p, x)
  PROVE  Quiet
<1>1. objects[p].handle = NoConn /\ objects[x].handle = NoConn
  BY DEF MoveConstruct, MoveAssign, Moved, OneOwner
<1>2. \A y \in Objects : objects[y] \in Object /\ objects[y].handle \in Conns \cup {NoConn}
  BY DEF TypeOK, Object
<1>3. objects' = [[objects EXCEPT ![x] = objects[p]] EXCEPT ![p] = [@ EXCEPT !.stmts = NoStmts]]
      /\ prepared' = prepared /\ conns' = conns
  BY DEF MoveConstruct, MoveAssign, Moved
<1>4. objects'[p].handle = NoConn /\ objects'[x].handle = NoConn
      /\ \A y \in Objects : y # p /\ y # x => objects'[y] = objects[y]
  BY <1>1, <1>2, <1>3 DEF TypeOK, Object
<1> QED
  BY <1>2, <1>3, <1>4 DEF Quiet

LEMMA QuietUse ==
  ASSUME TypeOK, OneOwner, NEW o \in Objects,
         Query(o) \/ (\E n \in Names : ExecuteSTMT(o, n)) \/ UNCHANGED vars
  PROVE  Quiet
<1>1. prepared' = prepared /\ objects' = objects
  BY DEF Query, ExecuteSTMT, vars
<1>2. \A y \in Objects : objects[y].handle \in Conns \cup {NoConn}
  BY DEF TypeOK, Object
<1>3. conns' = conns
  <2>1. CASE Query(o)
    BY <1>2, <2>1, UsedOpen DEF Query, OneOwner
  <2>2. ASSUME NEW n \in Names, ExecuteSTMT(o, n) PROVE conns' = conns
    <3>1. objects[o].stmts[n] # NoStmt /\ objects[o].stmts[n].conn = objects[o].handle
      BY <2>2 DEF ExecuteSTMT, OneOwner
    <3>2. objects[o].stmts[n].conn \in Conns
      BY <3>1 DEF TypeOK, Object, Stmt
    <3>3. conns[objects[o].stmts[n].conn] = "open"
      BY <3>1, <3>2, NullFacts DEF OneOwner
    <3> QED
      BY <2>2, <3>2, <3>3, UsedOpen DEF ExecuteSTMT
  <2>3. CASE UNCHANGED vars
    BY <2>3 DEF vars
  <2> QED
    BY <2>1, <2>2, <2>3
<1> QED
  BY <1>1, <1>2, <1>3 DEF Quiet

\* As long as nothing is torn, a step prepares a statement or is quiet.
LEMMA PreparesOrQuiet ==
  ASSUME TypeOK, OneOwner, ~torn', [Next]_vars, NEW y \in Objects
  PROVE  \/ \E o \in Objects, n \in Names, q \in Queries : PrepareSTMT(o, n, q)
         \/ Quiet
<1>1. CASE UNCHANGED vars
  BY <1>1, QuietUse
<1>2. CASE Next
  BY <1>2, QuietLetGo, QuietConnect, QuietMove, QuietUse DEF Next
<1> QED
  BY <1>1, <1>2

LEMMA NamesStep == TypeOK /\ Owned /\ ServerKnows /\ [Next]_vars => ServerKnows'
<1> SUFFICES ASSUME TypeOK, Owned, ServerKnows, [Next]_vars, backend' = "postgres", ~torn'
             PROVE  NamesAgree'
  BY DEF ServerKnows
<1>1. backend = "postgres"
  BY DEF Next, vars, class, Construct, Connect, Disconnect, Destroy, PrepareSTMT, ExecuteSTMT,
         Query, MoveConstruct, MoveAssign
<1>2. ~torn
  BY DEF Next, vars, Construct, Connect, Disconnect, Destroy, PrepareSTMT, ExecuteSTMT,
         Query, MoveConstruct, MoveAssign, Moved, TypeOK
<1>3. OneOwner /\ NamesAgree
  BY <1>1, <1>2 DEF Owned, ServerKnows
<1>4. CASE \E o \in Objects, n \in Names, q \in Queries : PrepareSTMT(o, n, q)
  BY <1>1, <1>3, <1>4, PrepareNames
<1>5. CASE Quiet
  BY <1>3, <1>5, QuietNames
<1>6. CASE Objects = {}
  BY <1>3, <1>6 DEF Next, vars, NamesAgree
<1> QED
  BY <1>3, <1>4, <1>5, <1>6, PreparesOrQuiet

\* A registered name can be executed, but for MariaDB's, and PostgreSQL's own
\* table of names agrees with the registry as long as nothing is torn: preparing
\* under a name the registry has is refused by the server and changes neither.
THEOREM ServerKnowsRegistered == Spec => []ServerAgrees
<1>1. Init => Usable /\ ServerKnows
  <2> SUFFICES ASSUME Init PROVE Usable /\ NamesAgree
    BY DEF ServerKnows
  <2>1. \A o \in Objects : objects[o].handle = NoConn
                           /\ \A n \in Names : objects[o].stmts[n] = NoStmt
    BY DEF Init, Absent, NoStmts
  <2>2. \A c \in Conns : prepared[c] = [n \in Names |-> NoQuery]
    BY DEF Init
  <2> QED
    BY <2>1, <2>2 DEF Usable, NamesAgree
<1>2. Spec => [](TypeOK /\ Owned /\ Usable /\ ServerKnows)
  <2>1. TypeOK /\ Owned /\ Usable /\ ServerKnows /\ [Next]_vars =>
          (Usable /\ ServerKnows)'
    BY UsableStep, NamesStep
  <2> QED
    BY <1>1, <2>1, AlwaysOwned, PTL DEF Spec
<1>3. Usable /\ ServerKnows => ServerAgrees
  BY DEF Usable, ServerKnows, NamesAgree, ServerAgrees
<1> QED
  BY <1>2, <1>3, PTL

\* A name keeps the statement first registered under it while the object keeps
\* its connection, whatever else is prepared.
THEOREM FirstStatementStays == Spec => FirstRegistrationWins
<1> DEFINE Kept(o, n) == /\ objects[o].stmts[n] # NoStmt
                         /\ objects'[o].handle = objects[o].handle
                         /\ ~torn'
                         => objects'[o].stmts[n] = objects[o].stmts[n]
<1>1. ASSUME TypeOK, Owned, [Next]_vars, NEW o \in Objects, NEW n \in Names
      PROVE  Kept(o, n)
  <2> SUFFICES ASSUME objects[o].stmts[n] # NoStmt, objects'[o].handle = objects[o].handle,
                      ~torn'
               PROVE  objects'[o].stmts[n] = objects[o].stmts[n]
    OBVIOUS
  <2>1. ~torn
    BY <1>1 DEF Next, vars, Construct, Connect, Disconnect, Destroy, PrepareSTMT, ExecuteSTMT,
           Query, MoveConstruct, MoveAssign, Moved, TypeOK
  <2>2. OneOwner
    BY <1>1, <2>1 DEF Owned
  <2>3. objects[o].handle # NoConn
    BY <1>1, <2>2, NoneWithoutConn DEF NoStmts
  <2>4. CASE Quiet
    BY <2>3, <2>4 DEF Quiet
  <2>5. ASSUME NEW p \in Objects, NEW m \in Names, NEW q \in Queries, PrepareSTMT(p, m, q)
        PROVE  objects'[o].stmts[n] = objects[o].stmts[n]
    BY <1>1, <2>5, PrepareKeeps
  <2> QED
    BY <1>1, <2>2, <2>4, <2>5, PreparesOrQuiet
<1>2. TypeOK /\ Owned /\ [Next]_vars =>
        [\A o \in Objects : \A n \in Names : Kept(o, n)]_vars
  BY <1>1
<1> QED
  BY <1>2, AlwaysOwned, PTL DEF Spec, FirstRegistrationWins

=============================================================================
