--------------------------- MODULE Transaction_proofs ---------------------------
(***************************************************************************)
(* Theorems about Transaction for every set of handles, units, writes,     *)
(* backends and levels: first those that hold whatever the faults and the  *)
(* liberties, then, down to the refinement of TransactionPromise, those    *)
(* of an application that takes no liberties and an engine whose faults    *)
(* are the ones each theorem names.                                        *)
(***************************************************************************)
EXTENDS TransactionRefinement, TLAPS

USE DEF Levels, Backends, Modes

(***************************************************************************)
(* Types.  Every answer of the engine is an outcome.                       *)
(***************************************************************************)

\* Wrapping the usual answers with a lost connection keeps them outcomes.
LEMMA AnswersType ==
    ASSUME NEW b, NEW s \in Session, NEW usual \in SUBSET Outcome
    PROVE  Answers(b, s, usual) \in SUBSET Outcome
<1>1. Blank("lost") \in Session
  BY DEF Blank, Session
<1>2. ASSUME NEW t \in Session
      PROVE  Refused(t) \in Outcome
  BY DEF Refused, Outcome
<1>3. {Refused(s)} \in SUBSET Outcome /\ {Refused(Blank("lost"))} \in SUBSET Outcome
  BY <1>1, <1>2
<1>4. When(CanDrop(b), {Refused(Blank("lost"))}) \in SUBSET Outcome
  BY <1>3 DEF When
<1>5. usual \cup When(CanDrop(b), {Refused(Blank("lost"))}) \in SUBSET Outcome
  BY <1>4
<1> QED
  BY <1>3, <1>5 DEF Answers

LEMMA SetTransactionType ==
    ASSUME NEW b, NEW s \in Session, NEW l \in Levels
    PROVE  SetTransaction(b, s, l) \in SUBSET Outcome
<1> DEFINE usual == IF s.mode = "idle"
                    THEN {Accepted([s EXCEPT !.next = l], {})}
                    ELSE {Refused(s)}
<1>1. usual \in SUBSET Outcome
  BY DEF Accepted, Refused, Outcome, Session
<1> QED
  BY <1>1, AnswersType DEF SetTransaction

LEMMA SQLiteBeginType ==
    ASSUME NEW s \in Session, NEW locking
    PROVE  SQLiteBegin(s, locking) \in SUBSET Outcome
<1>1. Opened(s, "Serializable") \in Session
  BY DEF Opened, Session
<1>2. ASSUME NEW t \in Session
      PROVE  Accepted(t, {}) \in Outcome /\ Refused(t) \in Outcome
  BY DEF Accepted, Refused, Outcome
<1> QED
  BY <1>1, <1>2 DEF SQLiteBegin, When

LEMMA PostgresBeginType ==
    ASSUME NEW s \in Session, NEW l \in Levels
    PROVE  PostgresBegin(s, l) \in SUBSET Outcome
<1>1. Opened(s, l) \in Session /\ [s EXCEPT !.mode = "failed", !.pending = {}] \in Session
  BY DEF Opened, Session
<1>2. ASSUME NEW t \in Session
      PROVE  Accepted(t, {}) \in Outcome /\ Refused(t) \in Outcome
  BY DEF Accepted, Refused, Outcome
<1> QED
  BY <1>1, <1>2 DEF PostgresBegin, When

LEMMA MariaDBBeginType ==
    ASSUME NEW s \in Session
    PROVE  MariaDBBegin(s) \in SUBSET Outcome
  BY DEF MariaDBBegin, Accepted, Outcome, Session

LEMMA CommitStatementType ==
    ASSUME NEW b, NEW s \in Session
    PROVE  CommitStatement(b, s) \in SUBSET Outcome
<1>1. Ended(s) \in Session /\ Blank("lost") \in Session
  BY DEF Ended, Blank, Session
<1>2. s.pending \in SUBSET Writes
  BY DEF Session
<1>3. [Accepted(s, {}) EXCEPT !.ok = b # "sqlite"] \in Outcome
  BY DEF Accepted, Outcome
<1>4. [Refused(Blank("lost")) EXCEPT !.saved = s.pending] \in Outcome
  BY <1>1, <1>2 DEF Refused, Outcome
<1>5. Accepted(Ended(s), {}) \in Outcome /\ Accepted(Ended(s), s.pending) \in Outcome
  BY <1>1, <1>2 DEF Accepted, Outcome
<1>6. Refused(IF b = "sqlite" THEN s ELSE Ended(s)) \in Outcome
  BY <1>1 DEF Refused, Outcome
<1> QED
  BY <1>3, <1>4, <1>5, <1>6, AnswersType DEF CommitStatement, When

LEMMA RollbackStatementType ==
    ASSUME NEW b, NEW s \in Session
    PROVE  RollbackStatement(b, s) \in SUBSET Outcome
<1>1. Accepted(Ended(s), {}) \in Outcome /\ Refused(s) \in Outcome
  BY DEF Accepted, Refused, Ended, Outcome, Session
<1> QED
  BY <1>1, AnswersType DEF RollbackStatement

LEMMA WriteStatementType ==
    ASSUME NEW b, NEW s \in Session, NEW w \in Writes
    PROVE  WriteStatement(b, s, w) \in SUBSET Outcome
<1>1. /\ [s EXCEPT !.next = "Default"] \in Session
      /\ [s EXCEPT !.pending = @ \cup {w}] \in Session
      /\ [s EXCEPT !.mode = "failed", !.pending = {}] \in Session
      /\ Ended(s) \in Session
  BY DEF Ended, Session
<1>2. ASSUME NEW t \in Session
      PROVE  /\ Accepted(t, {w}) \in Outcome
             /\ Accepted(t, {}) \in Outcome
             /\ Refused(t) \in Outcome
  BY DEF Accepted, Refused, Outcome
<1>3. Refused(IF b = "postgres" THEN [s EXCEPT !.mode = "failed", !.pending = {}]
              ELSE s) \in Outcome
  BY <1>1, <1>2
<1> QED
  BY <1>1, <1>2, <1>3, AnswersType DEF WriteStatement, When

\* The statements behind BeginTransaction, Commit and Rollback.
LEMMA DoBeginTransactionType ==
    ASSUME backend \in Backends, session \in Session, NEW l \in Levels
    PROVE  DoBeginTransaction(l) \in SUBSET Outcome
<1>1. ASSUME NEW t \in Session
      PROVE  Refused(t) \in Outcome
  BY <1>1 DEF Refused, Outcome
<1>2. ASSUME NEW t \in Session, NEW answers \in SUBSET Outcome
      PROVE  DoSilentQuery(t, answers) \in SUBSET Outcome
  BY <1>1, <1>2 DEF DoSilentQuery
<1>3. SQLiteDoBeginTransaction(l) \in SUBSET Outcome
  <2> DEFINE begin == SQLiteBegin(session, l \in {"RepeatableRead", "Serializable"})
  <2>1. begin \in SUBSET Outcome
    BY SQLiteBeginType
  <2>2. Answers(backend, session, begin) \in SUBSET Outcome
    BY <2>1, AnswersType
  <2> QED
    BY <2>2, <1>2 DEF SQLiteDoBeginTransaction
<1>4. PostgresDoBeginTransaction(l) \in SUBSET Outcome
  <2>1. PostgresBegin(session, l) \in SUBSET Outcome
    BY PostgresBeginType
  <2>2. Answers(backend, session, PostgresBegin(session, l)) \in SUBSET Outcome
    BY <2>1, AnswersType
  <2> QED
    BY <2>2, <1>2 DEF PostgresDoBeginTransaction
<1>5. MariaDBDoBeginTransaction(l) \in SUBSET Outcome
  <2>1. MariaDBSet(session, l) \in SUBSET Outcome
    BY <1>1, <1>2, SetTransactionType DEF MariaDBSet
  <2>2. ASSUME NEW o \in MariaDBSet(session, l)
        PROVE  MariaDBBeginFrom(o) \in SUBSET Outcome
    <3>1. o.session \in Session
      BY <2>1 DEF Outcome
    <3>2. Answers(backend, o.session, MariaDBBegin(o.session)) \in SUBSET Outcome
      BY <3>1, MariaDBBeginType, AnswersType
    <3> QED
      BY <3>1, <3>2, <1>2 DEF MariaDBBeginFrom
  <2> QED
    BY <2>2 DEF MariaDBDoBeginTransaction
<1> QED
  BY <1>3, <1>4, <1>5 DEF DoBeginTransaction

LEMMA TerminatorType ==
    ASSUME session \in Session
    PROVE  /\ CommitTransaction \in SUBSET Outcome
           /\ RollbackTransaction \in SUBSET Outcome
<1>1. Refused(session) \in Outcome
  BY DEF Refused, Outcome
<1> QED
  BY <1>1, CommitStatementType, RollbackStatementType
     DEF CommitTransaction, RollbackTransaction, DoSilentQuery

LEMMA TakeType ==
    ASSUME durable \in SUBSET Writes, NEW o \in Outcome, Take(o)
    PROVE  session' \in Session /\ durable' \in SUBSET Writes
  BY DEF Take, Outcome

\* Issuing a terminator for a unit, or for none, keeps the histories typed.
LEMMA IssueType ==
    ASSUME units \in [Units -> Unit], NEW h \in Handles,
           NEW terminator \in {"commit", "rollback"}, Issue(h, terminator)
    PROVE  units' \in [Units -> Unit]
<1> DEFINE u == handles[h].unit
<1>1. CASE u \in Units
  <2>1. units[u] \in Unit
    BY <1>1
  <2>2. Append(units[u].issued, terminator) \in Seq({"commit", "rollback"})
    BY <2>1 DEF Unit
  <2> QED
    BY <1>1, <2>1, <2>2 DEF Issue, Unit
<1>2. CASE u \notin Units
  BY <1>2 DEF Issue
<1> QED
  BY <1>1, <1>2

LEMMA RollbackIfOwnedType ==
    ASSUME TypeOK, NEW h \in Handles, RollbackIfOwned(h)
    PROVE  /\ session' \in Session
           /\ durable' \in SUBSET Writes
           /\ units' \in [Units -> Unit]
<1>1. CASE Owns(handles[h])
  <2>1. PICK o \in RollbackTransaction : Take(o)
    BY <1>1 DEF RollbackIfOwned
  <2>2. Issue(h, "rollback")
    BY <1>1 DEF RollbackIfOwned
  <2> QED
    BY <2>1, <2>2, TerminatorType, TakeType, IssueType DEF TypeOK
<1>2. CASE ~Owns(handles[h])
  BY <1>2 DEF RollbackIfOwned, TypeOK
<1> QED
  BY <1>1, <1>2

\* Every state has the types that the modules declare.
THEOREM TypeCorrect == Spec => []TypeOK
<1>1. Init => TypeOK
  <2> SUFFICES ASSUME Init
               PROVE  TypeOK
    OBVIOUS
  <2>1. /\ backend \in TriedBackends /\ connected \in BOOLEAN
        /\ durable \in SUBSET Writes /\ parted \in BOOLEAN
    BY DEF Init
  <2>2. session \in Session
    BY DEF Init, Blank, Session
  <2>3. handles \in [Handles -> Handle]
    BY DEF Init, Absent, Handle, HandleFields
  <2>4. units \in [Units -> Unit]
    <3>1. <<>> \in Seq({"commit", "rollback"})
      OBVIOUS
    <3>2. [begun |-> FALSE, level |-> "Default", issued |-> <<>>, refused |-> FALSE] \in Unit
      BY <3>1 DEF Unit
    <3> QED
      BY <3>2 DEF Init
  <2>5. writes \in [Writes -> Write]
    BY DEF Init, Write
  <2> QED
    BY <2>1, <2>2, <2>3, <2>4, <2>5 DEF TypeOK
<1>2. TypeOK /\ [Next]_vars => TypeOK'
  <2> SUFFICES ASSUME TypeOK, [Next]_vars
               PROVE  TypeOK'
    OBVIOUS
  <2>0. parted' \in BOOLEAN
    BY DEF Next, Notice, TypeOK, vars
  <2> USE ParametersAssumption, <2>0
  <2>1. CASE Connect
    BY <2>1 DEF Connect, TypeOK, Blank, Session
  <2>2. CASE Disconnect
    BY <2>2 DEF Disconnect, TypeOK, Blank, Session
  <2>3. CASE Direct
    <3>1. PICK o \in CommitTransaction \cup RollbackTransaction : Take(o)
      BY <2>3 DEF Direct
    <3>2. session' \in Session /\ durable' \in SUBSET Writes
      BY <3>1, TerminatorType, TakeType DEF TypeOK
    <3> QED
      BY <2>3, <3>2 DEF Direct, TypeOK
  <2>4. ASSUME NEW w \in Writes, SilentQuery(w)
        PROVE  TypeOK'
    <3>1. PICK o \in DoSilentQuery(session, WriteStatement(backend, session, w)) :
             /\ Take(o)
             /\ writes' = [writes EXCEPT ![w] = [asked |-> TRUE, cover |-> ActiveUnits,
                                                 acked |-> o.ok]]
             /\ units' = [u \in Units |->
                   [units[u] EXCEPT !.refused = @ \/ (u \in ActiveUnits /\ ~o.ok)]]
      BY <2>4 DEF SilentQuery
    <3>2. o \in Outcome
      BY <3>1, <2>4, WriteStatementType DEF DoSilentQuery, SilentQuery, TypeOK
    <3>3. session' \in Session /\ durable' \in SUBSET Writes
      BY <3>1, <3>2, TakeType DEF TypeOK
    <3>4. units' \in [Units -> Unit]
      <4> DEFINE refused(u) == units[u].refused \/ (u \in ActiveUnits /\ ~o.ok)
      <4>1. ASSUME NEW u \in Units
            PROVE  [units[u] EXCEPT !.refused = refused(u)] \in Unit
        <5>1. refused(u) \in BOOLEAN
          OBVIOUS
        <5>2. units[u] \in Unit
          BY DEF TypeOK
        <5> HIDE DEF refused
        <5> QED
          BY <5>1, <5>2 DEF Unit
      <4>2. units' = [u \in Units |-> [units[u] EXCEPT !.refused = refused(u)]]
        BY <3>1
      <4> HIDE DEF refused
      <4> QED
        BY <4>1, <4>2
    <3>5. ActiveUnits \in SUBSET Units
      BY DEF ActiveUnits, Owns, TypeOK, Handle
    <3>6. o.ok \in BOOLEAN
      BY <3>2 DEF Outcome
    <3>7. writes' \in [Writes -> Write]
      BY <3>1, <3>5, <3>6 DEF TypeOK, Write
    <3> QED
      BY <2>4, <3>3, <3>4, <3>7 DEF SilentQuery, TypeOK
  <2>5. ASSUME NEW h \in Handles, NEW u \in Units, NEW l \in AskedLevels,
               BeginTransaction(h, u, l)
        PROVE  TypeOK'
    <3>1. PICK o \in DoBeginTransaction(l) : Take(o)
      BY <2>5 DEF BeginTransaction
    <3>2. l \in Levels /\ backend \in Backends
      BY DEF TypeOK
    <3>3. session' \in Session /\ durable' \in SUBSET Writes
      BY <3>1, <3>2, DoBeginTransactionType, TakeType DEF TypeOK
    <3>4. handles' \in [Handles -> Handle]
      BY <2>5 DEF BeginTransaction, Fresh, Handle, HandleFields, TypeOK
    <3>5. units' \in [Units -> Unit]
      <4>1. units[u] \in Unit
        BY DEF TypeOK
      <4>2. [units[u] EXCEPT !.begun = TRUE, !.level = l] \in Unit
        BY <4>1, <3>2 DEF Unit
      <4>3. units' = [units EXCEPT ![u] = [units[u] EXCEPT !.begun = TRUE, !.level = l]]
        BY <2>5 DEF BeginTransaction
      <4> QED
        BY <4>2, <4>3 DEF TypeOK
    <3> QED
      BY <2>5, <3>3, <3>4, <3>5 DEF BeginTransaction, TypeOK
  <2>6. ASSUME NEW h \in Handles, Commit(h)
        PROVE  TypeOK'
    <3>1. PICK o \in CommitTransaction : Take(o)
      BY <2>6 DEF Commit
    <3>2. session' \in Session /\ durable' \in SUBSET Writes
      BY <3>1, TerminatorType, TakeType DEF TypeOK
    <3>3. units' \in [Units -> Unit]
      BY <2>6, IssueType DEF Commit, TypeOK
    <3>4. handles' \in [Handles -> Handle]
      BY <2>6 DEF Commit, Inactive, Handle, HandleFields, TypeOK
    <3> QED
      BY <2>6, <3>2, <3>3, <3>4 DEF Commit, TypeOK
  <2>7. ASSUME NEW h \in Handles, Rollback(h)
        PROVE  TypeOK'
    <3>1. PICK o \in RollbackTransaction : Take(o)
      BY <2>7 DEF Rollback
    <3>2. session' \in Session /\ durable' \in SUBSET Writes
      BY <3>1, TerminatorType, TakeType DEF TypeOK
    <3>3. units' \in [Units -> Unit]
      BY <2>7, IssueType DEF Rollback, TypeOK
    <3>4. handles' \in [Handles -> Handle]
      BY <2>7 DEF Rollback, Inactive, Handle, HandleFields, TypeOK
    <3> QED
      BY <2>7, <3>2, <3>3, <3>4 DEF Rollback, TypeOK
  <2>8. ASSUME NEW h \in Handles, Destroy(h)
        PROVE  TypeOK'
    <3>1. handles' \in [Handles -> Handle]
      BY <2>8 DEF Destroy, Absent, Handle, HandleFields, TypeOK
    <3> QED
      BY <2>8, <3>1, RollbackIfOwnedType DEF Destroy, TypeOK
  <2>9. ASSUME NEW h \in Handles, NEW g \in Handles, MoveConstruct(h, g)
        PROVE  TypeOK'
    <3>1. handles' \in [Handles -> Handle]
      BY <2>9 DEF MoveConstruct, MovedFrom, Handle, HandleFields, TypeOK
    <3> QED
      BY <2>9, <3>1 DEF MoveConstruct, TypeOK
  <2>10. ASSUME NEW h \in Handles, NEW g \in Handles, MoveAssign(h, g)
         PROVE  TypeOK'
    <3>1. handles' \in [Handles -> Handle]
      BY <2>10 DEF MoveAssign, MovedFrom, Handle, HandleFields, TypeOK
    <3> QED
      BY <2>10, <3>1, RollbackIfOwnedType DEF MoveAssign, TypeOK
  <2>11. CASE UNCHANGED vars
    BY <2>11 DEF vars, TypeOK
  <2> QED
    BY <2>1, <2>2, <2>3, <2>4, <2>5, <2>6, <2>7, <2>8, <2>9, <2>10, <2>11 DEF Next, Operation
<1> QED
  BY <1>1, <1>2, PTL DEF Spec

-----------------------------------------------------------------------------
(***************************************************************************)
(* A transaction is ended exactly once.                                    *)
(***************************************************************************)

Mine(h, u) == Owns(handles[h]) /\ handles[h].unit = u

Running(u) == units[u].begun /\ units[u].issued = <<>>

\* EndedExactlyOnce said handle by handle, as the steps need it.
Linear ==
    /\ \A u \in Units, g \in Handles, h \in Handles : Mine(g, u) /\ Mine(h, u) => g = h
    /\ \A u \in Units, h \in Handles : Mine(h, u) => Running(u)
    /\ \A u \in Units : Running(u) => \E h \in Handles : Mine(h, u)
    /\ \A u \in Units : units[u].begun \/ units[u].issued = <<>>
    /\ \A u \in Units : units[u].issued = <<>> \/ Len(units[u].issued) = 1

\* A step that changes neither the handles nor begun and issued.
LEMMA LinearKept ==
    ASSUME Linear, UNCHANGED handles,
           \A u \in Units : /\ units'[u].begun = units[u].begun
                            /\ units'[u].issued = units[u].issued
    PROVE  Linear'
  BY DEF Linear, Mine, Running, Owns

\* Issuing a terminator for the unit of h.
LEMMA IssueEffect ==
    ASSUME TypeOK, Linear, NEW h \in Handles, Owns(handles[h]),
           NEW terminator \in {"commit", "rollback"}, Issue(h, terminator)
    PROVE  \A u \in Units :
              /\ units'[u].begun = units[u].begun
              /\ u # handles[h].unit => units'[u].issued = units[u].issued
              /\ u = handles[h].unit => /\ units[u].begun
                                        /\ units'[u].issued # <<>>
                                        /\ Len(units'[u].issued) = 1
<1> DEFINE v == handles[h].unit
<1>1. v \in Units
  BY DEF TypeOK, Handle, Owns
<1>2. Running(v)
  BY <1>1 DEF Linear, Mine
<1>3. units[v] \in Unit
  BY <1>1 DEF TypeOK
<1>4. units' = [units EXCEPT ![v] = [units[v] EXCEPT !.issued = Append(<<>>, terminator)]]
  BY <1>1, <1>2 DEF Issue, Running, TypeOK
<1>5. Append(<<>>, terminator) # <<>> /\ Len(Append(<<>>, terminator)) = 1
  OBVIOUS
<1> QED
  BY <1>1, <1>2, <1>3, <1>4, <1>5 DEF TypeOK, Unit, Running

\* What the shared guard of the destructor and move assignment does to a unit.
LEMMA RollbackIfOwnedEffect ==
    ASSUME TypeOK, Linear, NEW h \in Handles, RollbackIfOwned(h)
    PROVE  \A u \in Units :
              /\ units'[u].begun = units[u].begun
              /\ ~Mine(h, u) => units'[u].issued = units[u].issued
              /\ Mine(h, u) => /\ units[u].begun
                               /\ units'[u].issued # <<>>
                               /\ Len(units'[u].issued) = 1
<1>1. CASE Owns(handles[h])
  <2>1. Issue(h, "rollback")
    BY <1>1 DEF RollbackIfOwned
  <2> QED
    BY <1>1, <2>1, IssueEffect DEF Mine
<1>2. CASE ~Owns(handles[h])
  BY <1>2 DEF RollbackIfOwned, Mine
<1> QED
  BY <1>1, <1>2

LEMMA LinearInit == Init => Linear
  BY DEF Init, Linear, Mine, Running, Owns, Absent

\* After a handle gave up the unit it ended, the others own what they owned.
LEMMA LinearTerminate ==
    ASSUME TypeOK, Linear, NEW h \in Handles,
           \A u \in Units : ~Mine(h, u)',
           \A g \in Handles \ {h} : handles'[g] = handles[g],
           \A u \in Units :
              /\ units'[u].begun = units[u].begun
              /\ ~Mine(h, u) => units'[u].issued = units[u].issued
              /\ Mine(h, u) => /\ units[u].begun
                               /\ units'[u].issued # <<>>
                               /\ Len(units'[u].issued) = 1
    PROVE  Linear'
<1>1. \A g \in Handles \ {h}, u \in Units : Mine(g, u)' <=> Mine(g, u)
  BY DEF Mine, Owns
<1>2. \A u \in Units : ~Mine(h, u) => (Running(u)' <=> Running(u))
  BY DEF Running
<1>3. \A u \in Units : Mine(h, u) => ~Running(u)'
  BY DEF Running
<1>4. \A u \in Units, g \in Handles, k \in Handles :
         Mine(g, u)' /\ Mine(k, u)' => g = k
  BY <1>1 DEF Linear
<1>5. \A u \in Units, g \in Handles : Mine(g, u)' => Running(u)'
  BY <1>1, <1>2 DEF Linear
<1>6. \A u \in Units : Running(u)' => \E g \in Handles : Mine(g, u)'
  BY <1>1, <1>2, <1>3 DEF Linear
<1>7. \A u \in Units : /\ units'[u].begun \/ units'[u].issued = <<>>
                       /\ units'[u].issued = <<>> \/ Len(units'[u].issued) = 1
  BY DEF Linear
<1> QED
  BY <1>4, <1>5, <1>6, <1>7 DEF Linear

\* A move hands over what h owned; what g owned before has been ended.
LEMMA LinearMove ==
    ASSUME TypeOK, Linear, NEW h \in Handles, NEW g \in Handles, h # g,
           handles' = [handles EXCEPT ![g] = handles[h], ![h] = MovedFrom(@)],
           \A u \in Units :
              /\ units'[u].begun = units[u].begun
              /\ ~Mine(g, u) => units'[u].issued = units[u].issued
              /\ Mine(g, u) => /\ units[u].begun
                               /\ units'[u].issued # <<>>
                               /\ Len(units'[u].issued) = 1
    PROVE  Linear'
<1>1. handles'[g] = handles[h] /\ handles'[h] = MovedFrom(handles[h])
  BY DEF TypeOK
<1>2. ~Owns(handles'[h])
  BY <1>1 DEF MovedFrom, Owns, TypeOK, Handle, HandleFields
<1>3. \A u \in Units : (Mine(g, u)' <=> Mine(h, u)) /\ ~Mine(h, u)'
  BY <1>1, <1>2 DEF Mine, Owns
<1>4. \A k \in Handles \ {h, g}, u \in Units : Mine(k, u)' <=> Mine(k, u)
  BY DEF Mine, Owns, TypeOK
<1>5. \A u \in Units : ~Mine(g, u) => (Running(u)' <=> Running(u))
  BY DEF Running
<1>6. \A u \in Units : Mine(g, u) => ~Running(u)' /\ ~Mine(h, u)
  BY DEF Running, Linear
<1>7. \A u \in Units, j \in Handles, k \in Handles :
         Mine(j, u)' /\ Mine(k, u)' => j = k
  BY <1>3, <1>4 DEF Linear
<1>8. \A u \in Units, k \in Handles : Mine(k, u)' => Running(u)'
  BY <1>3, <1>4, <1>5, <1>6 DEF Linear
<1>9. \A u \in Units : Running(u)' => \E k \in Handles : Mine(k, u)'
  BY <1>3, <1>4, <1>5, <1>6 DEF Linear
<1>10. \A u \in Units : /\ units'[u].begun \/ units'[u].issued = <<>>
                        /\ units'[u].issued = <<>> \/ Len(units'[u].issued) = 1
  BY DEF Linear
<1> QED
  BY <1>7, <1>8, <1>9, <1>10 DEF Linear

\* Linear is preserved by every operation of the connection and the handles.
LEMMA LinearStep == TypeOK /\ Linear /\ [Next]_vars => Linear'
<1> SUFFICES ASSUME TypeOK, Linear, [Next]_vars
             PROVE  Linear'
  OBVIOUS
<1>1. CASE Connect
  BY <1>1, LinearKept DEF Connect
<1>2. CASE Disconnect
  BY <1>2, LinearKept DEF Disconnect
<1>3. CASE Direct
  BY <1>3, LinearKept DEF Direct
<1>4. ASSUME NEW w \in Writes, SilentQuery(w)
      PROVE  Linear'
  <2>1. UNCHANGED handles
    BY <1>4 DEF SilentQuery
  <2>2. PICK o : units' = [u \in Units |->
                   [units[u] EXCEPT !.refused = @ \/ (u \in ActiveUnits /\ ~o.ok)]]
    BY <1>4 DEF SilentQuery
  <2>3. \A u \in Units : /\ units'[u].begun = units[u].begun
                         /\ units'[u].issued = units[u].issued
    BY <2>2 DEF TypeOK, Unit
  <2> QED
    BY <2>1, <2>3, LinearKept
<1>5. ASSUME NEW h \in Handles, NEW v \in Units, NEW l \in AskedLevels,
             BeginTransaction(h, v, l)
      PROVE  Linear'
  <2>1. /\ ~handles[h].live
        /\ ~units[v].begun
        /\ handles' = [handles EXCEPT ![h] = Fresh(v)]
        /\ units' = [units EXCEPT ![v] = [units[v] EXCEPT !.begun = TRUE, !.level = l]]
    BY <1>5 DEF BeginTransaction
  <2>2. ~Owns(handles[h])
    BY <2>1 DEF TypeOK, Handle, Owns
  <2>3. \A u \in Units : Mine(h, u)' <=> u = v
    BY <2>1 DEF Mine, Owns, Fresh, TypeOK
  <2>4. \A g \in Handles \ {h}, u \in Units : Mine(g, u)' <=> Mine(g, u)
    BY <2>1 DEF Mine, Owns, TypeOK
  <2>5. \A g \in Handles : ~Mine(g, v)
    BY <2>1 DEF Linear, Running
  <2>6. units[v] \in Unit /\ units[v].issued = <<>>
    BY <2>1 DEF Linear, TypeOK
  <2>7. units'[v].begun /\ units'[v].issued = <<>>
    BY <2>1, <2>6 DEF TypeOK, Unit
  <2>8. \A u \in Units \ {v} : units'[u] = units[u]
    BY <2>1 DEF TypeOK
  <2>9. \A u \in Units, g \in Handles, k \in Handles :
           Mine(g, u)' /\ Mine(k, u)' => g = k
    BY <2>3, <2>4, <2>5 DEF Linear
  <2>10. \A u \in Units, g \in Handles : Mine(g, u)' => Running(u)'
    BY <2>3, <2>4, <2>5, <2>7, <2>8 DEF Linear, Running
  <2>11. \A u \in Units : Running(u)' => \E g \in Handles : Mine(g, u)'
    <3> SUFFICES ASSUME NEW u \in Units, Running(u)'
                 PROVE  \E g \in Handles : Mine(g, u)'
      OBVIOUS
    <3>1. CASE u = v
      BY <3>1, <2>3
    <3>2. CASE u # v
      <4>1. PICK g \in Handles : Mine(g, u)
        BY <3>2, <2>8 DEF Linear, Running
      <4> QED
        BY <4>1, <2>2, <2>4 DEF Mine
    <3> QED
      BY <3>1, <3>2
  <2>12. \A u \in Units : /\ units'[u].begun \/ units'[u].issued = <<>>
                          /\ units'[u].issued = <<>> \/ Len(units'[u].issued) = 1
    BY <2>7, <2>8 DEF Linear
  <2> QED
    BY <2>9, <2>10, <2>11, <2>12 DEF Linear
<1>6. ASSUME NEW h \in Handles, Commit(h) \/ Rollback(h)
      PROVE  Linear'
  <2>1. Owns(handles[h]) /\ handles' = [handles EXCEPT ![h] = Inactive(handles[h])]
    BY <1>6 DEF Commit, Rollback
  <2>2. PICK terminator \in {"commit", "rollback"} : Issue(h, terminator)
    BY <1>6 DEF Commit, Rollback
  <2>3. ~Owns(handles'[h])
    BY <2>1 DEF Inactive, Owns, TypeOK, Handle, HandleFields
  <2>4. \A g \in Handles \ {h} : handles'[g] = handles[g]
    BY <2>1 DEF TypeOK
  <2>5. \A u \in Units : ~Mine(h, u)'
    BY <2>3 DEF Mine, Owns
  <2>6. \A u \in Units : Mine(h, u) <=> u = handles[h].unit
    BY <2>1 DEF Mine
  <2> QED
    BY <2>1, <2>2, <2>4, <2>5, <2>6, IssueEffect, LinearTerminate
<1>7. ASSUME NEW h \in Handles, Destroy(h)
      PROVE  Linear'
  <2>1. RollbackIfOwned(h) /\ handles' = [handles EXCEPT ![h] = Absent]
    BY <1>7 DEF Destroy
  <2>2. \A u \in Units : ~Mine(h, u)'
    BY <2>1 DEF Mine, Owns, Absent, TypeOK
  <2>3. \A g \in Handles \ {h} : handles'[g] = handles[g]
    BY <2>1 DEF TypeOK
  <2> QED
    BY <2>1, <2>2, <2>3, RollbackIfOwnedEffect, LinearTerminate
<1>8. ASSUME NEW h \in Handles, NEW g \in Handles, MoveConstruct(h, g)
      PROVE  Linear'
  <2>1. /\ handles[h].live /\ ~handles[g].live /\ UNCHANGED units
        /\ handles' = [handles EXCEPT ![g] = handles[h], ![h] = MovedFrom(@)]
    BY <1>8 DEF MoveConstruct
  <2>2. h # g /\ \A u \in Units : ~Mine(g, u)
    BY <2>1 DEF Mine, Owns, TypeOK, Handle
  <2> QED
    BY <2>1, <2>2, LinearMove
<1>9. ASSUME NEW h \in Handles, NEW g \in Handles, MoveAssign(h, g)
      PROVE  Linear'
  <2>1. /\ h # g /\ RollbackIfOwned(g)
        /\ handles' = [handles EXCEPT ![g] = handles[h], ![h] = MovedFrom(@)]
    BY <1>9 DEF MoveAssign
  <2> QED
    BY <2>1, RollbackIfOwnedEffect, LinearMove
<1>10. CASE UNCHANGED vars
  BY <1>10, LinearKept DEF vars
<1> QED
  BY <1>1, <1>2, <1>3, <1>4, <1>5, <1>6, <1>7, <1>8, <1>9, <1>10 DEF Next, Operation

LEMMA LinearSuffices == TypeOK /\ Linear => EndedExactlyOnce
<1> SUFFICES ASSUME TypeOK, Linear, NEW u \in Units
             PROVE  \/ ~units[u].begun /\ Owners(u) = {} /\ units[u].issued = <<>>
                    \/ /\ units[u].begun
                       /\ units[u].issued = <<>>
                       /\ \E h \in Handles : Owners(u) = {h}
                    \/ /\ units[u].begun
                       /\ Len(units[u].issued) = 1
                       /\ Owners(u) = {}
  BY DEF EndedExactlyOnce
<1>1. Owners(u) = {h \in Handles : Mine(h, u)}
  BY DEF Owners, Mine
<1>2. CASE Running(u)
  <2>1. PICK h \in Handles : Mine(h, u)
    BY <1>2 DEF Linear
  <2>2. Owners(u) = {h}
    BY <1>1, <2>1 DEF Linear
  <2> QED
    BY <1>2, <2>2 DEF Running
<1>3. CASE ~Running(u)
  <2>1. Owners(u) = {}
    BY <1>1, <1>3 DEF Linear
  <2> QED
    BY <1>3, <2>1 DEF Linear, Running
<1> QED
  BY <1>2, <1>3

\* Whatever handles are moved, assigned, ended and destroyed, and whatever
\* the engine answers, each transaction is sent exactly one terminator, by
\* the one handle that owned it.
THEOREM EveryTransactionEndedExactlyOnce == Spec => []EndedExactlyOnce
<1>1. Init => Linear
  BY LinearInit
<1>2. TypeOK /\ Linear /\ [Next]_vars => Linear'
  BY LinearStep
<1>3. TypeOK /\ Linear => EndedExactlyOnce
  BY LinearSuffices
<1> QED
  BY <1>1, <1>2, <1>3, TypeCorrect, PTL DEF Spec

-----------------------------------------------------------------------------
(***************************************************************************)
(* Nothing but Commit makes the writes of a transaction durable.           *)
(***************************************************************************)

\* Only an open transaction has writes to lose.
Healthy(s) == s.mode # "open" => s.pending = {}

\* An answer that neither invents writes nor keeps them past the transaction.
Tame(s, o) ==
    /\ o.saved \subseteq s.pending
    /\ o.session.pending \subseteq s.pending
    /\ Healthy(o.session)

\* A connection that is closed has no session, and what is pending or durable
\* was asked for.
Safe ==
    /\ connected \/ session.mode = "none"
    /\ Healthy(session)
    /\ \A w \in session.pending \cup durable : writes[w].asked

\* As long as engine and handles have not parted, what is pending was written
\* under the transaction that is active now.
InStep ==
    ~parted => /\ OpenExactlyWhileOwned
               /\ \A w \in session.pending : writes[w].cover = ActiveUnits
               /\ DurableOnlyByCommit

LEMMA RefusedTame ==
    ASSUME NEW s \in Session, Healthy(s)
    PROVE  Tame(s, Refused(s)) /\ Tame(s, Refused(Blank("lost")))
  BY DEF Tame, Refused, Blank, Healthy

LEMMA AnswersTame ==
    ASSUME NEW b, NEW s \in Session, Healthy(s), NEW usual,
           \A o \in usual : Tame(s, o), NEW o \in Answers(b, s, usual)
    PROVE  Tame(s, o)
<1>1. o = Refused(s) \/ o = Refused(Blank("lost")) \/ o \in usual
  BY DEF Answers, When
<1> QED
  BY <1>1, RefusedTame

LEMMA SetTransactionTame ==
    ASSUME NEW b, NEW s \in Session, Healthy(s), NEW l \in Levels,
           NEW o \in SetTransaction(b, s, l)
    PROVE  Tame(s, o)
<1> DEFINE usual == IF s.mode = "idle"
                    THEN {Accepted([s EXCEPT !.next = l], {})}
                    ELSE {Refused(s)}
<1>1. Tame(s, Accepted([s EXCEPT !.next = l], {}))
  BY DEF Tame, Accepted, Healthy, Session
<1>2. \A x \in usual : Tame(s, x)
  BY <1>1, RefusedTame
<1> QED
  BY <1>2, AnswersTame DEF SetTransaction

LEMMA SQLiteBeginTame ==
    ASSUME NEW s \in Session, Healthy(s), NEW locking, NEW o \in SQLiteBegin(s, locking)
    PROVE  Tame(s, o)
<1>1. Tame(s, Accepted(Opened(s, "Serializable"), {}))
  BY DEF Tame, Accepted, Opened, Healthy, Session
<1> QED
  BY <1>1, RefusedTame DEF SQLiteBegin, When

LEMMA PostgresBeginTame ==
    ASSUME NEW s \in Session, Healthy(s), NEW l \in Levels, NEW o \in PostgresBegin(s, l)
    PROVE  Tame(s, o)
<1>1. Tame(s, Accepted(Opened(s, l), {})) /\ Tame(s, Accepted(s, {}))
  BY DEF Tame, Accepted, Opened, Healthy, Session
<1>2. Tame(s, Refused([s EXCEPT !.mode = "failed", !.pending = {}]))
  BY DEF Tame, Refused, Healthy, Session
<1>3. o \in {Accepted(Opened(s, l), {}), Accepted(s, {}), Refused(s),
             Refused([s EXCEPT !.mode = "failed", !.pending = {}])}
  BY DEF PostgresBegin, When
<1> QED
  BY <1>1, <1>2, <1>3, RefusedTame

LEMMA MariaDBBeginTame ==
    ASSUME NEW s \in Session, NEW o \in MariaDBBegin(s)
    PROVE  Tame(s, o)
  BY DEF MariaDBBegin, Tame, Accepted, Healthy

\* The answers of COMMIT.
CommitAnswers(b, s) ==
    {Accepted(Ended(s), {}), Accepted(Ended(s), s.pending), Refused(s), Refused(Ended(s)),
     [Accepted(s, {}) EXCEPT !.ok = b # "sqlite"],
     [Refused(Blank("lost")) EXCEPT !.saved = s.pending], Refused(Blank("lost"))}

LEMMA CommitStatementAnswers ==
    ASSUME NEW b, NEW s, NEW o \in CommitStatement(b, s)
    PROVE  o \in CommitAnswers(b, s)
<1>1. ASSUME NEW x, x \in When("commit" \in Faults,
                            {Refused(IF b = "sqlite" THEN s ELSE Ended(s))})
      PROVE  x \in CommitAnswers(b, s)
  <2>1. x = Refused(s) \/ x = Refused(Ended(s))
    BY <1>1 DEF When
  <2> QED
    BY <2>1 DEF CommitAnswers
<1>2. ASSUME NEW x, x \in When(CanDrop(b), {[Refused(Blank("lost")) EXCEPT !.saved = s.pending]})
      PROVE  x \in CommitAnswers(b, s)
  BY <1>2, Zenon DEF When, CommitAnswers
<1>3. ASSUME NEW x, x \in When(CanDrop(b), {Refused(Blank("lost"))})
      PROVE  x \in CommitAnswers(b, s)
  BY <1>3, Zenon DEF When, CommitAnswers
<1>4. \/ o = Refused(s) \/ o \in When(CanDrop(b), {Refused(Blank("lost"))})
      \/ o = [Accepted(s, {}) EXCEPT !.ok = b # "sqlite"]
      \/ o = Accepted(Ended(s), {})
      \/ o = Accepted(Ended(s), s.pending)
      \/ o \in When("commit" \in Faults, {Refused(IF b = "sqlite" THEN s ELSE Ended(s))})
      \/ o \in When(CanDrop(b), {[Refused(Blank("lost")) EXCEPT !.saved = s.pending]})
  BY DEF CommitStatement, Answers
<1> QED
  BY <1>1, <1>2, <1>3, <1>4 DEF CommitAnswers

LEMMA CommitStatementTame ==
    ASSUME NEW b, NEW s \in Session, Healthy(s), NEW o \in CommitStatement(b, s)
    PROVE  Tame(s, o)
<1>1. Tame(s, Accepted(Ended(s), {})) /\ Tame(s, Accepted(Ended(s), s.pending))
      /\ Tame(s, Refused(Ended(s)))
  BY DEF Tame, Accepted, Refused, Ended, Healthy, Session
<1>2. Tame(s, [Accepted(s, {}) EXCEPT !.ok = b # "sqlite"])
  BY DEF Tame, Accepted
<1>3. Tame(s, [Refused(Blank("lost")) EXCEPT !.saved = s.pending])
  BY DEF Tame, Refused, Blank, Healthy
<1> QED
  BY <1>1, <1>2, <1>3, CommitStatementAnswers, RefusedTame DEF CommitAnswers

\* A ROLLBACK also leaves nothing pending.
LEMMA RollbackStatementTame ==
    ASSUME NEW b, NEW s \in Session, Healthy(s), NEW o \in RollbackStatement(b, s)
    PROVE  Tame(s, o) /\ o.saved = {} /\ o.session.pending = {}
<1>1. o \in {Accepted(Ended(s), {}), Refused(Blank("lost"))}
      \/ (o = Refused(s) /\ s.mode \in {"idle", "none", "lost"})
  BY DEF RollbackStatement, Answers, When
<1>2. Tame(s, Accepted(Ended(s), {})) /\ Accepted(Ended(s), {}).saved = {}
      /\ Accepted(Ended(s), {}).session.pending = {}
  BY DEF Tame, Accepted, Ended, Healthy, Session
<1>3. CASE o = Accepted(Ended(s), {})
  BY <1>2, <1>3
<1>4. CASE o = Refused(Blank("lost"))
  BY <1>4, RefusedTame DEF Refused, Blank
<1>5. CASE o = Refused(s) /\ s.mode \in {"idle", "none", "lost"}
  BY <1>5, RefusedTame DEF Refused, Healthy
<1> QED
  BY <1>1, <1>3, <1>4, <1>5

\* The statements behind BeginTransaction, Commit and Rollback.
LEMMA TerminatorTame ==
    ASSUME TypeOK, Safe, NEW o \in CommitTransaction \cup RollbackTransaction
    PROVE  /\ Tame(session, o)
           /\ connected \/ o.session.mode = "none"
           /\ o \in RollbackTransaction => o.saved = {} /\ o.session.pending = {}
<1>1. session \in Session /\ Healthy(session)
  BY DEF TypeOK, Safe
<1>2. CASE connected
  <2>1. ASSUME o \in CommitTransaction PROVE Tame(session, o)
    BY <1>1, <1>2, <2>1, CommitStatementTame DEF CommitTransaction, DoSilentQuery
  <2>2. ASSUME o \in RollbackTransaction
        PROVE  Tame(session, o) /\ o.saved = {} /\ o.session.pending = {}
    BY <1>1, <1>2, <2>2, RollbackStatementTame DEF RollbackTransaction, DoSilentQuery
  <2> QED
    BY <1>2, <2>1, <2>2
<1>3. CASE ~connected
  <2>1. o = Refused(session) /\ session.mode = "none"
    BY <1>3 DEF CommitTransaction, RollbackTransaction, DoSilentQuery, Safe
  <2> QED
    BY <1>1, <2>1, RefusedTame DEF Refused, Healthy
<1> QED
  BY <1>2, <1>3

LEMMA DoBeginTransactionTame ==
    ASSUME TypeOK, Safe, NEW l \in AskedLevels, NEW o \in DoBeginTransaction(l)
    PROVE  /\ Tame(session, o)
           /\ connected \/ o.session.mode = "none"
<1>1. session \in Session /\ Healthy(session) /\ l \in Levels /\ backend \in Backends
  BY ParametersAssumption DEF TypeOK, Safe
<1>2. CASE ~connected
  <2>1. o = Refused(session) /\ session.mode = "none"
    BY <1>1, <1>2 DEF DoBeginTransaction, SQLiteDoBeginTransaction, PostgresDoBeginTransaction,
       MariaDBDoBeginTransaction, MariaDBSet, MariaDBBeginFrom, DoSilentQuery, Safe, Refused
  <2> QED
    BY <1>1, <2>1, RefusedTame DEF Refused
<1>3. CASE connected
  <2>1. CASE backend = "sqlite"
    <3> DEFINE usual == SQLiteBegin(session, l \in {"RepeatableRead", "Serializable"})
    <3>1. o \in Answers(backend, session, usual)
      BY <1>3, <2>1 DEF DoBeginTransaction, SQLiteDoBeginTransaction, DoSilentQuery
    <3>2. \A x \in usual : Tame(session, x)
      BY <1>1, SQLiteBeginTame
    <3> QED
      BY <1>1, <1>3, <3>1, <3>2, AnswersTame
  <2>2. CASE backend = "postgres"
    <3>1. o \in Answers(backend, session, PostgresBegin(session, l))
      BY <1>3, <2>2 DEF DoBeginTransaction, PostgresDoBeginTransaction, DoSilentQuery
    <3>2. \A x \in PostgresBegin(session, l) : Tame(session, x)
      BY <1>1, PostgresBeginTame
    <3> QED
      BY <1>1, <1>3, <3>1, <3>2, AnswersTame
  <2>3. CASE backend = "mariadb"
    <3>1. PICK set \in MariaDBSet(session, l) : o \in MariaDBBeginFrom(set)
      BY <2>3 DEF DoBeginTransaction, MariaDBDoBeginTransaction
    <3>2. set = Refused(session) \/ set \in SetTransaction(backend, session, l)
      BY <3>1 DEF MariaDBSet, DoSilentQuery
    <3>3. Tame(session, set)
      BY <1>1, <3>2, RefusedTame, SetTransactionTame
    <3>4. set.session \in Session
      BY <1>1, <3>2, SetTransactionType DEF Refused, Outcome
    <3>5. o \in Answers(backend, set.session, MariaDBBegin(set.session))
      BY <1>3, <3>1 DEF MariaDBBeginFrom, DoSilentQuery
    <3>6. \A x \in MariaDBBegin(set.session) : Tame(set.session, x)
      BY <3>4, MariaDBBeginTame
    <3>7. Tame(set.session, o)
      BY <3>3, <3>4, <3>5, <3>6, AnswersTame DEF Tame
    <3> QED
      BY <1>3, <3>3, <3>7 DEF Tame
  <2> QED
    BY <1>1, <2>1, <2>2, <2>3
<1> QED
  BY <1>2, <1>3

\* A write is pending in an open transaction or durable outside one.
LEMMA WriteStatementEffect ==
    ASSUME NEW b, NEW s \in Session, Healthy(s), NEW w \in Writes,
           NEW o \in WriteStatement(b, s, w)
    PROVE  /\ o.session.pending \subseteq s.pending \cup {w}
           /\ o.saved \subseteq {w}
           /\ w \in o.saved => s.mode = "idle"
           /\ Healthy(o.session)
<1>1. \/ s.mode = "idle" /\ o = Accepted([s EXCEPT !.next = "Default"], {w})
      \/ s.mode = "open" /\ o = Accepted([s EXCEPT !.pending = @ \cup {w}], {})
      \/ o \in {Refused(s), Refused([s EXCEPT !.mode = "failed", !.pending = {}]),
                Refused(Ended(s)), Refused(Blank("lost"))}
  <2>1. ASSUME NEW x, NEW condition, NEW y, x \in When(condition, {y})
        PROVE  x = y
    BY <2>1 DEF When
  <2>2. CASE s.mode \in {"none", "lost"}
    BY <2>2 DEF WriteStatement, Answers
  <2>3. CASE s.mode = "idle"
    BY <2>1, <2>3 DEF WriteStatement, Answers
  <2>4. CASE s.mode = "open"
    <3>1. o = Refused(IF b = "postgres" THEN [s EXCEPT !.mode = "failed", !.pending = {}] ELSE s)
          \/ o = Refused(Ended(s)) \/ o = Refused(Blank("lost"))
          \/ o = Accepted([s EXCEPT !.pending = @ \cup {w}], {})
      BY <2>1, <2>4 DEF WriteStatement, Answers
    <3> QED
      BY <2>4, <3>1
  <2>5. CASE s.mode = "failed"
    BY <2>1, <2>5 DEF WriteStatement, Answers
  <2> QED
    BY <2>2, <2>3, <2>4, <2>5 DEF Session
<1>2. CASE s.mode = "idle" /\ o = Accepted([s EXCEPT !.next = "Default"], {w})
  BY <1>2 DEF Accepted, Healthy, Session
<1>3. CASE s.mode = "open" /\ o = Accepted([s EXCEPT !.pending = @ \cup {w}], {})
  BY <1>3 DEF Accepted, Healthy, Session
<1>4. CASE o = Refused(s) \/ o = Refused(Blank("lost"))
  BY <1>4 DEF Refused, Blank, Healthy
<1>5. CASE o = Refused(Ended(s))
  BY <1>5 DEF Refused, Ended, Healthy, Session
<1>6. CASE o = Refused([s EXCEPT !.mode = "failed", !.pending = {}])
  BY <1>6 DEF Refused, Healthy, Session
<1> QED
  BY <1>1, <1>2, <1>3, <1>4, <1>5, <1>6

\* What a step that runs BEGIN, COMMIT or ROLLBACK, or none, may do.
Tamed ==
    /\ session'.pending \subseteq session.pending
    /\ durable' \subseteq durable \cup session.pending
    /\ Healthy(session')
    /\ connected' \/ session'.mode = "none"
    /\ writes' = writes

LEMMA SafeKept ==
    ASSUME Safe, Tamed
    PROVE  Safe'
  BY DEF Safe, Tamed

\* The shared guard of the destructor and move assignment.
LEMMA RollbackIfOwnedTame ==
    ASSUME TypeOK, Safe, NEW h \in Handles, RollbackIfOwned(h),
           UNCHANGED <<connected, writes>>
    PROVE  /\ Tamed
           /\ durable' = durable
           /\ session' = session \/ session'.pending = {}
           /\ Owns(handles[h]) => session'.pending = {}
<1>1. CASE Owns(handles[h])
  <2>1. PICK o \in RollbackTransaction : Take(o)
    BY <1>1 DEF RollbackIfOwned
  <2>2. /\ Tame(session, o) /\ o.saved = {} /\ o.session.pending = {}
        /\ connected \/ o.session.mode = "none"
    BY <2>1, TerminatorTame
  <2> QED
    BY <2>1, <2>2 DEF Take, Tame, Tamed
<1>2. CASE ~Owns(handles[h])
  BY <1>2 DEF RollbackIfOwned, Tamed, Safe
<1> QED
  BY <1>1, <1>2

LEMMA OperationTame ==
    ASSUME TypeOK, Safe, [Next]_vars
    PROVE  Tamed \/ \E w \in Writes : SilentQuery(w)
<1>1. CASE Connect \/ Disconnect
  BY <1>1 DEF Connect, Disconnect, Blank, Tamed, Healthy
<1>2. CASE Direct
  <2>1. PICK o \in CommitTransaction \cup RollbackTransaction : Take(o)
    BY <1>2 DEF Direct
  <2>2. Tame(session, o) /\ (connected \/ o.session.mode = "none")
    BY <2>1, TerminatorTame
  <2> QED
    BY <1>2, <2>1, <2>2 DEF Direct, Take, Tame, Tamed
<1>3. ASSUME NEW h \in Handles, NEW u \in Units, NEW l \in AskedLevels,
             BeginTransaction(h, u, l)
      PROVE  Tamed
  <2>1. PICK o \in DoBeginTransaction(l) : Take(o)
    BY <1>3 DEF BeginTransaction
  <2>2. Tame(session, o) /\ (connected \/ o.session.mode = "none")
    BY <2>1, DoBeginTransactionTame
  <2> QED
    BY <1>3, <2>1, <2>2 DEF BeginTransaction, Take, Tame, Tamed
<1>4. ASSUME NEW h \in Handles, Commit(h) \/ Rollback(h)
      PROVE  Tamed
  <2>1. PICK o \in CommitTransaction \cup RollbackTransaction : Take(o)
    BY <1>4 DEF Commit, Rollback
  <2>2. Tame(session, o) /\ (connected \/ o.session.mode = "none")
    BY <2>1, TerminatorTame
  <2> QED
    BY <1>4, <2>1, <2>2 DEF Commit, Rollback, Take, Tame, Tamed
<1>5. ASSUME NEW h \in Handles, Destroy(h)
      PROVE  Tamed
  BY <1>5, RollbackIfOwnedTame DEF Destroy
<1>6. ASSUME NEW h \in Handles, NEW g \in Handles, MoveConstruct(h, g)
      PROVE  Tamed
  BY <1>6 DEF MoveConstruct, Tamed, Safe
<1>7. ASSUME NEW h \in Handles, NEW g \in Handles, MoveAssign(h, g)
      PROVE  Tamed
  BY <1>7, RollbackIfOwnedTame DEF MoveAssign
<1>8. CASE UNCHANGED vars
  BY <1>8 DEF vars, Tamed, Safe
<1> QED
  BY <1>1, <1>2, <1>3, <1>4, <1>5, <1>6, <1>7, <1>8 DEF Next, Operation

\* What SilentQuery did: the write is new, and pending or durable or neither.
LEMMA SilentQueryEffect ==
    ASSUME TypeOK, Safe, NEW w \in Writes, SilentQuery(w)
    PROVE  /\ w \notin session.pending \cup durable
           /\ session'.pending \subseteq session.pending \cup {w}
           /\ durable' \subseteq durable \cup {w}
           /\ w \in durable' => connected /\ session.mode = "idle"
           /\ Healthy(session')
           /\ connected /\ UNCHANGED <<connected, handles>>
           /\ writes'[w].asked /\ writes'[w].cover = ActiveUnits
           /\ \A x \in Writes \ {w} : writes'[x] = writes[x]
           /\ \A u \in Units : units'[u].issued = units[u].issued
<1>1. PICK o \in DoSilentQuery(session, WriteStatement(backend, session, w)) :
         /\ Take(o)
         /\ writes' = [writes EXCEPT ![w] = [asked |-> TRUE, cover |-> ActiveUnits,
                                             acked |-> o.ok]]
         /\ units' = [u \in Units |->
               [units[u] EXCEPT !.refused = @ \/ (u \in ActiveUnits /\ ~o.ok)]]
  BY DEF SilentQuery
<1>2. o \in WriteStatement(backend, session, w)
  BY <1>1 DEF DoSilentQuery, SilentQuery
<1>3. session \in Session /\ Healthy(session)
  BY DEF TypeOK, Safe
<1>4. /\ o.session.pending \subseteq session.pending \cup {w}
      /\ o.saved \subseteq {w}
      /\ w \in o.saved => session.mode = "idle"
      /\ Healthy(o.session)
  BY <1>2, <1>3, WriteStatementEffect
<1>5. w \notin session.pending \cup durable
  BY DEF SilentQuery, Safe
<1>6. \A u \in Units : units'[u].issued = units[u].issued
  BY <1>1 DEF TypeOK, Unit
<1>7. /\ writes'[w].asked /\ writes'[w].cover = ActiveUnits
      /\ \A x \in Writes \ {w} : writes'[x] = writes[x]
  BY <1>1 DEF TypeOK
<1> QED
  BY <1>1, <1>4, <1>5, <1>6, <1>7 DEF SilentQuery, Take

LEMMA SafeStep == TypeOK /\ Safe /\ [Next]_vars => Safe'
<1> SUFFICES ASSUME TypeOK, Safe, [Next]_vars
             PROVE  Safe'
  OBVIOUS
<1>1. CASE Tamed
  BY <1>1, SafeKept
<1>2. ASSUME NEW w \in Writes, SilentQuery(w)
      PROVE  Safe'
  <2>1. \A x \in session.pending \cup durable : x \in Writes /\ writes[x].asked
    BY DEF TypeOK, Session, Safe
  <2> QED
    BY <1>2, <2>1, SilentQueryEffect DEF Safe
<1> QED
  BY <1>1, <1>2, OperationTame

\* A step in step that keeps what was committed, saves only what is, and leaves
\* pending only what the active transaction wrote.
LEMMA InStepKept ==
    ASSUME InStep, ~parted, OpenExactlyWhileOwned', writes' = writes,
           session'.pending \subseteq session.pending,
           session'.pending = {} \/ ActiveUnits' = ActiveUnits,
           \A w \in durable : \A u \in writes[w].cover : Committed(u) => Committed(u)',
           \A w \in durable' \ durable : \A u \in writes[w].cover : Committed(u)'
    PROVE  InStep'
<1>1. \A w \in session'.pending : writes'[w].cover = ActiveUnits'
  BY DEF InStep
<1>2. \A w \in durable' : \A u \in writes'[w].cover : Committed(u)'
  BY DEF InStep, DurableOnlyByCommit
<1>3. DurableOnlyByCommit'
  BY <1>2 DEF DurableOnlyByCommit
<1> QED
  BY <1>1, <1>3 DEF InStep

\* The transaction of an owning handle is the active one, and running.
LEMMA OwnedIsActive ==
    ASSUME TypeOK, Linear, NEW h \in Handles, Owns(handles[h])
    PROVE  /\ handles[h].unit \in ActiveUnits
           /\ handles[h].unit \in Units
           /\ Running(handles[h].unit)
<1>1. handles[h].unit \in Units
  BY DEF TypeOK, Handle, Owns
<1>2. Running(handles[h].unit)
  BY <1>1 DEF Linear, Mine
<1> QED
  BY <1>1, <1>2 DEF ActiveUnits

\* In step, nothing is pending without an active transaction.
LEMMA NothingPending ==
    ASSUME Safe, InStep, ~parted, ActiveUnits = {}
    PROVE  session.pending = {}
<1>1. session.mode # "open"
  BY DEF Safe, InStep, OpenExactlyWhileOwned
<1> QED
  BY <1>1 DEF Safe, Healthy

\* A transaction that was sent a terminator keeps it when another one is sent.
LEMMA CommittedKept ==
    ASSUME TypeOK, Linear, NEW h \in Handles, Owns(handles[h]),
           NEW terminator \in {"commit", "rollback"}, Issue(h, terminator)
    PROVE  /\ \A u \in Units : Committed(u) => Committed(u)'
           /\ units'[handles[h].unit].issued = <<terminator>>
<1> DEFINE v == handles[h].unit
<1>1. v \in Units /\ units[v].issued = <<>> /\ units[v] \in Unit
  BY OwnedIsActive DEF Running, TypeOK
<1>2. units' = [units EXCEPT ![v] = [units[v] EXCEPT !.issued = Append(<<>>, terminator)]]
  BY <1>1 DEF Issue
<1>3. Append(<<>>, terminator) = <<terminator>>
  OBVIOUS
<1>4. units'[v].issued = <<terminator>> /\ \A u \in Units \ {v} : units'[u] = units[u]
  BY <1>1, <1>2, <1>3 DEF TypeOK, Unit
<1>5. ~Committed(v)
  BY <1>1 DEF Committed
<1> QED
  BY <1>4, <1>5 DEF Committed

LEMMA CommitInStep ==
    ASSUME TypeOK, Linear, Safe, InStep, ~parted, OpenExactlyWhileOwned',
           NEW h \in Handles, Commit(h)
    PROVE  InStep'
<1> DEFINE v == handles[h].unit
<1>1. PICK o \in CommitTransaction : Take(o)
  BY DEF Commit
<1>2. Tame(session, o) /\ (connected \/ o.session.mode = "none")
  BY <1>1, TerminatorTame
<1>3. Owns(handles[h]) /\ Issue(h, "commit") /\ UNCHANGED <<connected, writes>>
      /\ handles' = [handles EXCEPT ![h] = Inactive(handles[h])]
  BY DEF Commit
<1>4. v \in ActiveUnits /\ v \in Units
  BY <1>3, OwnedIsActive
<1>5. ActiveUnits = {v}
  BY <1>4 DEF InStep, OpenExactlyWhileOwned
<1>6. ActiveUnits' = {}
  <2>1. ~Owns(handles'[h])
    BY <1>3 DEF Inactive, Owns, TypeOK, Handle, HandleFields
  <2>2. ASSUME NEW g \in Handles \ {h}, Owns(handles'[g]) PROVE FALSE
    <3>1. Owns(handles[g])
      BY <1>3, <2>2 DEF TypeOK, Owns
    <3>2. handles[g].unit = v
      BY <1>5, <3>1 DEF ActiveUnits
    <3> QED
      BY <1>3, <1>4, <3>1, <3>2 DEF Linear, Mine
  <2> QED
    BY <2>1, <2>2 DEF ActiveUnits
<1>7. session'.pending = {}
  <2>1. session'.mode # "open"
    BY <1>1, <1>2, <1>3, <1>6 DEF OpenExactlyWhileOwned, Take
  <2> QED
    BY <1>1, <1>2, <2>1 DEF Take, Tame, Healthy
<1>8. \A w \in session.pending : writes[w].cover = {v}
  BY <1>5 DEF InStep
<1>9. \A u \in {v} : Committed(u)'
  BY <1>3, CommittedKept DEF Committed
<1>10. \A w \in durable' \ durable : \A u \in writes[w].cover : Committed(u)'
  BY <1>1, <1>2, <1>8, <1>9 DEF Take, Tame
<1>11. \A w \in durable : \A u \in writes[w].cover : u \in Units
  BY DEF TypeOK, Write
<1>12. \A w \in durable : \A u \in writes[w].cover : Committed(u) => Committed(u)'
  BY <1>3, <1>11, CommittedKept
<1> QED
  BY <1>3, <1>7, <1>10, <1>12, InStepKept

\* A ROLLBACK saves nothing and leaves nothing pending.
LEMMA RollbackInStep ==
    ASSUME TypeOK, Linear, Safe, InStep, ~parted, OpenExactlyWhileOwned',
           NEW h \in Handles, RollbackIfOwned(h), UNCHANGED <<connected, writes>>,
           ~Owns(handles[h]) => ActiveUnits' = ActiveUnits
    PROVE  InStep'
<1>1. /\ Tamed /\ durable' = durable
      /\ Owns(handles[h]) => session'.pending = {}
  BY RollbackIfOwnedTame
<1>2. \A w \in durable : \A u \in writes[w].cover : u \in Units
  BY DEF TypeOK, Write
<1>3. \A u \in Units : Committed(u) => Committed(u)'
  <2>1. CASE Owns(handles[h])
    BY <2>1, CommittedKept DEF RollbackIfOwned
  <2>2. CASE ~Owns(handles[h])
    BY <2>2 DEF RollbackIfOwned, Committed
  <2> QED
    BY <2>1, <2>2
<1> QED
  BY <1>1, <1>2, <1>3, InStepKept DEF Tamed

\* A second transaction under an active one would part engine and handles.
LEMMA BeginAlone ==
    ASSUME TypeOK, Linear, OpenExactlyWhileOwned',
           NEW h \in Handles, NEW u \in Units, NEW l \in AskedLevels, BeginTransaction(h, u, l)
    PROVE  ActiveUnits = {}
<1> SUFFICES ASSUME NEW g \in Handles, Owns(handles[g])
             PROVE  FALSE
  BY DEF ActiveUnits
<1>1. /\ ~handles[h].live /\ ~units[u].begun
      /\ handles' = [handles EXCEPT ![h] = Fresh(u)]
  BY DEF BeginTransaction
<1>2. g # h
  BY <1>1 DEF TypeOK, Handle, Owns
<1>3. handles'[g] = handles[g] /\ handles'[h] = Fresh(u)
  BY <1>1, <1>2 DEF TypeOK
<1>4. handles[g].unit \in ActiveUnits' /\ u \in ActiveUnits'
  BY <1>3 DEF ActiveUnits, Owns, Fresh
<1>5. handles[g].unit = u
  BY <1>4 DEF OpenExactlyWhileOwned
<1> QED
  BY <1>1, <1>5, OwnedIsActive DEF Running

LEMMA BeginInStep ==
    ASSUME TypeOK, Linear, Safe, InStep, ~parted, OpenExactlyWhileOwned',
           NEW h \in Handles, NEW u \in Units, NEW l \in AskedLevels, BeginTransaction(h, u, l)
    PROVE  InStep'
<1>1. PICK o \in DoBeginTransaction(l) : Take(o)
  BY DEF BeginTransaction
<1>2. Tame(session, o)
  BY <1>1, DoBeginTransactionTame
<1>3. /\ ~handles[h].live /\ ~units[u].begun /\ UNCHANGED <<connected, writes>>
      /\ handles' = [handles EXCEPT ![h] = Fresh(u)]
      /\ units' = [units EXCEPT ![u] = [units[u] EXCEPT !.begun = TRUE, !.level = l]]
  BY DEF BeginTransaction
<1>4. ActiveUnits = {}
  BY BeginAlone
<1>5. session.pending = {}
  BY <1>4, NothingPending
<1>6. session'.pending = {} /\ durable' = durable
  BY <1>1, <1>2, <1>5 DEF Take, Tame
<1>7. \A v \in Units : Committed(v) => Committed(v)'
  BY <1>3 DEF Committed, TypeOK, Unit
<1>8. \A w \in durable : \A v \in writes[w].cover : v \in Units
  BY DEF TypeOK, Write
<1> QED
  BY <1>3, <1>6, <1>7, <1>8, InStepKept

LEMMA SilentQueryInStep ==
    ASSUME TypeOK, Safe, InStep, ~parted, OpenExactlyWhileOwned',
           NEW w \in Writes, SilentQuery(w)
    PROVE  InStep'
<1>1. ActiveUnits' = ActiveUnits
  BY SilentQueryEffect DEF ActiveUnits, Owns
<1>2. session.pending \subseteq Writes /\ durable \subseteq Writes
  BY DEF TypeOK, Session
<1>3. \A x \in session'.pending : writes'[x].cover = ActiveUnits'
  BY <1>1, <1>2, SilentQueryEffect DEF InStep
<1>4. w \in durable' => ActiveUnits = {}
  BY SilentQueryEffect DEF InStep, OpenExactlyWhileOwned
<1>5. \A u \in Units : Committed(u)' <=> Committed(u)
  BY SilentQueryEffect DEF Committed
<1>6. \A x \in durable : \A u \in writes[x].cover : u \in Units /\ Committed(u)
  BY <1>2 DEF TypeOK, Write, InStep, DurableOnlyByCommit
<1>7. \A x \in durable' : \A u \in writes'[x].cover : Committed(u)'
  <2> SUFFICES ASSUME NEW x \in durable', NEW u \in writes'[x].cover
               PROVE  Committed(u)'
    OBVIOUS
  <2>1. CASE x = w
    BY <1>4, <2>1, SilentQueryEffect
  <2>2. CASE x # w
    <3>1. x \in durable /\ writes'[x] = writes[x]
      BY <1>2, <2>2, SilentQueryEffect
    <3> QED
      BY <1>5, <1>6, <3>1
  <2> QED
    BY <2>1, <2>2
<1> QED
  BY <1>3, <1>7 DEF InStep, DurableOnlyByCommit

\* Database::CommitTransaction and RollbackTransaction without a handle, and
\* Connect and Disconnect, find nothing pending or drop it.
LEMMA ConnectionInStep ==
    ASSUME TypeOK, Safe, InStep, ~parted, OpenExactlyWhileOwned',
           Connect \/ Disconnect \/ (Direct /\ ActiveUnits = {})
    PROVE  InStep'
<1>1. session'.pending = {} /\ durable' = durable
  <2>1. CASE Connect \/ Disconnect
    BY <2>1 DEF Connect, Disconnect, Blank
  <2>2. CASE Direct /\ ActiveUnits = {}
    <3>1. PICK o \in CommitTransaction \cup RollbackTransaction : Take(o)
      BY <2>2 DEF Direct
    <3>2. Tame(session, o) /\ session.pending = {}
      BY <2>2, <3>1, TerminatorTame, NothingPending
    <3> QED
      BY <3>1, <3>2 DEF Take, Tame
  <2> QED
    BY <2>1, <2>2
<1>2. UNCHANGED <<units, writes>>
  BY DEF Connect, Disconnect, Direct
<1> QED
  BY <1>1, <1>2, InStepKept DEF Committed

\* A handle that owns nothing may be destroyed, moved or assigned to: the same
\* transactions stay active.
LEMMA MoveKeepsActive ==
    ASSUME TypeOK, NEW h \in Handles, NEW g \in Handles, h # g, ~Owns(handles[g]),
           handles' = [handles EXCEPT ![g] = handles[h], ![h] = MovedFrom(@)]
    PROVE  ActiveUnits' = ActiveUnits
<1>1. handles'[g] = handles[h] /\ ~Owns(handles'[h])
      /\ \A k \in Handles \ {h, g} : handles'[k] = handles[k]
  BY DEF TypeOK, MovedFrom, Owns, Handle, HandleFields
<1>2. ASSUME NEW k \in Handles, Owns(handles[k])
      PROVE  handles[k].unit \in ActiveUnits'
  <2>1. PICK j \in Handles : handles'[j] = handles[k]
    BY <1>1, <1>2
  <2> QED
    BY <1>2, <2>1 DEF ActiveUnits, Owns
<1>3. ASSUME NEW k \in Handles, Owns(handles'[k])
      PROVE  handles'[k].unit \in ActiveUnits
  <2>1. PICK j \in Handles : handles'[k] = handles[j]
    BY <1>1, <1>3
  <2> QED
    BY <1>3, <2>1 DEF ActiveUnits
<1> QED
  BY <1>2, <1>3 DEF ActiveUnits, Owns

LEMMA InStepStep == TypeOK /\ Linear /\ Safe /\ InStep /\ [Next]_vars => InStep'
<1> SUFFICES ASSUME TypeOK, Linear, Safe, InStep, [Next]_vars, ~parted'
             PROVE  InStep'
  BY DEF InStep
<1>1. CASE UNCHANGED vars
  BY <1>1 DEF vars, InStep, OpenExactlyWhileOwned, ActiveUnits, Owns, DurableOnlyByCommit,
              Committed
<1>2. CASE Next
  <2>0. Operation \/ (Direct /\ ActiveUnits = {})
    BY <1>2 DEF Next, Notice
  <2>1. ~parted /\ OpenExactlyWhileOwned'
    BY <1>2 DEF Next, Notice
  <2>2. CASE Connect \/ Disconnect \/ (Direct /\ ActiveUnits = {})
    BY <2>1, <2>2, ConnectionInStep
  <2>3. ASSUME NEW w \in Writes, SilentQuery(w)
        PROVE  InStep'
    BY <2>1, <2>3, SilentQueryInStep
  <2>4. ASSUME NEW h \in Handles, NEW u \in Units, NEW l \in AskedLevels,
               BeginTransaction(h, u, l)
        PROVE  InStep'
    BY <2>1, <2>4, BeginInStep
  <2>5. ASSUME NEW h \in Handles, Commit(h)
        PROVE  InStep'
    BY <2>1, <2>5, CommitInStep
  <2>6. ASSUME NEW h \in Handles, Rollback(h)
        PROVE  InStep'
    BY <2>1, <2>6, RollbackInStep DEF Rollback, RollbackIfOwned
  <2>7. ASSUME NEW h \in Handles, Destroy(h)
        PROVE  InStep'
    <3>1. ASSUME ~Owns(handles[h]) PROVE ActiveUnits' = ActiveUnits
      <4>1. handles' = [handles EXCEPT ![h] = Absent]
        BY <2>7 DEF Destroy
      <4>2. \A g \in Handles : /\ Owns(handles'[g]) <=> Owns(handles[g])
                               /\ Owns(handles[g]) => handles'[g] = handles[g]
        BY <3>1, <4>1 DEF TypeOK, Owns, Absent
      <4> QED
        BY <4>2 DEF ActiveUnits, Owns
    <3> QED
      BY <2>1, <2>7, <3>1, RollbackInStep DEF Destroy
  <2>8. ASSUME NEW h \in Handles, NEW g \in Handles, MoveConstruct(h, g)
        PROVE  InStep'
    <3>1. ~Owns(handles[g]) /\ h # g
      BY <2>8 DEF MoveConstruct, TypeOK, Handle, Owns
    <3>2. ActiveUnits' = ActiveUnits
      BY <2>8, <3>1, MoveKeepsActive DEF MoveConstruct
    <3> QED
      BY <2>1, <2>8, <3>2, InStepKept DEF MoveConstruct, Committed
  <2>9. ASSUME NEW h \in Handles, NEW g \in Handles, MoveAssign(h, g)
        PROVE  InStep'
    <3>1. ~Owns(handles[g]) => ActiveUnits' = ActiveUnits
      BY <2>9, MoveKeepsActive DEF MoveAssign
    <3> QED
      BY <2>1, <2>9, <3>1, RollbackInStep DEF MoveAssign
  <2> QED
    BY <2>0, <2>2, <2>3, <2>4, <2>5, <2>6, <2>7, <2>8, <2>9 DEF Operation
<1> QED
  BY <1>1, <1>2

\* Whatever the application does and whatever the engine refuses, aborts or
\* loses, a write made under a transaction becomes durable by Commit only, as
\* long as the engine has been in a transaction exactly while a handle was
\* active.
THEOREM OnlyCommitMakesDurable == Spec => []DurableOnlyByCommitInStep
<1>1. Init => Safe /\ InStep
  BY DEF Init, Blank, Absent, Safe, Healthy, InStep, OpenExactlyWhileOwned, ActiveUnits,
         Owns, DurableOnlyByCommit
<1>2. TypeOK /\ Safe /\ InStep => DurableOnlyByCommitInStep
  BY DEF InStep, DurableOnlyByCommitInStep, TypeOK
<1> QED
  BY <1>1, <1>2, LinearInit, LinearStep, SafeStep, InStepStep, TypeCorrect, PTL DEF Spec

-----------------------------------------------------------------------------
(***************************************************************************)
(* A transaction runs at the level it was asked for.                       *)
(***************************************************************************)

\* A statement that opens nothing leaves an open transaction its level, and no
\* one-shot level behind.
KeepsLevel(s, o) ==
    /\ o.session.next = "Default"
    /\ o.session.mode = "open" => s.mode = "open" /\ o.session.level = s.level

\* BEGIN outside a transaction opens one at no less than the level asked for.
Grants(o, l) ==
    /\ o.session.next = "Default"
    /\ o.session.mode = "open" => Strength[o.session.level] >= Strength[l]

LEMMA StrengthFacts ==
    ASSUME NEW l \in Levels
    PROVE  /\ Strength[l] \in 0..4
           /\ Strength["Default"] = 0
           /\ Strength["Serializable"] = 4
  BY DEF Strength

LEMMA RefusedKeepsLevel ==
    ASSUME NEW s \in Session, s.next = "Default"
    PROVE  KeepsLevel(s, Refused(s)) /\ KeepsLevel(s, Refused(Blank("lost")))
  BY DEF KeepsLevel, Refused, Blank

LEMMA EndedKeepsLevel ==
    ASSUME NEW s \in Session, s.next = "Default", NEW saved
    PROVE  /\ KeepsLevel(s, Accepted(Ended(s), saved))
           /\ KeepsLevel(s, Refused(Ended(s)))
           /\ KeepsLevel(s, Accepted(s, saved))
  BY DEF KeepsLevel, Accepted, Refused, Ended, Session

LEMMA CommitKeepsLevel ==
    ASSUME NEW b, NEW s \in Session, s.next = "Default", NEW o \in CommitStatement(b, s)
    PROVE  KeepsLevel(s, o)
<1>1. o \in CommitAnswers(b, s)
  BY CommitStatementAnswers
<1>2. [Accepted(s, {}) EXCEPT !.ok = b # "sqlite"].session = s
      /\ [Refused(Blank("lost")) EXCEPT !.saved = s.pending].session = Blank("lost")
  BY DEF Accepted, Refused
<1>3. Refused(s).session = s /\ Refused(Blank("lost")).session = Blank("lost")
  BY DEF Refused
<1>4. KeepsLevel(s, [Accepted(s, {}) EXCEPT !.ok = b # "sqlite"])
      /\ KeepsLevel(s, [Refused(Blank("lost")) EXCEPT !.saved = s.pending])
  BY <1>2, <1>3, RefusedKeepsLevel DEF KeepsLevel
<1> QED
  BY <1>1, <1>4, RefusedKeepsLevel, EndedKeepsLevel DEF CommitAnswers

LEMMA RollbackKeepsLevel ==
    ASSUME NEW b, NEW s \in Session, s.next = "Default", NEW o \in RollbackStatement(b, s)
    PROVE  KeepsLevel(s, o)
<1>1. o \in {Accepted(Ended(s), {}), Refused(Blank("lost")), Refused(s)}
  BY DEF RollbackStatement, Answers, When
<1> QED
  BY <1>1, RefusedKeepsLevel, EndedKeepsLevel

LEMMA WriteKeepsLevel ==
    ASSUME NEW b, NEW s \in Session, s.next = "Default", NEW w \in Writes,
           NEW o \in WriteStatement(b, s, w)
    PROVE  KeepsLevel(s, o)
<1>1. ASSUME NEW x, NEW condition, NEW y, x \in When(condition, {y})
      PROVE  x = y
  BY <1>1 DEF When
<1>2. \/ s.mode = "idle" /\ o = Accepted([s EXCEPT !.next = "Default"], {w})
      \/ o = Accepted([s EXCEPT !.pending = @ \cup {w}], {})
      \/ o = Refused(IF b = "postgres" THEN [s EXCEPT !.mode = "failed", !.pending = {}] ELSE s)
      \/ o = Refused(s) \/ o = Refused(Ended(s)) \/ o = Refused(Blank("lost"))
  BY <1>1 DEF WriteStatement, Answers
<1>3. CASE s.mode = "idle" /\ o = Accepted([s EXCEPT !.next = "Default"], {w})
  BY <1>3 DEF KeepsLevel, Accepted, Session
<1>4. CASE o = Accepted([s EXCEPT !.pending = @ \cup {w}], {})
  BY <1>4 DEF KeepsLevel, Accepted, Session
<1>5. CASE o = Refused([s EXCEPT !.mode = "failed", !.pending = {}])
  BY <1>5 DEF KeepsLevel, Refused, Session
<1> QED
  BY <1>2, <1>3, <1>4, <1>5, RefusedKeepsLevel, EndedKeepsLevel

\* Every statement the handles and the application run, but BEGIN.
LEMMA StatementsKeepLevel ==
    ASSUME TypeOK, session.next = "Default"
    PROVE  /\ \A o \in CommitTransaction \cup RollbackTransaction : KeepsLevel(session, o)
           /\ \A w \in Writes : \A o \in DoSilentQuery(session,
                                            WriteStatement(backend, session, w)) :
                 KeepsLevel(session, o)
<1>1. session \in Session
  BY DEF TypeOK
<1> QED
  BY <1>1, RefusedKeepsLevel, CommitKeepsLevel, RollbackKeepsLevel, WriteKeepsLevel
     DEF CommitTransaction, RollbackTransaction, DoSilentQuery

LEMMA BeginGrants ==
    ASSUME TypeOK, session.next = "Default", NEW l \in AskedLevels,
           NEW o \in DoBeginTransaction(l)
    PROVE  /\ o.session.next = "Default"
           /\ session.mode \notin {"open", "failed"} => Grants(o, l)
<1>1. session \in Session /\ l \in Levels /\ backend \in Backends
  BY ParametersAssumption DEF TypeOK
<1>2. CASE o = Refused(session) \/ o = Refused(Blank("lost"))
  BY <1>1, <1>2 DEF Grants, Refused, Blank
<1>3. CASE o \notin {Refused(session), Refused(Blank("lost"))}
  <2>1. CASE backend = "sqlite"
    <3>1. o = Accepted(Opened(session, "Serializable"), {})
      BY <1>3, <2>1 DEF DoBeginTransaction, SQLiteDoBeginTransaction, DoSilentQuery,
         SQLiteBegin, Answers, When
    <3>2. o.session.next = "Default" /\ o.session.level = "Serializable"
      BY <1>1, <3>1 DEF Accepted, Opened, Session
    <3> QED
      BY <1>1, <3>2, StrengthFacts DEF Grants
  <2>2. CASE backend = "postgres"
    <3>1. \/ o = Accepted(Opened(session, l), {})
          \/ session.mode = "open" /\ o = Accepted(session, {})
          \/ o = Refused([session EXCEPT !.mode = "failed", !.pending = {}])
      BY <1>3, <2>2 DEF DoBeginTransaction, PostgresDoBeginTransaction, DoSilentQuery,
         PostgresBegin, Answers, When
    <3>2. CASE o = Accepted(Opened(session, l), {})
      <4>1. o.session.next = "Default" /\ o.session.level = l
        BY <1>1, <3>2 DEF Accepted, Opened, Session
      <4> QED
        BY <1>1, <4>1, StrengthFacts DEF Grants
    <3>3. CASE session.mode = "open" /\ o = Accepted(session, {})
      BY <3>3 DEF Accepted
    <3>4. CASE o = Refused([session EXCEPT !.mode = "failed", !.pending = {}])
      BY <1>1, <3>4 DEF Refused, Session, Grants
    <3> QED
      BY <3>1, <3>2, <3>3, <3>4
  <2>3. CASE backend = "mariadb"
    <3>1. PICK set \in MariaDBSet(session, l) : o \in MariaDBBeginFrom(set)
      BY <2>3 DEF DoBeginTransaction, MariaDBDoBeginTransaction
    <3>2. \/ set = Refused(session)
             /\ (l = "Default" \/ session.mode # "idle" \/ ~connected)
          \/ set = Refused(Blank("lost"))
          \/ /\ session.mode = "idle" /\ connected
             /\ set = Accepted([session EXCEPT !.next = l], {})
      BY <3>1 DEF MariaDBSet, SetTransaction, DoSilentQuery, Answers, When
    <3>3. \/ o = Refused(set.session) /\ (set.session.mode \in {"none", "lost"} \/ ~connected)
          \/ o = Refused(Blank("lost"))
          \/ /\ set.session.mode \notin {"none", "lost"} /\ connected
             /\ o = Accepted([mode |-> "open", pending |-> {}, level |-> set.session.next,
                              next |-> "Default"], set.session.pending)
      BY <3>1 DEF MariaDBBeginFrom, MariaDBBegin, DoSilentQuery, Answers, When
    <3>4. /\ Refused(session).session = session
          /\ Refused(Blank("lost")).session = Blank("lost")
          /\ Blank("lost").mode = "lost" /\ Blank("lost").next = "Default"
          /\ Accepted([session EXCEPT !.next = l], {}).session = [session EXCEPT !.next = l]
      BY DEF Refused, Accepted, Blank
    <3>5. [session EXCEPT !.next = l].mode = session.mode
          /\ [session EXCEPT !.next = l].next = l
      BY <1>1 DEF Session
    <3>6. CASE o = Refused(Blank("lost"))
      BY <1>3, <3>6
    <3>7. CASE o = Refused(set.session) /\ (set.session.mode \in {"none", "lost"} \/ ~connected)
      <4>1. set.session = session \/ set.session = Blank("lost")
        BY <3>2, <3>4, <3>5, <3>7
      <4> QED
        BY <1>3, <3>7, <4>1
    <3>8. CASE /\ set.session.mode \notin {"none", "lost"} /\ connected
               /\ o = Accepted([mode |-> "open", pending |-> {}, level |-> set.session.next,
                                next |-> "Default"], set.session.pending)
      <4>1. /\ o.session.next = "Default" /\ o.session.mode = "open"
            /\ o.session.level = set.session.next
        BY <3>8 DEF Accepted
      <4>2. CASE set = Refused(session) /\ (l = "Default" \/ session.mode # "idle" \/ ~connected)
        <5>1. o.session.level = "Default" /\ session.mode \notin {"none", "lost"}
          BY <3>4, <3>8, <4>1, <4>2
        <5>2. session.mode \notin {"open", "failed"} => l = "Default"
          BY <1>1, <3>8, <4>2, <5>1 DEF Session, Modes
        <5> QED
          BY <1>1, <4>1, <5>1, <5>2, StrengthFacts DEF Grants
      <4>3. CASE set = Accepted([session EXCEPT !.next = l], {})
        <5>1. o.session.level = l
          BY <3>4, <3>5, <4>1, <4>3
        <5> QED
          BY <1>1, <4>1, <5>1, StrengthFacts DEF Grants
      <4> QED
        BY <3>2, <3>4, <3>8, <4>2, <4>3
    <3> QED
      BY <3>3, <3>6, <3>7, <3>8
  <2> QED
    BY <1>1, <2>1, <2>2, <2>3
<1> QED
  BY <1>2, <1>3

\* A step that opens no transaction and activates no handle.
LEMMA LevelKept ==
    ASSUME LevelHonoured, parted => parted', ActiveUnits' \subseteq ActiveUnits,
           \A u \in ActiveUnits : units'[u].level = units[u].level,
           session'.next = "Default",
           session'.mode = "open" => session.mode = "open" /\ session'.level = session.level
    PROVE  LevelHonoured'
  BY DEF LevelHonoured

LEMMA ActiveShrinks ==
    ASSUME \A k \in Handles : Owns(handles'[k]) => \E j \in Handles : handles'[k] = handles[j]
    PROVE  ActiveUnits' \subseteq ActiveUnits
<1> SUFFICES ASSUME NEW k \in Handles, Owns(handles'[k])
             PROVE  handles'[k].unit \in ActiveUnits
  BY DEF ActiveUnits, Owns
<1>1. PICK j \in Handles : handles'[k] = handles[j]
  OBVIOUS
<1> QED
  BY <1>1 DEF ActiveUnits

LEMMA ActiveInUnits == TypeOK => ActiveUnits \subseteq Units
  BY DEF TypeOK, ActiveUnits, Owns, Handle

LEMMA IssueKeepsLevel ==
    ASSUME TypeOK, NEW h \in Handles, NEW terminator, Issue(h, terminator)
    PROVE  \A u \in Units : units'[u].level = units[u].level
  BY DEF TypeOK, Issue, Unit

LEMMA RollbackIfOwnedKeepsLevel ==
    ASSUME TypeOK, LevelHonoured, NEW h \in Handles, RollbackIfOwned(h)
    PROVE  /\ \A u \in Units : units'[u].level = units[u].level
           /\ session'.next = "Default"
           /\ session'.mode = "open" => session.mode = "open" /\ session'.level = session.level
<1>1. session.next = "Default"
  BY DEF LevelHonoured
<1>2. CASE Owns(handles[h])
  <2>1. PICK o \in RollbackTransaction : Take(o)
    BY <1>2 DEF RollbackIfOwned
  <2>2. KeepsLevel(session, o)
    BY <1>1, <2>1, StatementsKeepLevel
  <2>3. Issue(h, "rollback")
    BY <1>2 DEF RollbackIfOwned
  <2> QED
    BY <2>1, <2>2, <2>3, IssueKeepsLevel DEF Take, KeepsLevel
<1>3. CASE ~Owns(handles[h])
  BY <1>1, <1>3 DEF RollbackIfOwned
<1> QED
  BY <1>2, <1>3

\* In step, BEGIN finds the engine outside a transaction.
LEMMA BeginLevel ==
    ASSUME TypeOK, Linear, Safe, InStep, LevelHonoured,
           ~parted' => ~parted /\ OpenExactlyWhileOwned',
           NEW h \in Handles, NEW u \in Units, NEW l \in AskedLevels, BeginTransaction(h, u, l)
    PROVE  LevelHonoured'
<1>1. PICK o \in DoBeginTransaction(l) : Take(o)
  BY DEF BeginTransaction
<1>2. session.next = "Default"
  BY DEF LevelHonoured
<1>3. session'.next = "Default"
  BY <1>1, <1>2, BeginGrants DEF Take
<1>4. ASSUME ~parted', session'.mode = "open", NEW v \in ActiveUnits'
      PROVE  Strength[session'.level] >= Strength[units'[v].level]
  <2>1. ActiveUnits = {}
    BY <1>4, BeginAlone
  <2>2. session.mode \notin {"open", "failed"}
    BY <1>4, <2>1 DEF InStep, OpenExactlyWhileOwned, Safe
  <2>3. Grants(o, l)
    BY <1>2, <2>2, BeginGrants
  <2>4. handles' = [handles EXCEPT ![h] = Fresh(u)]
        /\ units' = [units EXCEPT ![u] = [units[u] EXCEPT !.begun = TRUE, !.level = l]]
    BY DEF BeginTransaction
  <2>5. v = u
    BY <2>1, <2>4 DEF TypeOK, ActiveUnits, Owns, Fresh
  <2>6. units'[v].level = l
    BY <2>4, <2>5 DEF TypeOK, Unit
  <2> QED
    BY <1>1, <1>4, <2>3, <2>6 DEF Take, Grants
<1> QED
  BY <1>3, <1>4 DEF LevelHonoured

LEMMA LevelStep ==
    ASSUME TypeOK, Linear, Safe, InStep, LevelHonoured, [Next]_vars
    PROVE  LevelHonoured'
<1>1. session.next = "Default"
  BY DEF LevelHonoured
<1>2. CASE UNCHANGED vars
  BY <1>2 DEF vars, LevelHonoured, ActiveUnits, Owns
<1>3. CASE Next
  <2>1. Operation \/ Direct
    BY <1>3 DEF Next
  <2>2. parted => parted'
    BY <1>3 DEF Next, Notice
  <2>3. CASE Connect \/ Disconnect
    BY <2>2, <2>3, LevelKept DEF Connect, Disconnect, Blank, ActiveUnits, Owns
  <2>4. CASE Direct
    <3>1. PICK o \in CommitTransaction \cup RollbackTransaction : Take(o)
      BY <2>4 DEF Direct
    <3>2. KeepsLevel(session, o)
      BY <1>1, <3>1, StatementsKeepLevel
    <3>3. UNCHANGED <<handles, units>>
      BY <2>4 DEF Direct
    <3> QED
      BY <2>2, <3>1, <3>2, <3>3, LevelKept DEF Take, KeepsLevel, ActiveUnits, Owns
  <2>5. ASSUME NEW w \in Writes, SilentQuery(w)
        PROVE  LevelHonoured'
    <3>1. PICK o \in DoSilentQuery(session, WriteStatement(backend, session, w)) :
             /\ Take(o)
             /\ units' = [u \in Units |->
                   [units[u] EXCEPT !.refused = @ \/ (u \in ActiveUnits /\ ~o.ok)]]
      BY <2>5 DEF SilentQuery
    <3>2. KeepsLevel(session, o)
      BY <1>1, <3>1, StatementsKeepLevel
    <3>3. \A u \in Units : units'[u].level = units[u].level
      BY <3>1 DEF TypeOK, Unit
    <3>4. ActiveUnits' = ActiveUnits
      BY <2>5 DEF SilentQuery, ActiveUnits, Owns
    <3> QED
      BY <2>2, <3>1, <3>2, <3>3, <3>4, ActiveInUnits, LevelKept DEF Take, KeepsLevel
  <2>6. ASSUME NEW h \in Handles, NEW u \in Units, NEW l \in AskedLevels,
               BeginTransaction(h, u, l)
        PROVE  LevelHonoured'
    <3>1. Operation
      BY <2>6 DEF Operation
    <3>2. ~parted' => ~parted /\ OpenExactlyWhileOwned'
      BY <1>3 DEF Next, Notice
    <3> QED
      BY <2>6, <3>2, BeginLevel
  <2>7. ASSUME NEW h \in Handles, Commit(h) \/ Rollback(h)
        PROVE  LevelHonoured'
    <3>1. PICK o \in CommitTransaction \cup RollbackTransaction : Take(o)
      BY <2>7 DEF Commit, Rollback
    <3>2. KeepsLevel(session, o)
      BY <1>1, <3>1, StatementsKeepLevel
    <3>3. \A u \in Units : units'[u].level = units[u].level
      BY <2>7, IssueKeepsLevel DEF Commit, Rollback
    <3>4. handles' = [handles EXCEPT ![h] = Inactive(handles[h])]
      BY <2>7 DEF Commit, Rollback
    <3>5. ActiveUnits' \subseteq ActiveUnits
      BY <3>4, ActiveShrinks DEF TypeOK, Inactive, Owns, Handle, HandleFields
    <3> QED
      BY <2>2, <3>1, <3>2, <3>3, <3>5, ActiveInUnits, LevelKept DEF Take, KeepsLevel
  <2>8. ASSUME NEW h \in Handles, Destroy(h)
        PROVE  LevelHonoured'
    <3>1. RollbackIfOwned(h) /\ handles' = [handles EXCEPT ![h] = Absent]
      BY <2>8 DEF Destroy
    <3>2. ActiveUnits' \subseteq ActiveUnits
      BY <3>1, ActiveShrinks DEF TypeOK, Absent, Owns
    <3> QED
      BY <2>2, <3>1, <3>2, ActiveInUnits, RollbackIfOwnedKeepsLevel, LevelKept
  <2>9. ASSUME NEW h \in Handles, NEW g \in Handles, MoveConstruct(h, g) \/ MoveAssign(h, g)
        PROVE  LevelHonoured'
    <3>1. handles' = [handles EXCEPT ![g] = handles[h], ![h] = MovedFrom(@)]
      BY <2>9 DEF MoveConstruct, MoveAssign
    <3>2. ~Owns(handles'[h]) /\ \A k \in Handles \ {h} : handles'[k] \in {handles[k], handles[h]}
      BY <3>1 DEF TypeOK, MovedFrom, Owns, Handle, HandleFields
    <3>3. ActiveUnits' \subseteq ActiveUnits
      BY <3>2, ActiveShrinks
    <3>4. /\ \A u \in Units : units'[u].level = units[u].level
          /\ session'.next = "Default"
          /\ session'.mode = "open" => session.mode = "open" /\ session'.level = session.level
      BY <1>1, <2>9, RollbackIfOwnedKeepsLevel DEF MoveConstruct, MoveAssign
    <3> QED
      BY <2>2, <3>3, <3>4, ActiveInUnits, LevelKept
  <2> QED
    BY <2>1, <2>3, <2>4, <2>5, <2>6, <2>7, <2>8, <2>9 DEF Operation
<1> QED
  BY <1>2, <1>3

\* Whatever level is asked for, of whichever engine and whatever it refuses or
\* loses, the transaction of the active handle runs at no less, as long as
\* engine and handle keep in step; and the one-shot level that MariaDB is given
\* never outlives the BEGIN it was given for.
THEOREM TransactionsGetTheirLevel == Spec => []LevelHonoured
<1>1. Init => Safe /\ InStep /\ LevelHonoured
  BY DEF Init, Blank, Absent, Safe, Healthy, InStep, OpenExactlyWhileOwned, ActiveUnits,
         Owns, DurableOnlyByCommit, LevelHonoured
<1> QED
  BY <1>1, LinearInit, LinearStep, SafeStep, InStepStep, LevelStep, TypeCorrect, PTL DEF Spec

-----------------------------------------------------------------------------
(***************************************************************************)
(* An application that takes no liberties.  Its steps are of four kinds,   *)
(* whichever handle they are taken with.                                   *)
(***************************************************************************)

\* Nothing happens to a transaction.
Moot ==
    /\ ActiveUnits' = ActiveUnits
    /\ UNCHANGED <<backend, durable, units, writes>>
    /\ \/ UNCHANGED <<connected, session>>
       \/ ActiveUnits = {} /\ ~connected /\ connected' /\ session' = Blank("idle")
       \/ ActiveUnits = {} /\ ~connected' /\ session' = Blank("none")

Begins(u, l) ==
    /\ connected /\ ActiveUnits = {} /\ ~units[u].begun
    /\ ActiveUnits' = {u}
    /\ \E o \in DoBeginTransaction(l) : Take(o)
    /\ units' = [units EXCEPT ![u] = [@ EXCEPT !.begun = TRUE, !.level = l]]
    /\ UNCHANGED <<backend, connected, writes>>

Ends(u, terminator) ==
    /\ ActiveUnits = {u} /\ Running(u)
    /\ ActiveUnits' = {}
    /\ \/ terminator = "commit" /\ \E o \in CommitTransaction : Take(o)
       \/ terminator = "rollback" /\ \E o \in RollbackTransaction : Take(o)
    /\ units' = [units EXCEPT ![u].issued = <<terminator>>]
    /\ UNCHANGED <<backend, connected, writes>>

\* Engine and handles agree, and no transaction is begun before Connect or left
\* at Disconnect.
InTune ==
    /\ OpenExactlyWhileOwned
    /\ ~connected => ActiveUnits = {}
    /\ connected => session.mode # "none"

\* With an engine that refuses writes only: no connection is lost, a refused
\* write costs PostgreSQL the transaction, and what was acknowledged in the
\* transaction of the active handle is pending.
Sound ==
    /\ session.mode # "lost"
    /\ session.mode = "failed" => backend = "postgres"
    /\ backend = "postgres" =>
          \A u \in ActiveUnits : units[u].refused <=> session.mode = "failed"
    /\ \A u \in Units : units[u].begun \/ ~units[u].refused
    /\ \A w \in Writes : \A u \in writes[w].cover : units[u].begun
    /\ \A w \in Writes :
          session.mode = "open" /\ writes[w].acked /\ writes[w].cover = ActiveUnits
              => w \in session.pending
    /\ CommitIsDurable

\* The terminator of the only active transaction.
LEMMA TerminatorEnds ==
    ASSUME TypeOK, Linear, \A u, v \in ActiveUnits : u = v,
           NEW h \in Handles, Owns(handles[h]),
           NEW terminator \in {"commit", "rollback"}, Issue(h, terminator),
           \A k \in Handles : Owns(handles'[k]) =>
               \E j \in Handles \ {h} : handles'[k] = handles[j]
    PROVE  LET v == handles[h].unit
           IN /\ v \in Units /\ Running(v)
              /\ ActiveUnits = {v} /\ ActiveUnits' = {}
              /\ units' = [units EXCEPT ![v].issued = <<terminator>>]
<1> DEFINE v == handles[h].unit
<1>1. v \in ActiveUnits /\ v \in Units /\ Running(v)
  BY OwnedIsActive
<1>2. ActiveUnits = {v}
  BY <1>1
<1>3. ActiveUnits' = {}
  <2> SUFFICES ASSUME NEW k \in Handles, Owns(handles'[k])
               PROVE  FALSE
    BY DEF ActiveUnits, Owns
  <2>1. PICK j \in Handles \ {h} : handles'[k] = handles[j]
    OBVIOUS
  <2>2. Owns(handles[j]) /\ handles[j].unit \in ActiveUnits
    BY <2>1 DEF ActiveUnits
  <2>3. Mine(j, v) /\ Mine(h, v)
    BY <1>2, <2>2 DEF Mine
  <2> QED
    BY <1>1, <2>3 DEF Linear
<1>4. units' = [units EXCEPT ![v].issued = <<terminator>>]
  <2>1. Append(<<>>, terminator) = <<terminator>>
    OBVIOUS
  <2> QED
    BY <1>1, <2>1 DEF Issue, Running
<1> QED
  BY <1>1, <1>2, <1>3, <1>4

LEMMA StepKinds ==
    ASSUME Liberties = {}, TypeOK, Linear, InTune, [Next]_vars
    PROVE  \/ Moot
           \/ \E u \in Units, l \in AskedLevels : Begins(u, l)
           \/ \E u \in Units, terminator \in {"commit", "rollback"} : Ends(u, terminator)
           \/ \E w \in Writes : SilentQuery(w)
<1>0. \A u, v \in ActiveUnits : u = v
  BY DEF InTune, OpenExactlyWhileOwned
<1>1. CASE UNCHANGED vars
  BY <1>1 DEF vars, Moot, ActiveUnits, Owns
<1>2. CASE Connect \/ Disconnect
  <2>1. ActiveUnits' = ActiveUnits
    BY <1>2 DEF Connect, Disconnect, ActiveUnits, Owns
  <2>2. CASE Connect
    BY <2>1, <2>2 DEF Connect, Moot, InTune
  <2>3. CASE Disconnect
    BY <2>1, <2>3 DEF Disconnect, Moot
  <2> QED
    BY <1>2, <2>2, <2>3
<1>3. ASSUME NEW h \in Handles, NEW u \in Units, NEW l \in AskedLevels,
             BeginTransaction(h, u, l)
      PROVE  Begins(u, l)
  <2>1. connected /\ ActiveUnits = {} /\ handles' = [handles EXCEPT ![h] = Fresh(u)]
    BY <1>3 DEF BeginTransaction
  <2>2. \A g \in Handles : ~Owns(handles[g])
    BY <2>1 DEF ActiveUnits
  <2>3. handles'[h] = Fresh(u) /\ \A g \in Handles \ {h} : ~Owns(handles'[g])
    BY <2>1, <2>2 DEF TypeOK
  <2>4. ActiveUnits' = {u}
    BY <2>3 DEF ActiveUnits, Owns, Fresh
  <2> QED
    BY <1>3, <2>1, <2>4 DEF BeginTransaction, Begins
<1>4. ASSUME NEW h \in Handles, Commit(h) \/ Rollback(h)
      PROVE  \E u \in Units, terminator \in {"commit", "rollback"} : Ends(u, terminator)
  <2>1. Owns(handles[h]) /\ handles' = [handles EXCEPT ![h] = Inactive(handles[h])]
        /\ UNCHANGED <<backend, connected, writes>>
    BY <1>4 DEF Commit, Rollback
  <2>2. \A k \in Handles : Owns(handles'[k]) =>
            \E j \in Handles \ {h} : handles'[k] = handles[j]
    BY <2>1 DEF TypeOK, Inactive, Owns, Handle, HandleFields
  <2>3. CASE Commit(h)
    BY <2>1, <2>2, <2>3, <1>0, TerminatorEnds DEF Commit, Ends
  <2>4. CASE Rollback(h)
    BY <2>1, <2>2, <2>4, <1>0, TerminatorEnds DEF Rollback, Ends
  <2> QED
    BY <1>4, <2>3, <2>4
<1>5. ASSUME NEW h \in Handles, Destroy(h)
      PROVE  Moot \/ \E u \in Units : Ends(u, "rollback")
  <2>1. RollbackIfOwned(h) /\ handles' = [handles EXCEPT ![h] = Absent]
        /\ UNCHANGED <<backend, connected, writes>>
    BY <1>5 DEF Destroy
  <2>2. \A k \in Handles : Owns(handles'[k]) =>
            k # h /\ handles'[k] = handles[k]
    BY <2>1 DEF TypeOK, Absent, Owns
  <2>3. CASE Owns(handles[h])
    BY <2>1, <2>2, <2>3, <1>0, TerminatorEnds DEF RollbackIfOwned, Ends
  <2>4. CASE ~Owns(handles[h])
    <3>1. \A k \in Handles : Owns(handles'[k]) <=> Owns(handles[k])
      BY <2>1, <2>4 DEF TypeOK, Absent, Owns
    <3>2. ActiveUnits' = ActiveUnits
      BY <2>2, <3>1 DEF ActiveUnits, Owns
    <3> QED
      BY <2>1, <2>4, <3>2 DEF RollbackIfOwned, Moot
  <2> QED
    BY <2>3, <2>4
<1>6. ASSUME NEW h \in Handles, NEW g \in Handles, MoveConstruct(h, g)
      PROVE  Moot
  <2>1. ~Owns(handles[g]) /\ h # g
    BY <1>6 DEF MoveConstruct, TypeOK, Handle, Owns
  <2>2. ActiveUnits' = ActiveUnits
    BY <1>6, <2>1, MoveKeepsActive DEF MoveConstruct
  <2> QED
    BY <1>6, <2>2 DEF MoveConstruct, Moot
<1>7. ASSUME NEW h \in Handles, NEW g \in Handles, MoveAssign(h, g)
      PROVE  Moot \/ \E u \in Units : Ends(u, "rollback")
  <2>1. /\ h # g /\ RollbackIfOwned(g) /\ UNCHANGED <<backend, connected, writes>>
        /\ handles' = [handles EXCEPT ![g] = handles[h], ![h] = MovedFrom(@)]
    BY <1>7 DEF MoveAssign
  <2>2. CASE ~Owns(handles[g])
    <3>1. ActiveUnits' = ActiveUnits
      BY <2>1, <2>2, MoveKeepsActive
    <3> QED
      BY <2>1, <2>2, <3>1 DEF RollbackIfOwned, Moot
  <2>3. CASE Owns(handles[g])
    <3>1. \A k \in Handles : Owns(handles'[k]) =>
              \E j \in Handles \ {g} : handles'[k] = handles[j]
      BY <2>1 DEF TypeOK, MovedFrom, Owns, Handle, HandleFields
    <3> QED
      BY <2>1, <2>3, <3>1, <1>0, TerminatorEnds DEF RollbackIfOwned, Ends
  <2> QED
    BY <2>2, <2>3
<1> QED
  BY <1>1, <1>2, <1>3, <1>4, <1>5, <1>6, <1>7 DEF Next, Operation, Direct

(***************************************************************************)
(* What the engine answers when it does no worse than to refuse a write or *)
(* to lose the connection.                                                 *)
(***************************************************************************)

\* The connection, and nothing more, may be lost.
Lost(s, o) == o.session.mode = "lost" /\ ~o.ok /\ (s.mode = "lost" \/ "drop" \in Faults)

LEMMA LostAnswers ==
    ASSUME Faults \subseteq {"write", "drop"}, NEW b, NEW s \in Session, s.mode # "none", NEW usual,
           NEW o \in Answers(b, s, usual)
    PROVE  Lost(s, o) \/ (s.mode # "lost" /\ o \in usual)
<1>1. Refused(s).session = s /\ Refused(Blank("lost")).session.mode = "lost"
      /\ ~Refused(s).ok /\ ~Refused(Blank("lost")).ok
  BY DEF Refused, Blank
<1>2. CASE s.mode = "lost"
  BY <1>1, <1>2 DEF Answers, Lost
<1>3. CASE s.mode # "lost"
  <2>1. o \in usual \/ (o = Refused(Blank("lost")) /\ CanDrop(b))
    BY <1>3 DEF Answers, When
  <2> QED
    BY <1>1, <1>3, <2>1 DEF Lost, CanDrop
<1> QED
  BY <1>2, <1>3

LEMMA CommitEnds ==
    ASSUME Faults \subseteq {"write", "drop"}, NEW b, NEW s \in Session,
           s.mode \in {"open", "failed", "lost"}, NEW o \in CommitStatement(b, s)
    PROVE  \/ Lost(s, o)
           \/ s.mode = "open" /\ o = Accepted(Ended(s), s.pending)
           \/ s.mode = "failed" /\ o = Accepted(Ended(s), {})
<1> DEFINE inDoubt == [Refused(Blank("lost")) EXCEPT !.saved = s.pending]
           usual == CASE s.mode = "idle" -> {[Accepted(s, {}) EXCEPT !.ok = b # "sqlite"]}
                      [] s.mode = "failed" -> {Accepted(Ended(s), {})}
                      [] OTHER -> {Accepted(Ended(s), s.pending)}
                            \cup When("commit" \in Faults,
                                      {Refused(IF b = "sqlite" THEN s ELSE Ended(s))})
                            \cup When(CanDrop(b), {inDoubt})
<1>1. o \in Answers(b, s, usual)
  BY DEF CommitStatement
<1>2. Lost(s, o) \/ (s.mode # "lost" /\ o \in usual)
  <2> HIDE DEF usual
  <2> QED
    BY <1>1, LostAnswers
<1>3. CASE s.mode = "failed" /\ o \in usual
  BY <1>3
<1>4. CASE s.mode = "open" /\ o \in usual
  <2>1. "commit" \notin Faults
    OBVIOUS
  <2>2. o = Accepted(Ended(s), s.pending) \/ (o = inDoubt /\ CanDrop(b))
    <3> HIDE DEF inDoubt
    <3> QED
      BY <1>4, <2>1 DEF When
  <2>3. inDoubt.session.mode = "lost" /\ ~inDoubt.ok
    BY DEF Refused, Blank
  <2> HIDE DEF inDoubt
  <2> QED
    BY <1>4, <2>2, <2>3 DEF Lost, CanDrop
<1> QED
  BY <1>2, <1>3, <1>4

LEMMA RollbackEnds ==
    ASSUME Faults \subseteq {"write", "drop"}, NEW b, NEW s \in Session,
           s.mode \in {"open", "failed", "lost"}, NEW o \in RollbackStatement(b, s)
    PROVE  \/ Lost(s, o)
           \/ s.mode \in {"open", "failed"} /\ o = Accepted(Ended(s), {})
<1>1. o \in Answers(b, s, {Accepted(Ended(s), {})})
  BY DEF RollbackStatement
<1>2. Lost(s, o) \/ (s.mode # "lost" /\ o \in {Accepted(Ended(s), {})})
  BY <1>1, LostAnswers
<1> QED
  BY <1>2

LEMMA BeginOpens ==
    ASSUME Faults \subseteq {"write", "drop"}, TypeOK, connected,
           session.mode \in {"idle", "lost"}, session.pending = {},
           NEW l \in AskedLevels, NEW o \in DoBeginTransaction(l)
    PROVE  \/ Lost(session, o)
           \/ /\ session.mode = "idle" /\ o.session.mode = "open"
              /\ o.session.pending = {} /\ o.saved = {}
<1>1. session \in Session /\ l \in Levels /\ backend \in Backends
  BY ParametersAssumption DEF TypeOK
<1>2. \A k \in Levels : /\ Accepted(Opened(session, k), {}).session.mode = "open"
                        /\ Accepted(Opened(session, k), {}).session.pending = {}
                        /\ Accepted(Opened(session, k), {}).saved = {}
  BY <1>1 DEF Accepted, Opened, Session
<1>3. CASE backend = "sqlite"
  <2> DEFINE usual == SQLiteBegin(session, l \in {"RepeatableRead", "Serializable"})
  <2>1. o \in Answers(backend, session, usual)
    BY <1>3 DEF DoBeginTransaction, SQLiteDoBeginTransaction, DoSilentQuery
  <2>2. session.mode = "idle" => usual = {Accepted(Opened(session, "Serializable"), {})}
    BY DEF SQLiteBegin, When
  <2> HIDE DEF usual
  <2>3. Lost(session, o) \/ (session.mode # "lost" /\ o \in usual)
    BY <1>1, <2>1, LostAnswers
  <2> QED
    BY <1>2, <2>2, <2>3
<1>4. CASE backend = "postgres"
  <2>1. o \in Answers(backend, session, PostgresBegin(session, l))
    BY <1>4 DEF DoBeginTransaction, PostgresDoBeginTransaction, DoSilentQuery
  <2>2. Lost(session, o) \/ (session.mode # "lost" /\ o \in PostgresBegin(session, l))
    BY <1>1, <2>1, LostAnswers
  <2>3. session.mode = "idle" => PostgresBegin(session, l) = {Accepted(Opened(session, l), {})}
    BY DEF PostgresBegin
  <2> QED
    BY <1>1, <1>2, <2>2, <2>3
<1>5. CASE backend = "mariadb"
  <2>1. PICK set \in MariaDBSet(session, l) : o \in MariaDBBeginFrom(set)
    BY <1>5 DEF DoBeginTransaction, MariaDBDoBeginTransaction
  <2>2. set = Refused(session) \/ set \in SetTransaction(backend, session, l)
    BY <2>1 DEF MariaDBSet, DoSilentQuery
  <2>3. set.session \in Session
    BY <1>1, <2>2, SetTransactionType DEF Refused, Outcome
  <2>4. \/ Lost(session, set)
        \/ set.session.mode = session.mode /\ set.session.pending = {}
    <3>1. CASE set = Refused(session)
      BY <3>1 DEF Refused
    <3>2. CASE set \in SetTransaction(backend, session, l)
      <4> DEFINE usual == IF session.mode = "idle"
                          THEN {Accepted([session EXCEPT !.next = l], {})}
                          ELSE {Refused(session)}
      <4>1. set \in Answers(backend, session, usual)
        BY <3>2 DEF SetTransaction
      <4>2. \A x \in usual : x.session.mode = session.mode /\ x.session.pending = {}
        BY <1>1 DEF Accepted, Refused, Session
      <4> HIDE DEF usual
      <4>3. Lost(session, set) \/ set \in usual
        BY <1>1, <4>1, LostAnswers
      <4> QED
        BY <4>2, <4>3
    <3> QED
      BY <2>2, <3>1, <3>2
  <2>5. o \in Answers(backend, set.session, MariaDBBegin(set.session))
    BY <2>1 DEF MariaDBBeginFrom, DoSilentQuery
  <2>6. Lost(set.session, o) \/ (set.session.mode # "lost" /\ o \in MariaDBBegin(set.session))
    BY <2>3, <2>4, <2>5, LostAnswers DEF Lost
  <2>7. CASE Lost(set.session, o)
    BY <2>4, <2>7 DEF Lost
  <2>8. CASE set.session.mode # "lost" /\ o \in MariaDBBegin(set.session)
    <3>1. set.session.pending = {} /\ session.mode = "idle"
      BY <2>4, <2>8 DEF Lost
    <3>2. o.session.mode = "open" /\ o.session.pending = {} /\ o.saved = set.session.pending
      BY <2>8 DEF MariaDBBegin, Accepted
    <3> QED
      BY <3>1, <3>2
  <2> QED
    BY <2>6, <2>7, <2>8
<1> QED
  BY <1>1, <1>3, <1>4, <1>5

LEMMA WriteAnswers ==
    ASSUME Faults \subseteq {"write", "drop"}, NEW b, NEW s \in Session, s.mode # "none",
           NEW w \in Writes, NEW o \in WriteStatement(b, s, w)
    PROVE  \/ Lost(s, o)
           \/ s.mode = "idle" /\ o = Accepted([s EXCEPT !.next = "Default"], {w})
           \/ s.mode = "open" /\ o = Accepted([s EXCEPT !.pending = @ \cup {w}], {})
           \/ s.mode \in {"idle", "failed"} /\ o = Refused(s)
           \/ s.mode = "open" /\ b # "postgres" /\ o = Refused(s)
           \/ /\ s.mode = "open" /\ b = "postgres"
              /\ o = Refused([s EXCEPT !.mode = "failed", !.pending = {}])
<1> DEFINE refused == IF b = "postgres" THEN [s EXCEPT !.mode = "failed", !.pending = {}] ELSE s
           usual == CASE s.mode = "idle" ->
                           {Accepted([s EXCEPT !.next = "Default"], {w})}
                               \cup When("write" \in Faults, {Refused(s)})
                      [] s.mode = "open" ->
                           {Accepted([s EXCEPT !.pending = @ \cup {w}], {})}
                               \cup When("write" \in Faults, {Refused(refused)})
                               \cup When("abort" \in Faults /\ b # "postgres", {Refused(Ended(s))})
                      [] OTHER -> {Refused(s)}
<1>1. o \in Answers(b, s, usual)
  BY DEF WriteStatement
<1>2. Lost(s, o) \/ (s.mode # "lost" /\ o \in usual)
  <2> HIDE DEF usual
  <2> QED
    BY <1>1, LostAnswers
<1>3. CASE s.mode = "idle" /\ o \in usual
  BY <1>3 DEF When
<1>4. CASE s.mode = "open" /\ o \in usual
  <2>1. "abort" \notin Faults
    OBVIOUS
  <2>2. o = Accepted([s EXCEPT !.pending = @ \cup {w}], {}) \/ o = Refused(refused)
    <3> HIDE DEF refused
    <3> QED
      BY <1>4, <2>1 DEF When
  <2> QED
    BY <1>4, <2>2
<1>5. CASE s.mode = "failed" /\ o \in usual
  BY <1>5
<1> QED
  BY <1>2, <1>3, <1>4, <1>5 DEF Session

-----------------------------------------------------------------------------
(***************************************************************************)
(* Engine and handles agree.                                               *)
(***************************************************************************)

LEMMA InTuneInit == Init => InTune
  BY DEF Init, InTune, OpenExactlyWhileOwned, ActiveUnits, Owns, Blank, Absent

LEMMA InTuneStep ==
    ASSUME Liberties = {}, Faults \subseteq {"write", "drop"},
           TypeOK, Linear, Safe, InTune, [Next]_vars
    PROVE  InTune'
<1>1. session \in Session /\ (~connected => session.mode = "none")
  BY DEF TypeOK, Safe
<1>2. CASE Moot
  BY <1>2 DEF Moot, InTune, OpenExactlyWhileOwned, Blank
<1>3. ASSUME NEW u \in Units, NEW l \in AskedLevels, Begins(u, l)
      PROVE  InTune'
  <2>1. PICK o \in DoBeginTransaction(l) : Take(o)
    BY <1>3 DEF Begins
  <2>2. connected /\ ActiveUnits = {} /\ connected' = connected /\ ActiveUnits' = {u}
    BY <1>3 DEF Begins
  <2>3. session.mode \in {"idle", "lost"}
    BY <1>1, <2>2 DEF InTune, OpenExactlyWhileOwned, Session
  <2>4. session.pending = {}
    BY <2>3 DEF Safe, Healthy
  <2>5. o.session.mode \in {"open", "lost"}
    BY <2>1, <2>2, <2>3, <2>4, BeginOpens DEF Lost
  <2> QED
    BY <2>1, <2>2, <2>5 DEF Take, InTune, OpenExactlyWhileOwned
<1>4. ASSUME NEW u \in Units, NEW terminator \in {"commit", "rollback"}, Ends(u, terminator)
      PROVE  InTune'
  <2>1. PICK o \in CommitTransaction \cup RollbackTransaction : Take(o)
    BY <1>4 DEF Ends
  <2>2. ActiveUnits = {u} /\ ActiveUnits' = {} /\ connected' = connected
    BY <1>4 DEF Ends
  <2>3. connected /\ session.mode \in {"open", "failed", "lost"}
    BY <1>1, <2>2 DEF InTune, OpenExactlyWhileOwned
  <2>4. o \in CommitStatement(backend, session) \cup RollbackStatement(backend, session)
    BY <2>1, <2>3 DEF CommitTransaction, RollbackTransaction, DoSilentQuery
  <2>5. Ended(session).mode = "idle"
    BY <1>1 DEF Ended, Session
  <2>6. o.session.mode \in {"idle", "lost"}
    BY <1>1, <2>3, <2>4, <2>5, CommitEnds, RollbackEnds DEF Lost, Accepted
  <2> QED
    BY <2>1, <2>2, <2>3, <2>6 DEF Take, InTune, OpenExactlyWhileOwned
<1>5. ASSUME NEW w \in Writes, SilentQuery(w)
      PROVE  InTune'
  <2>1. PICK o \in DoSilentQuery(session, WriteStatement(backend, session, w)) : Take(o)
    BY <1>5 DEF SilentQuery
  <2>2. connected /\ connected' = connected /\ ActiveUnits' = ActiveUnits
    BY <1>5 DEF SilentQuery, ActiveUnits, Owns
  <2>3. o \in WriteStatement(backend, session, w) /\ session.mode # "none"
    BY <2>1, <2>2 DEF DoSilentQuery, InTune
  <2>4. \/ o.session.mode = "lost"
        \/ session.mode = "idle" /\ o.session.mode = "idle"
        \/ session.mode \in {"open", "failed"} /\ o.session.mode \in {"open", "failed"}
    <3>1. [session EXCEPT !.next = "Default"].mode = session.mode
          /\ [session EXCEPT !.pending = @ \cup {w}].mode = session.mode
          /\ [session EXCEPT !.mode = "failed", !.pending = {}].mode = "failed"
      BY <1>1 DEF Session
    <3>2. \/ Lost(session, o)
          \/ session.mode = "idle" /\ o = Accepted([session EXCEPT !.next = "Default"], {w})
          \/ session.mode = "open" /\ o = Accepted([session EXCEPT !.pending = @ \cup {w}], {})
          \/ session.mode \in {"idle", "open", "failed"} /\ o = Refused(session)
          \/ /\ session.mode = "open"
             /\ o = Refused([session EXCEPT !.mode = "failed", !.pending = {}])
      BY <1>1, <2>3, WriteAnswers
    <3>3. \A s : Refused(s).session = s /\ \A saved : Accepted(s, saved).session = s
      BY DEF Refused, Accepted
    <3> DEFINE reset == [session EXCEPT !.next = "Default"]
               taken == [session EXCEPT !.pending = @ \cup {w}]
               failed == [session EXCEPT !.mode = "failed", !.pending = {}]
    <3>4. reset.mode = session.mode /\ taken.mode = session.mode /\ failed.mode = "failed"
      BY <3>1
    <3>5. \/ Lost(session, o)
          \/ session.mode = "idle" /\ o.session = reset
          \/ session.mode = "open" /\ o.session = taken
          \/ session.mode \in {"idle", "open", "failed"} /\ o.session = session
          \/ session.mode = "open" /\ o.session = failed
      BY <3>2, <3>3
    <3> HIDE DEF reset, taken, failed
    <3> QED
      BY <3>4, <3>5 DEF Lost
  <2> QED
    BY <1>1, <2>1, <2>2, <2>3, <2>4 DEF Take, InTune, OpenExactlyWhileOwned
<1> QED
  BY <1>2, <1>3, <1>4, <1>5, StepKinds

\* An application that takes no liberties, on an engine that refuses nothing but
\* writes and may lose the connection: the engine is in a transaction exactly
\* while one handle is active.
THEOREM OpenWhileOwned ==
    ASSUME Liberties = {}, Faults \subseteq {"write", "drop"}
    PROVE  Spec => []OpenExactlyWhileOwned
<1>1. Init => Safe
  BY DEF Init, Blank, Safe, Healthy
<1>2. TypeOK /\ Linear /\ Safe /\ InTune /\ [Next]_vars => InTune'
  BY InTuneStep
<1>3. InTune => OpenExactlyWhileOwned
  BY DEF InTune
<1> QED
  BY <1>1, <1>2, <1>3, InTuneInit, LinearInit, LinearStep, SafeStep, TypeCorrect, PTL DEF Spec

\* The promise of database.hxx:151 without reserve, for an application that takes
\* no liberties and an engine that never refuses BEGIN or COMMIT nor aborts on its
\* own: a write made under a transaction is durable only once Commit was called on
\* it, a connection lost at any moment included.
THEOREM DurableOnlyOnceCommitted ==
    ASSUME Liberties = {}, Faults \subseteq {"write", "drop"}
    PROVE  Spec => []DurableOnlyByCommit
<1>1. Init => Safe /\ ~parted
  BY DEF Init, Blank, Safe, Healthy
<1>2. TypeOK /\ Linear /\ Safe /\ InTune /\ [Next]_vars => InTune'
  BY InTuneStep
<1>3. ~parted /\ InTune' /\ [Next]_vars => ~parted'
  BY DEF Next, Notice, Direct, InTune, vars
<1>4. ~parted /\ DurableOnlyByCommitInStep => DurableOnlyByCommit
  BY DEF DurableOnlyByCommitInStep
<1> QED
  BY <1>1, <1>2, <1>3, <1>4, InTuneInit, LinearInit, LinearStep, SafeStep,
     TypeCorrect, OnlyCommitMakesDurable, PTL DEF Spec

-----------------------------------------------------------------------------
(***************************************************************************)
(* What the steps do when the engine refuses nothing but writes.           *)
(***************************************************************************)

LEMMA NotLost ==
    ASSUME Faults \subseteq {"write"}, Sound, NEW o
    PROVE  Faults \subseteq {"write", "drop"} /\ ~Lost(session, o)
  BY DEF Lost, Sound

LEMMA BeginEffect ==
    ASSUME Faults \subseteq {"write"}, TypeOK, Safe, InTune, Sound,
           NEW u \in Units, NEW l \in AskedLevels, Begins(u, l)
    PROVE  /\ session.mode = "idle" /\ session'.mode = "open"
           /\ session.pending = {} /\ session'.pending = {}
           /\ durable' = durable
<1>1. PICK o \in DoBeginTransaction(l) : Take(o)
  BY DEF Begins
<1>2. session.mode = "idle"
  BY DEF Begins, InTune, OpenExactlyWhileOwned, Sound, TypeOK, Session
<1>3. connected /\ session.pending = {}
  BY <1>2 DEF Begins, Safe, Healthy
<1>4. o.session.mode = "open" /\ o.session.pending = {} /\ o.saved = {}
  BY <1>2, <1>3, NotLost, BeginOpens
<1> QED
  BY <1>1, <1>2, <1>3, <1>4 DEF Take

LEMMA EndEffect ==
    ASSUME Faults \subseteq {"write"}, TypeOK, Safe, InTune, Sound,
           NEW u \in Units, NEW terminator \in {"commit", "rollback"}, Ends(u, terminator)
    PROVE  /\ session.mode \in {"open", "failed"}
           /\ session'.mode = "idle" /\ session'.pending = {}
           /\ terminator = "commit" /\ session.mode = "open" =>
                 durable' = durable \cup session.pending
           /\ terminator = "rollback" \/ session.mode = "failed" => durable' = durable
<1>1. PICK o \in CommitTransaction \cup RollbackTransaction :
          /\ Take(o)
          /\ terminator = "commit" => o \in CommitTransaction
          /\ terminator = "rollback" => o \in RollbackTransaction
  BY DEF Ends
<1>2. connected /\ session.mode \in {"open", "failed"} /\ session \in Session
  BY DEF Ends, InTune, OpenExactlyWhileOwned, Sound, TypeOK
<1>3. Ended(session).mode = "idle" /\ Ended(session).pending = {}
  BY <1>2 DEF Ended, Session
<1>4. \A t, saved : Accepted(t, saved).session = t /\ Accepted(t, saved).saved = saved
  BY DEF Accepted
<1>5. CASE terminator = "commit"
  <2>1. o \in CommitStatement(backend, session)
    BY <1>1, <1>2, <1>5 DEF CommitTransaction, DoSilentQuery
  <2>2. \/ session.mode = "open" /\ o = Accepted(Ended(session), session.pending)
        \/ session.mode = "failed" /\ o = Accepted(Ended(session), {})
    BY <1>2, <2>1, NotLost, CommitEnds
  <2> QED
    BY <1>1, <1>2, <1>3, <1>4, <1>5, <2>2 DEF Take
<1>6. CASE terminator = "rollback"
  <2>1. o \in RollbackStatement(backend, session)
    BY <1>1, <1>2, <1>6 DEF RollbackTransaction, DoSilentQuery
  <2>2. o = Accepted(Ended(session), {})
    BY <1>2, <2>1, NotLost, RollbackEnds
  <2> QED
    BY <1>1, <1>2, <1>3, <1>4, <1>6, <2>2 DEF Take
<1> QED
  BY <1>5, <1>6

\* A write goes through, at once or pending, or it is refused, and PostgreSQL
\* then gives the transaction up.
GoesThrough(w) ==
    /\ writes' = [writes EXCEPT ![w] = [asked |-> TRUE, cover |-> ActiveUnits, acked |-> TRUE]]
    /\ units' = units
    /\ \/ /\ session.mode = "idle" /\ session'.mode = "idle"
          /\ session'.pending = session.pending
          /\ durable' = durable \cup {w}
       \/ /\ session.mode = "open" /\ session'.mode = "open"
          /\ session'.pending = session.pending \cup {w}
          /\ durable' = durable

IsRefused(w) ==
    /\ writes' = [writes EXCEPT ![w] = [asked |-> TRUE, cover |-> ActiveUnits, acked |-> FALSE]]
    /\ units' = [u \in Units |-> [units[u] EXCEPT !.refused = @ \/ u \in ActiveUnits]]
    /\ durable' = durable
    /\ \/ session' = session /\ (backend = "postgres" => session.mode # "open")
       \/ /\ backend = "postgres" /\ session.mode = "open"
          /\ session'.mode = "failed" /\ session'.pending = {}

LEMMA WriteEffect ==
    ASSUME Faults \subseteq {"write"}, TypeOK, Safe, InTune, Sound,
           NEW w \in Writes, SilentQuery(w)
    PROVE  /\ connected /\ session.mode \in {"idle", "open", "failed"}
           /\ ActiveUnits' = ActiveUnits /\ UNCHANGED <<backend, connected>>
           /\ GoesThrough(w) \/ IsRefused(w)
<1>1. PICK o \in DoSilentQuery(session, WriteStatement(backend, session, w)) :
          /\ Take(o)
          /\ writes' = [writes EXCEPT ![w] = [asked |-> TRUE, cover |-> ActiveUnits,
                                              acked |-> o.ok]]
          /\ units' = [u \in Units |->
                [units[u] EXCEPT !.refused = @ \/ (u \in ActiveUnits /\ ~o.ok)]]
  BY DEF SilentQuery
<1>2. connected /\ ActiveUnits' = ActiveUnits /\ UNCHANGED <<backend, connected>>
  BY DEF SilentQuery, ActiveUnits, Owns
<1>3. session.mode \in {"idle", "open", "failed"} /\ session \in Session
  BY <1>2 DEF InTune, Sound, TypeOK, Session
<1>4. o \in WriteStatement(backend, session, w)
  BY <1>1, <1>2 DEF DoSilentQuery
<1> DEFINE reset == [session EXCEPT !.next = "Default"]
           taken == [session EXCEPT !.pending = @ \cup {w}]
           failed == [session EXCEPT !.mode = "failed", !.pending = {}]
<1>5. /\ reset.mode = session.mode /\ reset.pending = session.pending
      /\ taken.mode = session.mode /\ taken.pending = session.pending \cup {w}
      /\ failed.mode = "failed" /\ failed.pending = {}
  BY <1>3 DEF Session
<1>6. \/ session.mode = "idle" /\ o = Accepted(reset, {w})
      \/ session.mode = "open" /\ o = Accepted(taken, {})
      \/ session.mode \in {"idle", "failed"} /\ o = Refused(session)
      \/ session.mode = "open" /\ backend # "postgres" /\ o = Refused(session)
      \/ session.mode = "open" /\ backend = "postgres" /\ o = Refused(failed)
  BY <1>3, <1>4, NotLost, WriteAnswers
<1> HIDE DEF reset, taken, failed
<1>7. /\ \A s : Refused(s).session = s /\ Refused(s).saved = {} /\ ~Refused(s).ok
      /\ \A s, saved : /\ Accepted(s, saved).session = s
                       /\ Accepted(s, saved).saved = saved
                       /\ Accepted(s, saved).ok
  BY DEF Refused, Accepted
<1>8. session' = o.session /\ durable' = durable \cup o.saved
  BY <1>1 DEF Take
<1>9. CASE \/ session.mode = "idle" /\ o = Accepted(reset, {w})
           \/ session.mode = "open" /\ o = Accepted(taken, {})
  <2>1. o.ok = TRUE
    BY <1>9 DEF Accepted
  <2>2. units' = units
    <3>1. \A u \in Units : [units[u] EXCEPT !.refused = @ \/ (u \in ActiveUnits /\ ~o.ok)] = units[u]
      BY <2>1 DEF TypeOK, Unit
    <3> QED
      BY <1>1, <3>1 DEF TypeOK
  <2>3. writes' = [writes EXCEPT ![w] = [asked |-> TRUE, cover |-> ActiveUnits, acked |-> TRUE]]
    BY <1>1, <2>1
  <2>4. \/ /\ session.mode = "idle" /\ session'.mode = "idle"
           /\ session'.pending = session.pending
           /\ durable' = durable \cup {w}
        \/ /\ session.mode = "open" /\ session'.mode = "open"
           /\ session'.pending = session.pending \cup {w}
           /\ durable' = durable
    BY <1>5, <1>7, <1>8, <1>9
  <2> QED
    BY <1>2, <1>3, <2>2, <2>3, <2>4 DEF GoesThrough
<1>10. CASE \/ session.mode \in {"idle", "failed"} /\ o = Refused(session)
            \/ session.mode = "open" /\ backend # "postgres" /\ o = Refused(session)
            \/ session.mode = "open" /\ backend = "postgres" /\ o = Refused(failed)
  <2>1. o.ok = FALSE
    BY <1>10 DEF Refused
  <2>2. units' = [u \in Units |-> [units[u] EXCEPT !.refused = @ \/ u \in ActiveUnits]]
    BY <1>1, <2>1
  <2>3. writes' = [writes EXCEPT ![w] = [asked |-> TRUE, cover |-> ActiveUnits, acked |-> FALSE]]
    BY <1>1, <2>1
  <2>4. durable' = durable
    BY <1>7, <1>8, <1>10
  <2>5. \/ session' = session /\ (backend = "postgres" => session.mode # "open")
        \/ /\ backend = "postgres" /\ session.mode = "open"
           /\ session'.mode = "failed" /\ session'.pending = {}
    BY <1>5, <1>7, <1>8, <1>10
  <2> QED
    BY <1>2, <1>3, <2>2, <2>3, <2>4, <2>5 DEF IsRefused
<1> QED
  BY <1>6, <1>9, <1>10

-----------------------------------------------------------------------------
(***************************************************************************)
(* What is committed is durable.                                           *)
(***************************************************************************)

LEMMA SoundInit == Init => Sound
  BY DEF Init, Sound, CommitIsDurable, Committed, ActiveUnits, Owns, Blank, Absent

LEMMA ActiveRuns ==
    ASSUME TypeOK, Linear
    PROVE  \A u \in ActiveUnits : u \in Units /\ Running(u)
<1> SUFFICES ASSUME NEW u \in ActiveUnits
             PROVE  u \in Units /\ Running(u)
  OBVIOUS
<1>1. PICK h \in Handles : Owns(handles[h]) /\ handles[h].unit = u
  BY DEF ActiveUnits
<1> QED
  BY <1>1, OwnedIsActive

LEMMA SoundMoot ==
    ASSUME Sound, InTune, Moot
    PROVE  Sound'
<1>1. /\ ActiveUnits' = ActiveUnits /\ backend' = backend /\ durable' = durable
      /\ units' = units /\ writes' = writes
  BY DEF Moot
<1>2. \/ session' = session
      \/ ActiveUnits = {} /\ session'.mode \in {"idle", "none"}
  BY DEF Moot, Blank
<1>3. CommitIsDurable'
  BY <1>1 DEF Sound, CommitIsDurable, Committed
<1> QED
  BY <1>1, <1>2, <1>3 DEF Sound

LEMMA SoundBegins ==
    ASSUME Faults \subseteq {"write"}, TypeOK, Safe, InTune, Sound,
           NEW u \in Units, NEW l \in AskedLevels, Begins(u, l)
    PROVE  Sound'
<1>1. /\ session'.mode = "open" /\ durable' = durable
      /\ backend' = backend /\ writes' = writes /\ ActiveUnits' = {u}
  BY BeginEffect DEF Begins
<1>2. ~units[u].begun /\ ~units[u].refused
  BY DEF Begins, Sound
<1>3. /\ \A v \in Units : /\ units'[v].refused = units[v].refused
                          /\ units'[v].issued = units[v].issued
                          /\ units[v].begun => units'[v].begun
      /\ units'[u].begun
  BY DEF Begins, TypeOK, Unit
<1>4. \A w \in Writes : writes[w].cover # {u} /\ writes[w].cover \subseteq Units
  BY <1>2 DEF Sound, TypeOK, Write
<1>5. CommitIsDurable'
  BY <1>1, <1>3 DEF Sound, CommitIsDurable, Committed
<1>6. (\A w \in Writes : \A v \in writes[w].cover : units[v].begun)'
  BY <1>1, <1>3, <1>4 DEF Sound
<1>7. (\A v \in Units : units[v].begun \/ ~units[v].refused)'
  BY <1>3 DEF Sound
<1> QED
  BY <1>1, <1>2, <1>3, <1>4, <1>5, <1>6, <1>7 DEF Sound

LEMMA SoundEnds ==
    ASSUME Faults \subseteq {"write"}, TypeOK, Safe, InTune, Sound,
           NEW u \in Units, NEW terminator \in {"commit", "rollback"}, Ends(u, terminator)
    PROVE  Sound'
<1>1. /\ session'.mode = "idle" /\ ActiveUnits = {u} /\ ActiveUnits' = {}
      /\ backend' = backend /\ writes' = writes
  BY EndEffect DEF Ends
<1>2. /\ \A v \in Units : /\ units'[v].refused = units[v].refused
                          /\ units'[v].begun = units[v].begun
                          /\ v # u => units'[v].issued = units[v].issued
      /\ units'[u].issued = <<terminator>>
  BY DEF Ends, TypeOK, Unit
<1>3. /\ terminator = "commit" /\ session.mode = "open" =>
            durable' = durable \cup session.pending
      /\ terminator = "rollback" \/ session.mode = "failed" => durable' = durable
      /\ session.mode \in {"open", "failed"}
  BY EndEffect
<1>4. CommitIsDurable'
  <2> SUFFICES ASSUME NEW v \in Units, NEW w \in Writes, Committed(v)',
                      ~units'[v].refused, writes'[w].acked, writes'[w].cover = {v}
               PROVE  w \in durable'
    BY DEF CommitIsDurable
  <2>1. CASE v # u
    <3>1. Committed(v)
      BY <1>2, <2>1 DEF Committed
    <3>2. w \in durable
      BY <1>1, <1>2, <3>1 DEF Sound, CommitIsDurable
    <3> QED
      BY <1>3, <3>2
  <2>2. CASE v = u
    <3>1. terminator = "commit"
      <4>1. <<terminator>> = <<"commit">>
        BY <1>2, <2>2 DEF Committed
      <4> QED
        BY <4>1
    <3>2. session.mode = "open"
      BY <1>1, <1>2, <1>3, <2>2 DEF Sound
    <3>3. w \in session.pending
      BY <1>1, <2>2, <3>2 DEF Sound
    <3> QED
      BY <1>3, <3>1, <3>2, <3>3
  <2> QED
    BY <2>1, <2>2
<1>5. (\A w \in Writes : \A v \in writes[w].cover : units[v].begun)'
  BY <1>1, <1>2 DEF Sound, TypeOK, Write
<1> QED
  BY <1>1, <1>2, <1>4, <1>5 DEF Sound

LEMMA SoundWrites ==
    ASSUME Faults \subseteq {"write"}, TypeOK, Linear, Safe, InTune, Sound,
           NEW w \in Writes, SilentQuery(w)
    PROVE  Sound'
<1>1. /\ ActiveUnits' = ActiveUnits /\ backend' = backend /\ connected
      /\ session.mode \in {"idle", "open", "failed"}
      /\ GoesThrough(w) \/ IsRefused(w)
  BY WriteEffect
<1>2. PICK ok \in BOOLEAN :
          writes' = [writes EXCEPT ![w] = [asked |-> TRUE, cover |-> ActiveUnits, acked |-> ok]]
  BY <1>1 DEF GoesThrough, IsRefused
<1>3. /\ writes'[w].cover = ActiveUnits
      /\ \A x \in Writes \ {w} : writes'[x] = writes[x]
  BY <1>2 DEF TypeOK
<1>4. \A u \in Units : /\ units'[u].begun = units[u].begun
                       /\ units'[u].issued = units[u].issued
                       /\ units[u].refused => units'[u].refused
                       /\ units'[u].refused => units[u].refused \/ u \in ActiveUnits
  BY <1>1 DEF GoesThrough, IsRefused, TypeOK, Unit
<1>5. \A u \in ActiveUnits : u \in Units /\ Running(u)
  BY ActiveRuns
<1>6. durable \subseteq durable'
  BY <1>1 DEF GoesThrough, IsRefused
<1>7. CommitIsDurable'
  <2> SUFFICES ASSUME NEW u \in Units, NEW x \in Writes, Committed(u)',
                      ~units'[u].refused, writes'[x].acked, writes'[x].cover = {u}
               PROVE  x \in durable'
    BY DEF CommitIsDurable
  <2>1. Committed(u) /\ ~units[u].refused
    BY <1>4 DEF Committed
  <2>2. u \notin ActiveUnits
    BY <1>5, <2>1 DEF Running, Committed
  <2>3. x # w
    BY <1>3, <2>2
  <2>4. x \in durable
    BY <1>3, <2>1, <2>3 DEF Sound, CommitIsDurable
  <2> QED
    BY <1>6, <2>4
<1>8. (\A x \in Writes : \A u \in writes[x].cover : units[u].begun)'
  <2> SUFFICES ASSUME NEW x \in Writes, NEW u \in writes'[x].cover
               PROVE  units'[u].begun
    OBVIOUS
  <2>1. CASE x = w
    BY <1>3, <1>4, <1>5, <2>1 DEF Running
  <2>2. CASE x # w
    <3>1. u \in Units /\ units[u].begun
      BY <1>3, <2>2 DEF Sound, TypeOK, Write
    <3> QED
      BY <1>4, <3>1
  <2> QED
    BY <2>1, <2>2
<1>9. (\A u \in Units : units[u].begun \/ ~units[u].refused)'
  BY <1>4, <1>5 DEF Sound, Running
<1>10. session'.mode # "lost" /\ (session'.mode = "failed" => backend = "postgres")
  BY <1>1 DEF GoesThrough, IsRefused, Sound
<1>11. (backend = "postgres" =>
          \A u \in ActiveUnits : units[u].refused <=> session.mode = "failed")'
  <2>1. CASE GoesThrough(w)
    BY <1>1, <2>1 DEF GoesThrough, Sound, InTune, OpenExactlyWhileOwned
  <2>2. CASE IsRefused(w)
    <3>1. \A u \in ActiveUnits : units'[u].refused
      BY <1>5, <2>2 DEF IsRefused, TypeOK, Unit
    <3>2. ActiveUnits # {} => session.mode # "idle"
      BY <1>1 DEF InTune, OpenExactlyWhileOwned
    <3> QED
      BY <1>1, <2>2, <3>1, <3>2 DEF IsRefused
  <2> QED
    BY <1>1, <2>1, <2>2
<1>12. (\A x \in Writes :
          session.mode = "open" /\ writes[x].acked /\ writes[x].cover = ActiveUnits
              => x \in session.pending)'
  <2> SUFFICES ASSUME NEW x \in Writes, session'.mode = "open",
                      writes'[x].acked, writes'[x].cover = ActiveUnits
               PROVE  x \in session'.pending
    BY <1>1
  <2>1. CASE GoesThrough(w)
    BY <1>3, <2>1 DEF GoesThrough, Sound
  <2>2. CASE IsRefused(w)
    <3>1. ~writes'[w].acked
      BY <2>2 DEF IsRefused, TypeOK
    <3> QED
      BY <1>3, <2>2, <3>1 DEF IsRefused, Sound
  <2> QED
    BY <1>1, <2>1, <2>2
<1> QED
  BY <1>1, <1>7, <1>8, <1>9, <1>10, <1>11, <1>12 DEF Sound

LEMMA SoundStep ==
    ASSUME Liberties = {}, Faults \subseteq {"write"},
           TypeOK, Linear, Safe, InTune, Sound, [Next]_vars
    PROVE  Sound'
  BY StepKinds, SoundMoot, SoundBegins, SoundEnds, SoundWrites

\* An application that takes no liberties, on an engine that refuses nothing but
\* writes: what was acknowledged under a transaction in which nothing was refused
\* is durable once Commit was called on it.
THEOREM CommittedIsDurable ==
    ASSUME Liberties = {}, Faults \subseteq {"write"}
    PROVE  Spec => []CommitIsDurable
<1>1. Init => Safe
  BY DEF Init, Blank, Safe, Healthy
<1>2. TypeOK /\ Linear /\ Safe /\ InTune /\ [Next]_vars => InTune'
  BY InTuneStep
<1>3. TypeOK /\ Linear /\ Safe /\ InTune /\ Sound /\ [Next]_vars => Sound'
  BY SoundStep
<1>4. Sound => CommitIsDurable
  BY DEF Sound
<1> QED
  BY <1>1, <1>2, <1>3, <1>4, InTuneInit, SoundInit, LinearInit, LinearStep, SafeStep,
     TypeCorrect, PTL DEF Spec

-----------------------------------------------------------------------------
(***************************************************************************)
(* Transaction implements TransactionPromise, step by step.                *)
(***************************************************************************)

LEMMA CurrentNone ==
    /\ ActiveUnits = {} => CurrentUnit = NoUnit
    /\ ActiveUnits' = {} => CurrentUnit' = NoUnit
  BY DEF CurrentUnit

LEMMA CurrentOne ==
    ASSUME NEW u
    PROVE  /\ ActiveUnits = {u} => CurrentUnit = u
           /\ ActiveUnits' = {u} => CurrentUnit' = u
<1>1. ASSUME NEW S, S = {u}
      PROVE  S # {} /\ (CHOOSE v \in S : TRUE) = u
  BY <1>1
<1>2. ASSUME ActiveUnits = {u}
      PROVE  CurrentUnit = u
  BY <1>1, <1>2 DEF CurrentUnit
<1>3. ASSUME ActiveUnits' = {u}
      PROVE  CurrentUnit' = u
  BY <1>1, <1>3 DEF CurrentUnit
<1> QED
  BY <1>2, <1>3

LEMMA CurrentSame == ActiveUnits' = ActiveUnits => CurrentUnit' = CurrentUnit
  BY DEF CurrentUnit

\* Only an active handle has a current transaction.
LEMMA CurrentActive ==
    ASSUME TypeOK, Linear
    PROVE  CurrentUnit = NoUnit <=> ActiveUnits = {}
<1>1. ActiveUnits # {} => CurrentUnit \in ActiveUnits
  BY DEF CurrentUnit
<1> QED
  BY <1>1, CurrentNone, ActiveRuns, ParametersAssumption

\* What a refused statement does to its history does not show while the
\* transaction runs.
LEMMA OutcomeSame ==
    ASSUME NEW u \in Units, backend' = backend,
           units'[u].begun = units[u].begun, units'[u].issued = units[u].issued,
           units'[u].refused = units[u].refused \/ Running(u)
    PROVE  OutcomeOf(u)' = OutcomeOf(u)
<1>1. CASE Running(u)
  BY <1>1 DEF OutcomeOf, Running, Committed
<1>2. CASE units'[u].refused = units[u].refused
  BY <1>2 DEF OutcomeOf, Committed
<1> QED
  BY <1>1, <1>2

\* The engine is outside a transaction while no handle is active.
LEMMA OutsideIdle ==
    ASSUME TypeOK, Safe, InTune, Sound, ActiveUnits = {}
    PROVE  session.mode \in {"none", "idle"} /\ session.pending = {}
  BY DEF TypeOK, Session, Safe, Healthy, InTune, OpenExactlyWhileOwned, Sound

LEMMA PromiseInit == Init => Promise!Init
<1> SUFFICES ASSUME Init
             PROVE  Promise!Init
  OBVIOUS
<1>1. ActiveUnits = {}
  BY DEF Init, ActiveUnits, Owns, Absent
<1>2. session.pending = {} /\ (session.mode = "failed") = FALSE
  BY DEF Init, Blank
<1>3. \A u \in Units : OutcomeOf(u) = "new"
  BY DEF Init, OutcomeOf, Committed
<1> QED
  BY <1>1, <1>2, <1>3, CurrentNone DEF Init, Promise!Init

LEMMA PromiseMoot ==
    ASSUME TypeOK, Safe, InTune, Sound, Moot
    PROVE  UNCHANGED Promise!vars
<1>1. ActiveUnits' = ActiveUnits /\ durable' = durable /\ backend' = backend /\ units' = units
  BY DEF Moot
<1>2. session'.pending = session.pending /\ (session.mode = "failed")' = (session.mode = "failed")
  <2>1. CASE session' = session
    BY <2>1
  <2>2. CASE session' # session
    <3>1. ActiveUnits = {} /\ session'.mode # "failed" /\ session'.pending = {}
      BY <2>2 DEF Moot, Blank
    <3> QED
      BY <3>1, OutsideIdle
  <2> QED
    BY <2>1, <2>2
<1>3. [u \in Units |-> OutcomeOf(u)]' = [u \in Units |-> OutcomeOf(u)]
  BY <1>1 DEF OutcomeOf, Committed
<1> QED
  BY <1>1, <1>2, <1>3, CurrentSame DEF Promise!vars

LEMMA PromiseBegins ==
    ASSUME Faults \subseteq {"write"}, TypeOK, Linear, Safe, InTune, Sound,
           NEW u \in Units, NEW l \in AskedLevels, Begins(u, l)
    PROVE  Promise!Begin(u)
<1>1. /\ session.mode = "idle" /\ session'.mode = "open"
      /\ session.pending = {} /\ session'.pending = {} /\ durable' = durable
  BY BeginEffect
<1>2. CurrentUnit = NoUnit /\ CurrentUnit' = u
  BY CurrentNone, CurrentOne DEF Begins
<1>3. /\ \A v \in Units \ {u} : units'[v] = units[v]
      /\ units'[u].begun /\ units'[u].issued = units[u].issued
      /\ backend' = backend /\ ~units[u].begun
  BY DEF Begins, TypeOK, Unit
<1>4. OutcomeOf(u) = "new"
  <2>1. units[u].issued = <<>> /\ <<>> # <<"commit">>
    BY <1>3 DEF Linear
  <2> QED
    BY <1>3, <2>1 DEF OutcomeOf, Committed
<1>5. OutcomeOf(u)' = "running"
  <2>1. units'[u].issued = <<>>
    BY <1>3 DEF Linear
  <2> QED
    BY <1>3, <2>1 DEF OutcomeOf, Committed
<1>6. \A v \in Units \ {u} : OutcomeOf(v)' = OutcomeOf(v)
  BY <1>3 DEF OutcomeOf, Committed
<1>7. [v \in Units |-> OutcomeOf(v)]' =
          [[v \in Units |-> OutcomeOf(v)] EXCEPT ![u] = "running"]
  BY <1>5, <1>6
<1>8. (session.mode = "failed")' = (session.mode = "failed")
  BY <1>1
<1> QED
  BY <1>1, <1>2, <1>4, <1>7, <1>8 DEF Promise!Begin

LEMMA PromiseEnds ==
    ASSUME Faults \subseteq {"write"}, TypeOK, Linear, Safe, InTune, Sound,
           NEW u \in Units, NEW terminator \in {"commit", "rollback"}, Ends(u, terminator)
    PROVE  Promise!Commit \/ Promise!Rollback
<1>1. /\ session.mode \in {"open", "failed"}
      /\ session'.mode = "idle" /\ session'.pending = {}
      /\ terminator = "commit" /\ session.mode = "open" =>
            durable' = durable \cup session.pending
      /\ terminator = "rollback" \/ session.mode = "failed" => durable' = durable
  BY EndEffect
<1>2. CurrentUnit = u /\ CurrentUnit' = NoUnit /\ u # NoUnit
  BY CurrentNone, CurrentOne, ParametersAssumption DEF Ends
<1>3. /\ \A v \in Units \ {u} : units'[v] = units[v]
      /\ units'[u].begun /\ units'[u].issued = <<terminator>>
      /\ units'[u].refused = units[u].refused
      /\ backend' = backend
  BY DEF Ends, TypeOK, Unit, Running
<1>4. \A v \in Units \ {u} : OutcomeOf(v)' = OutcomeOf(v)
  BY <1>3 DEF OutcomeOf, Committed
<1>5. <<terminator>> # <<>> /\ (<<terminator>> = <<"commit">> <=> terminator = "commit")
  OBVIOUS
<1>6. \A how : OutcomeOf(u)' = how =>
          [v \in Units |-> OutcomeOf(v)]' = [[v \in Units |-> OutcomeOf(v)] EXCEPT ![u] = how]
  BY <1>4
<1>7. (session.mode = "failed")' = FALSE
  BY <1>1
<1>8. CASE terminator = "commit" /\ session.mode = "open"
  <2>1. ~(backend = "postgres" /\ units[u].refused)
    BY <1>8 DEF Sound, Ends
  <2>2. OutcomeOf(u)' = "committed"
    BY <1>3, <1>5, <1>8, <2>1 DEF OutcomeOf, Committed
  <2>3. [v \in Units |-> OutcomeOf(v)]' =
            [[v \in Units |-> OutcomeOf(v)] EXCEPT ![CurrentUnit] = "committed"]
    BY <1>2, <1>6, <2>2
  <2> QED
    BY <1>1, <1>2, <1>7, <1>8, <2>3 DEF Promise!Commit, Promise!Finish
<1>9. CASE terminator = "rollback" \/ session.mode = "failed"
  <2>1. terminator = "rollback" \/ (backend = "postgres" /\ units[u].refused)
    BY <1>9 DEF Sound, Ends
  <2>2. OutcomeOf(u)' = "rolled back"
    BY <1>3, <1>5, <2>1 DEF OutcomeOf, Committed
  <2>3. [v \in Units |-> OutcomeOf(v)]' =
            [[v \in Units |-> OutcomeOf(v)] EXCEPT ![CurrentUnit] = "rolled back"]
    BY <1>2, <1>6, <2>2
  <2> QED
    BY <1>1, <1>2, <1>7, <1>9, <2>3 DEF Promise!Rollback, Promise!Finish
<1> QED
  BY <1>1, <1>8, <1>9

LEMMA PromiseWrites ==
    ASSUME Faults \subseteq {"write"}, TypeOK, Linear, Safe, InTune, Sound,
           NEW w \in Writes, SilentQuery(w)
    PROVE  Promise!Change(w) \/ Promise!Doom \/ UNCHANGED Promise!vars
<1>1. /\ connected /\ session.mode \in {"idle", "open", "failed"}
      /\ ActiveUnits' = ActiveUnits /\ backend' = backend
      /\ GoesThrough(w) \/ IsRefused(w)
  BY WriteEffect
<1>2. CurrentUnit' = CurrentUnit /\ (session.mode \in {"open", "failed"} <=> CurrentUnit # NoUnit)
  BY <1>1, CurrentSame, CurrentActive DEF InTune, OpenExactlyWhileOwned
<1>3. [u \in Units |-> OutcomeOf(u)]' = [u \in Units |-> OutcomeOf(u)]
  <2> SUFFICES ASSUME NEW u \in Units
               PROVE  OutcomeOf(u)' = OutcomeOf(u)
    OBVIOUS
  <2>1. CASE GoesThrough(w)
    BY <1>1, <2>1 DEF GoesThrough, OutcomeOf, Committed
  <2>2. CASE IsRefused(w)
    <3>1. /\ units'[u].begun = units[u].begun /\ units'[u].issued = units[u].issued
          /\ units'[u].refused = units[u].refused \/ u \in ActiveUnits
      BY <2>2 DEF IsRefused, TypeOK, Unit
    <3> QED
      BY <1>1, <3>1, ActiveRuns, OutcomeSame
  <2> QED
    BY <1>1, <2>1, <2>2
<1>4. CASE GoesThrough(w)
  <2>1. (session.mode = "failed") = FALSE /\ (session.mode = "failed")' = FALSE
    BY <1>4 DEF GoesThrough
  <2>2. CASE CurrentUnit = NoUnit
    <3>1. durable' = durable \cup {w} /\ session'.pending = session.pending
      BY <1>2, <1>4, <2>2 DEF GoesThrough
    <3> QED
      BY <1>2, <1>3, <2>1, <2>2, <3>1 DEF Promise!Change
  <2>3. CASE CurrentUnit # NoUnit
    <3>1. durable' = durable /\ session'.pending = session.pending \cup {w}
      BY <1>2, <1>4, <2>3 DEF GoesThrough
    <3> QED
      BY <1>2, <1>3, <2>1, <2>3, <3>1 DEF Promise!Change
  <2> QED
    BY <2>2, <2>3
<1>5. CASE IsRefused(w)
  <2>1. CASE session' = session
    BY <1>2, <1>3, <1>5, <2>1 DEF IsRefused, Promise!vars
  <2>2. CASE session' # session
    <3>1. session.mode = "open" /\ session'.mode = "failed" /\ session'.pending = {}
          /\ durable' = durable
      BY <1>5, <2>2 DEF IsRefused
    <3> QED
      BY <1>2, <1>3, <3>1 DEF Promise!Doom
  <2> QED
    BY <2>1, <2>2
<1> QED
  BY <1>1, <1>4, <1>5

LEMMA PromiseStep ==
    ASSUME Liberties = {}, Faults \subseteq {"write"},
           TypeOK, Linear, Safe, InTune, Sound, [Next]_vars
    PROVE  [Promise!Next]_(Promise!vars)
  BY StepKinds, PromiseMoot, PromiseBegins, PromiseEnds, PromiseWrites DEF Promise!Next

\* Handles and engine implement the promise: for an application that takes no
\* liberties, on an engine that refuses nothing but writes, the changes made
\* inside a transaction reach the store together at Commit and never otherwise.
THEOREM PromiseKept ==
    ASSUME Liberties = {}, Faults \subseteq {"write"}
    PROVE  Spec => KeepsPromise
<1>1. Init => Safe
  BY DEF Init, Blank, Safe, Healthy
<1>2. TypeOK /\ Linear /\ Safe /\ InTune /\ [Next]_vars => InTune'
  BY InTuneStep
<1>3. TypeOK /\ Linear /\ Safe /\ InTune /\ Sound /\ [Next]_vars => Sound'
  BY SoundStep
<1>4. TypeOK /\ Linear /\ Safe /\ InTune /\ Sound /\ [Next]_vars =>
          [Promise!Next]_(Promise!vars)
  BY PromiseStep
<1> QED
  BY <1>1, <1>2, <1>3, <1>4, InTuneInit, SoundInit, LinearInit, LinearStep, SafeStep,
     TypeCorrect, PromiseInit, PTL DEF Spec, KeepsPromise, Promise!Spec

=============================================================================
