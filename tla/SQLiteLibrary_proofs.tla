-------------------------- MODULE SQLiteLibrary_proofs --------------------------
(***************************************************************************)
(* Theorems about SQLiteLibrary for every finite set of instances.         *)
(***************************************************************************)
EXTENDS SQLiteLibrary, FiniteSetTheorems, TLAPS

USE InstancesAssumption

(***************************************************************************)
(* Types.                                                                  *)
(***************************************************************************)

LEMMA StagesOfTheLock ==
    /\ DOMAIN Waiting = {"locking", "dropping", "leaving"}
    /\ Waiting["locking"] = "initialising"
    /\ Waiting["dropping"] = "undoing"
    /\ Waiting["leaving"] = "releasing"
  BY DEF Waiting

LEMMA StagesListed ==
    Stages = {"absent", "ready", "opening", "locking", "dropping", "leaving",
              "initialising", "counting", "undoing", "releasing"}
  BY StagesOfTheLock DEF Stages, Locked

\* Every state of threads and library has the declared types.
THEOREM LibraryTypeCorrect == Spec => []TypeOK
<1>1. Init => TypeOK
  <2>1. "absent" \in Stages /\ 0 \in Int
    BY StagesListed
  <2> QED
    BY <2>1, Zenon DEF Init, TypeOK
<1>2. TypeOK /\ [Next]_vars => TypeOK'
  <2> SUFFICES ASSUME TypeOK, [Next]_vars
               PROVE  TypeOK'
    OBVIOUS
  <2> USE DEF TypeOK, Goto
  <2>1. ASSUME NEW i \in Instances, Acquire(i)
        PROVE  TypeOK'
    <3>1. Waiting[stage[i]] \in Stages
      BY <2>1, StagesOfTheLock, StagesListed DEF Acquire
    <3> QED
      BY <2>1, <3>1 DEF Acquire
  <2>2. ASSUME NEW i \in Instances, UnderLock(i)
        PROVE  TypeOK'
    <3>1. /\ stage' \in [Instances -> Stages]
          /\ refcount' \in Int
      BY <2>2, StagesListed DEF UnderLock, Initialise, Count, Undo, Release, LeaveTo
    <3>2. /\ connected' \in [Instances -> BOOLEAN]
          /\ UNCHANGED <<dying, handle>>
          /\ mutex' \in Instances \cup {Free}
      BY <2>2 DEF UnderLock, Initialise, Count, Undo, Release
    <3>3. libInit' \in BOOLEAN
      BY <2>2, Zenon DEF UnderLock, Initialise, Count, Undo, Release
    <3>4. stolen' \in BOOLEAN
      BY <2>2, Zenon DEF UnderLock, Initialise, Count, Undo, Release
    <3> QED
      BY <3>1, <3>2, <3>3, <3>4
  <2>3. ASSUME NEW i \in Instances,
               Construct(i) \/ EnterConnect(i) \/ EnterDisconnect(i)
        PROVE  TypeOK'
    BY <2>3, StagesListed DEF Construct, EnterConnect, EnterDisconnect
  <2>4. ASSUME NEW i \in Instances, OpenSucceeds(i) \/ OpenFails(i)
        PROVE  TypeOK'
    BY <2>4, StagesListed DEF OpenSucceeds, OpenFails
  <2>5. CASE UNCHANGED vars
    BY <2>5 DEF vars
  <2> QED
    BY <2>1, <2>2, <2>3, <2>4, <2>5 DEF Next
<1> QED
  BY <1>1, <1>2, PTL DEF Spec

-----------------------------------------------------------------------------
(***************************************************************************)
(* The stages, the mutex and the count.                                    *)
(***************************************************************************)

\* A thread that is on its way to a connection has none, and a handle is open
\* only between the calls of a connected instance.
Shape ==
    \A i \in Instances :
        /\ stage[i] \notin {"ready", "leaving", "releasing"} => ~connected[i]
        /\ handle[i] => connected[i] /\ stage[i] = "ready"

\* The mutex belongs to the thread inside a critical section.
Exclusion == \A i \in Instances : stage[i] \in Locked <=> mutex = i

LEMMA ShapeStep == TypeOK /\ Shape /\ [Next]_vars => Shape'
<1> SUFFICES ASSUME TypeOK, Shape, [Next]_vars
             PROVE  Shape'
  OBVIOUS
<1> USE DEF TypeOK, Shape, Goto
<1>1. ASSUME NEW i \in Instances, Acquire(i)
      PROVE  Shape'
  BY <1>1, StagesOfTheLock DEF Acquire
<1>2. ASSUME NEW i \in Instances, UnderLock(i)
      PROVE  Shape'
  BY <1>2 DEF UnderLock, Initialise, Count, Undo, Release, LeaveTo
<1>3. ASSUME NEW i \in Instances,
             Construct(i) \/ EnterConnect(i) \/ EnterDisconnect(i)
      PROVE  Shape'
  BY <1>3 DEF Construct, EnterConnect, EnterDisconnect
<1>4. ASSUME NEW i \in Instances, OpenSucceeds(i) \/ OpenFails(i)
      PROVE  Shape'
  BY <1>4 DEF OpenSucceeds, OpenFails
<1>5. CASE UNCHANGED vars
  BY <1>5 DEF vars
<1> QED
  BY <1>1, <1>2, <1>3, <1>4, <1>5 DEF Next

LEMMA ExclusionStep == TypeOK /\ Exclusion /\ [Next]_vars => Exclusion'
<1> SUFFICES ASSUME TypeOK, Exclusion, [Next]_vars
             PROVE  Exclusion'
  OBVIOUS
<1> USE DEF TypeOK, Exclusion, Goto, Locked
<1>1. ASSUME NEW i \in Instances, Acquire(i)
      PROVE  Exclusion'
  BY <1>1, StagesOfTheLock DEF Acquire
<1>2. ASSUME NEW i \in Instances, UnderLock(i)
      PROVE  Exclusion'
  BY <1>2 DEF UnderLock, Initialise, Count, Undo, Release, LeaveTo
<1>3. ASSUME NEW i \in Instances,
             Construct(i) \/ EnterConnect(i) \/ EnterDisconnect(i)
      PROVE  Exclusion'
  BY <1>3 DEF Construct, EnterConnect, EnterDisconnect
<1>4. ASSUME NEW i \in Instances, OpenSucceeds(i) \/ OpenFails(i)
      PROVE  Exclusion'
  BY <1>4 DEF OpenSucceeds, OpenFails
<1>5. CASE UNCHANGED vars
  BY <1>5 DEF vars
<1> QED
  BY <1>1, <1>2, <1>3, <1>4, <1>5 DEF Next

\* Users are among the instances, so that they can be counted.
LEMMA HoldersFinite ==
    /\ IsFiniteSet(Holders)
    /\ Cardinality(Holders) \in Nat
    /\ \A i : Cardinality(Holders \cup {i}) =
                 IF i \in Holders THEN Cardinality(Holders) ELSE Cardinality(Holders) + 1
    /\ \A i : Cardinality(Holders \ {i}) =
                 IF i \in Holders THEN Cardinality(Holders) - 1 ELSE Cardinality(Holders)
<1>1. Holders \in SUBSET Instances
  BY DEF Holders
<1>2. IsFiniteSet(Holders)
  BY <1>1, FS_Subset
<1> QED
  BY <1>2, FS_CardinalityType, FS_AddElement, FS_RemoveElement

\* How each step changes the users and the count: Count adds one of both,
\* Undo and Release take one away, nothing else touches either; a Release that
\* takes one from the count only is remembered.
LEMMA HoldersEffect ==
    ASSUME TypeOK, Shape, [Next]_vars
    PROVE  /\ stolen => stolen'
           /\ \/ Holders' = Holders /\ refcount' = refcount
              \/ \E i \in Instances : /\ Count(i)
                                      /\ i \notin Holders
                                      /\ Holders' = Holders \cup {i}
                                      /\ refcount' = refcount + 1
              \/ \E i \in Instances : /\ Undo(i)
                                      /\ i \in Holders
                                      /\ Holders' = Holders \ {i}
                                      /\ refcount' = refcount - 1
              \/ \E i \in Instances : /\ Release(i)
                                      /\ ~stolen' => i \in Holders \/ ~(refcount > 0)
                                      /\ Holders' = Holders \ {i}
                                      /\ refcount' = IF refcount > 0 THEN refcount - 1
                                                     ELSE refcount
<1> USE DEF TypeOK, Shape, Goto, Holders
<1>1. ASSUME NEW i \in Instances, Acquire(i)
      PROVE  Holders' = Holders /\ refcount' = refcount
  BY <1>1, StagesOfTheLock DEF Acquire
<1>2. ASSUME NEW i \in Instances, Initialise(i)
      PROVE  Holders' = Holders /\ refcount' = refcount
  BY <1>2 DEF Initialise
<1>3. ASSUME NEW i \in Instances, Count(i)
      PROVE  /\ i \notin Holders
             /\ Holders' = Holders \cup {i}
             /\ refcount' = refcount + 1
  BY <1>3 DEF Count
<1>4. ASSUME NEW i \in Instances, Undo(i)
      PROVE  /\ i \in Holders
             /\ Holders' = Holders \ {i}
             /\ refcount' = refcount - 1
  BY <1>4 DEF Undo
<1>5. ASSUME NEW i \in Instances, Release(i)
      PROVE  /\ ~stolen' => i \in Holders \/ ~(refcount > 0)
             /\ Holders' = Holders \ {i}
             /\ refcount' = IF refcount > 0 THEN refcount - 1 ELSE refcount
  BY <1>5 DEF Release, LeaveTo, Steals
<1>6. ASSUME NEW i \in Instances,
             Construct(i) \/ EnterConnect(i) \/ EnterDisconnect(i)
      PROVE  Holders' = Holders /\ refcount' = refcount
  BY <1>6 DEF Construct, EnterConnect, EnterDisconnect
<1>7. ASSUME NEW i \in Instances, OpenSucceeds(i) \/ OpenFails(i)
      PROVE  Holders' = Holders /\ refcount' = refcount
  BY <1>7 DEF OpenSucceeds, OpenFails
<1>8. CASE UNCHANGED vars
  BY <1>8 DEF vars
<1>9. stolen => stolen'
  BY Zenon DEF Next, vars, UnderLock, Construct, Acquire, EnterConnect, Initialise, Count,
     Undo, Release, OpenSucceeds, OpenFails, EnterDisconnect
<1> QED
  BY <1>1, <1>2, <1>3, <1>4, <1>5, <1>6, <1>7, <1>8, <1>9 DEF Next, UnderLock

\* Whoever disconnects whatever and in whatever order, the library is never
\* held on behalf of nobody.
THEOREM LibraryNeverOvercounted == Spec => []NeverOvercounted
<1>1. Init => Shape /\ NeverOvercounted
  <2> SUFFICES ASSUME Init
               PROVE  Shape /\ NeverOvercounted
    OBVIOUS
  <2>1. Holders = {}
    BY DEF Init, Holders
  <2> QED
    BY <2>1, FS_EmptySet DEF Init, Shape, NeverOvercounted
<1>2. TypeOK /\ Shape /\ NeverOvercounted /\ [Next]_vars => NeverOvercounted'
  <2> SUFFICES ASSUME TypeOK, Shape, NeverOvercounted, [Next]_vars
               PROVE  refcount' <= Cardinality(Holders')
    BY DEF NeverOvercounted
  <2>1. refcount \in Int /\ refcount <= Cardinality(Holders)
    BY DEF TypeOK, NeverOvercounted
  <2>2. CASE Holders' = Holders /\ refcount' = refcount
    BY <2>1, <2>2
  <2>3. ASSUME NEW i \in Instances, i \notin Holders,
               Holders' = Holders \cup {i}, refcount' = refcount + 1
        PROVE  refcount' <= Cardinality(Holders')
    BY <2>1, <2>3, HoldersFinite
  <2>4. ASSUME NEW i \in Instances, i \in Holders,
               Holders' = Holders \ {i}, refcount' = refcount - 1
        PROVE  refcount' <= Cardinality(Holders')
    BY <2>1, <2>4, HoldersFinite
  <2>5. ASSUME NEW i \in Instances, Holders' = Holders \ {i},
               refcount' = IF refcount > 0 THEN refcount - 1 ELSE refcount
        PROVE  refcount' <= Cardinality(Holders')
    <3>1. /\ Cardinality(Holders') \in Nat
          /\ Cardinality(Holders') >= Cardinality(Holders) - 1
      BY <2>5, HoldersFinite, FS_RemoveElement, FS_CardinalityType
    <3> QED
      BY <2>1, <2>5, <3>1, HoldersFinite
  <2> QED
    BY <2>2, <2>3, <2>4, <2>5, HoldersEffect
<1> QED
  BY <1>1, <1>2, ShapeStep, LibraryTypeCorrect, PTL DEF Spec

-----------------------------------------------------------------------------
(***************************************************************************)
(* As long as no use was given back by an instance that had none.          *)
(***************************************************************************)

\* With the count exact, the library is initialised exactly from the first
\* sqlite3_initialize to the last release.
InitialisedExactly ==
    ~stolen => (libInit <=> refcount > 0 \/ \E i \in Instances : stage[i] = "counting")

LEMMA ExactStep ==
    ASSUME TypeOK, Shape, RefcountExact, [Next]_vars
    PROVE  RefcountExact'
<1> SUFFICES ASSUME ~stolen'
             PROVE  refcount' = Cardinality(Holders')
  BY DEF RefcountExact
<1>1. refcount = Cardinality(Holders) /\ refcount \in Nat
  BY HoldersEffect, HoldersFinite DEF RefcountExact
<1>2. ASSUME NEW i \in Holders
      PROVE  refcount > 0
  BY <1>1, HoldersFinite, FS_EmptySet
<1> QED
  BY <1>1, <1>2, HoldersEffect, HoldersFinite

\* As long as every use is given back by the instance that has it, the count
\* is the number of users whatever the interleaving.
THEOREM LibraryCountExact == Spec => []RefcountExact
<1>1. Init => Shape /\ RefcountExact
  <2> SUFFICES ASSUME Init
               PROVE  Shape /\ RefcountExact
    OBVIOUS
  <2>1. Holders = {}
    BY DEF Init, Holders
  <2> QED
    BY <2>1, FS_EmptySet DEF Init, Shape, RefcountExact
<1>2. TypeOK /\ Shape /\ RefcountExact /\ [Next]_vars => RefcountExact'
  BY ExactStep
<1> QED
  BY <1>1, <1>2, ShapeStep, LibraryTypeCorrect, PTL DEF Spec

LEMMA InitialisedStep ==
    ASSUME TypeOK, Shape, Exclusion, RefcountExact, InitialisedExactly,
           [Next]_vars
    PROVE  InitialisedExactly'
<1> SUFFICES ASSUME ~stolen'
             PROVE  InitialisedExactly'
  BY DEF InitialisedExactly
<1>0. ~stolen
  BY HoldersEffect
<1>1. refcount = Cardinality(Holders) /\ refcount \in Nat
  BY <1>0, HoldersFinite DEF RefcountExact
<1>2. \A i \in Instances : i \in Holders => refcount > 0
  BY <1>1, HoldersFinite, FS_EmptySet
<1> USE DEF TypeOK, InitialisedExactly, Goto
<1>3. ASSUME NEW i \in Instances, Acquire(i)
      PROVE  InitialisedExactly'
  BY <1>0, <1>3, StagesOfTheLock DEF Acquire
<1>4. ASSUME NEW i \in Instances, Initialise(i)
      PROVE  InitialisedExactly'
  <2>1. ASSUME NEW j \in Instances
        PROVE  stage[j] # "counting"
    BY <1>4 DEF Initialise, Exclusion, Locked
  <2> QED
    BY <1>0, <1>1, <1>4, <2>1 DEF Initialise
<1>5. ASSUME NEW i \in Instances, Count(i)
      PROVE  InitialisedExactly'
  BY <1>0, <1>1, <1>5 DEF Count
<1>6. ASSUME NEW i \in Instances, Undo(i) \/ Release(i)
      PROVE  InitialisedExactly'
  <2>1. ASSUME NEW j \in Instances
        PROVE  stage[j] # "counting" /\ stage'[j] # "counting"
    BY <1>6 DEF Undo, Release, LeaveTo, Exclusion, Locked
  <2>2. libInit <=> refcount > 0
    BY <1>0, <2>1
  <2>3. CASE i \in Holders
    <3>1. refcount > 0 /\ refcount' = refcount - 1
      BY <1>1, <1>2, <1>6, <2>3 DEF Undo, Release
    <3>2. libInit' <=> refcount' # 0
      BY <1>6, <2>2, <3>1 DEF Undo, Release
    <3> QED
      BY <1>1, <2>1, <3>1, <3>2
  <2>4. CASE i \notin Holders
    <3>1. Release(i) /\ ~connected[i]
      BY <1>6, <2>4 DEF Undo, Release, Holders
    <3>2. ~(refcount > 0)
      BY <3>1 DEF Release, Steals
    <3>3. UNCHANGED <<refcount, libInit>>
      BY <3>1, <3>2, <2>2 DEF Release
    <3> QED
      BY <2>1, <2>2, <3>3
  <2> QED
    BY <2>3, <2>4
<1>7. ASSUME NEW i \in Instances,
             Construct(i) \/ EnterConnect(i) \/ EnterDisconnect(i)
      PROVE  InitialisedExactly'
  BY <1>0, <1>7 DEF Construct, EnterConnect, EnterDisconnect
<1>8. ASSUME NEW i \in Instances, OpenSucceeds(i) \/ OpenFails(i)
      PROVE  InitialisedExactly'
  <2>1. i \in Holders
    BY <1>8 DEF OpenSucceeds, OpenFails, Holders
  <2> QED
    BY <1>0, <1>2, <1>8, <2>1 DEF OpenSucceeds, OpenFails
<1>9. CASE UNCHANGED vars
  BY <1>0, <1>9 DEF vars
<1> QED
  BY <1>3, <1>4, <1>5, <1>6, <1>7, <1>8, <1>9 DEF Next, UnderLock

\* Under the same condition no handle is open in a library that was shut
\* down, and a library nobody uses is shut down.
THEOREM LibraryFollowsUse == Spec => [](InitialisedWhileOpen /\ ShutDownWhenUnused)
<1>1. Init => Shape /\ Exclusion /\ InitialisedExactly
  BY DEF Init, Shape, Exclusion, InitialisedExactly, Locked
<1>2. /\ TypeOK /\ Shape /\ Exclusion /\ RefcountExact /\ InitialisedExactly
      /\ [Next]_vars
      => InitialisedExactly'
  BY InitialisedStep
<1>3. TypeOK /\ Shape /\ Exclusion /\ RefcountExact /\ InitialisedExactly
      => InitialisedWhileOpen /\ ShutDownWhenUnused
  <2> SUFFICES ASSUME TypeOK, Shape, Exclusion, RefcountExact, InitialisedExactly
               PROVE  InitialisedWhileOpen /\ ShutDownWhenUnused
    OBVIOUS
  <2>1. ASSUME ~stolen, NEW i \in Instances, handle[i]
        PROVE  libInit
    <3>1. i \in Holders
      BY <2>1 DEF Shape, Holders
    <3>2. refcount > 0
      BY <2>1, <3>1, HoldersFinite, FS_EmptySet DEF RefcountExact
    <3> QED
      BY <2>1, <3>2 DEF InitialisedExactly
  <2>2. ASSUME ~stolen, Holders = {}, mutex = Free
        PROVE  ~libInit
    <3>1. refcount = 0
      BY <2>2, FS_EmptySet DEF RefcountExact
    <3>2. \A i \in Instances : stage[i] # "counting"
      BY <2>2 DEF Exclusion, Locked
    <3> QED
      BY <2>2, <3>1, <3>2 DEF InitialisedExactly
  <2> QED
    BY <2>1, <2>2 DEF InitialisedWhileOpen, ShutDownWhenUnused
<1> QED
  BY <1>1, <1>2, <1>3, ShapeStep, ExclusionStep, LibraryCountExact, LibraryTypeCorrect,
     PTL DEF Spec

\* Under the same condition the last one out shuts the library down.
THEOREM LibraryShutDownByLast == Spec => []ShutDownWhenUnused
  BY LibraryFollowsUse, PTL

=============================================================================
