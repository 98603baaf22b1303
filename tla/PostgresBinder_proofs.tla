-------------------------- MODULE PostgresBinder_proofs --------------------------
(***************************************************************************)
(* Theorems about PostgresBinder, for any number of parameters and however *)
(* much a vector over-allocates.                                           *)
(***************************************************************************)
EXTENDS PostgresBinder, TLAPS

LEMMA BoundFacts == MaxParams \in Nat /\ MaxCapacity \in Nat /\ MaxParams <= MaxCapacity
BY KindsAssumption

LEMMA NullFacts ==
  /\ \A v \in Value : Block(v) \in Located /\ Null # Block(v)
  /\ \A a \in 1..MaxCapacity, k \in 1..MaxParams :
       Inline(a, k) \in Located /\ Null # Inline(a, k)
BY NullAssumption DEF Located

-----------------------------------------------------------------------------
(* Types.                                                                  *)

\* The vectors never hold more than what was bound, nor more than they have room for.
Fits ==
  /\ Len(strings) <= Len(bound)
  /\ Len(strings) <= capacity
  /\ Len(bound) <= MaxParams

Typed == TypeOK /\ Fits

LEMMA TypedInit == Init => Typed
BY BoundFacts DEF Init, Typed, TypeOK, Fits

\* Where emplace_back leaves the vector.
LEMMA GrownType ==
  ASSUME Typed, capacity' \in Grown
  PROVE  /\ capacity' \in 1..MaxCapacity
         /\ capacity <= capacity'
         /\ Len(strings) + 1 <= capacity'
         /\ Len(strings) < capacity => capacity' = capacity
         /\ Len(strings) >= capacity => capacity' > capacity
BY BoundFacts DEF Typed, TypeOK, Fits, Grown

\* The kind of a value decides what binding it does.
LEMMA BindTyped ==
  ASSUME Typed, NEW kind \in Kinds, Bind(kind)
  PROVE  Typed'
<1> DEFINE v == [kind |-> kind, position |-> Len(bound) + 1]
<1>1. /\ pc = "binding" /\ Len(bound) < MaxParams /\ bound' = Append(bound, v)
      /\ UNCHANGED <<pc, room>>
      /\ BindNull(v) \/ BindString(v) \/ BindBlob(v)
  BY DEF Bind
<1>2. v \in Value
  BY <1>1, BoundFacts DEF Value, Typed, TypeOK
<1> HIDE DEF v
<1>3. bound' \in Seq(Value) /\ Len(bound') = Len(bound) + 1 /\ Len(bound') <= MaxParams
  BY <1>1, <1>2, BoundFacts DEF Typed, TypeOK
<1>4. Null \in Pointer /\ Block(v) \in Pointer
  BY <1>2, NullFacts DEF Pointer
<1>5. CASE BindNull(v)
  BY <1>1, <1>3, <1>4, <1>5 DEF BindNull, Typed, TypeOK, Fits
<1>6. CASE BindBlob(v)
  BY <1>1, <1>2, <1>3, <1>4, <1>6 DEF BindBlob, Typed, TypeOK, Fits
<1>7. CASE BindString(v)
  <2>1. capacity' \in 1..MaxCapacity /\ Len(strings) + 1 <= capacity'
    BY <1>7, GrownType DEF BindString
  <2>2. strings' \in Seq(Value) /\ Len(strings') = Len(strings) + 1
    BY <1>2, <1>7 DEF BindString, Typed, TypeOK
  <2>3. Len(strings') \in 1..MaxParams
    BY <1>1, <2>2, BoundFacts DEF Typed, TypeOK, Fits
  <2>4. Inline(capacity', Len(strings')) \in Pointer
    BY <2>1, <2>3, NullFacts DEF Pointer
  <2>5. params' \in Seq(Pointer)
    BY <1>4, <1>7, <2>4 DEF BindString, Typed, TypeOK
  <2>6. capacity' \in 0..MaxCapacity
    BY <2>1, BoundFacts
  <2>7. TypeOK'
    BY <1>1, <1>3, <1>7, <2>2, <2>5, <2>6 DEF BindString, Typed, TypeOK
  <2>8. Fits'
    BY <1>3, <2>1, <2>2 DEF Typed, TypeOK, Fits
  <2> QED
    BY <2>7, <2>8 DEF Typed
<1> QED
  BY <1>1, <1>5, <1>6, <1>7

LEMMA TypedStep == Typed /\ [Next]_vars => Typed'
<1> SUFFICES ASSUME Typed, [Next]_vars PROVE Typed'
  OBVIOUS
<1>1. CASE BeginExecute
  BY <1>1, BoundFacts DEF BeginExecute, Reset, Typed, TypeOK, Fits
<1>2. ASSUME NEW kind \in Kinds, Bind(kind) PROVE Typed'
  BY <1>2, BindTyped
<1>3. CASE Send
  BY <1>3 DEF Send, Typed, TypeOK, Fits
<1>4. CASE EndExecute
  BY <1>4 DEF EndExecute, Reset, Typed, TypeOK, Fits
<1>5. CASE UNCHANGED vars
  BY <1>5 DEF vars, Typed, TypeOK, Fits
<1> QED
  BY <1>1, <1>2, <1>3, <1>4, <1>5 DEF Next

\* Every pointer is null, leads to a value of the statement or to an element
\* the vector has had, and the vectors hold what was bound.
THEOREM BinderTypeCorrect == Spec => []TypeOK
<1>1. Typed => TypeOK
  BY DEF Typed
<1> QED
  BY <1>1, TypedInit, TypedStep, PTL DEF Spec

-----------------------------------------------------------------------------
(* What is sent is what was bound.                                         *)

\* The i-th parameter pointer still leads to the i-th value, or is the pointer
\* to an element that growing the vector since has left behind.
Kept(i) ==
  LET v == bound[i]
  IN /\ v.kind = "null" => params[i] = Null
     /\ v.kind = "long" => params[i] = Block(v) /\ \E j \in 1..Len(strings) : strings[j] = v
     /\ v.kind = "blob" => params[i] = Block(v) /\ \E j \in 1..Len(blobs) : blobs[j] = v
     /\ v.kind = "short" =>
          \E a \in 1..MaxCapacity, j \in 1..Len(strings) :
             /\ params[i] = Inline(a, j)
             /\ strings[j] = v
             /\ i = Len(bound) \/ Len(strings) <= room => a = capacity

Steady ==
  /\ room <= capacity
  /\ Len(strings) <= room => capacity = room

Holds ==
  pc # "idle" =>
    /\ Len(params) = Len(bound)
    /\ Steady
    /\ \A i \in 1..Len(bound) : Kept(i)

\* Appending keeps what is there and adds one at the end.
LEMMA AppendFacts ==
  ASSUME NEW S, NEW s \in Seq(S), NEW x \in S
  PROVE  /\ Len(Append(s, x)) = Len(s) + 1
         /\ \A i \in 1..Len(s) : Append(s, x)[i] = s[i]
         /\ Append(s, x)[Len(s) + 1] = x
OBVIOUS

\* Binding a value moves no element in use as long as the vector has room, and
\* a vector that had room when the statement began has not moved at all.
LEMMA BindHolds ==
  ASSUME Typed, Holds, NEW kind \in Kinds, Bind(kind)
  PROVE  Holds'
<1> DEFINE v == [kind |-> kind, position |-> Len(bound) + 1]
           n == Len(bound)
<1>1. /\ pc = "binding" /\ n < MaxParams /\ bound' = Append(bound, v)
      /\ UNCHANGED <<pc, room>>
      /\ BindNull(v) \/ BindString(v) \/ BindBlob(v)
  BY DEF Bind
<1>2. v \in Value
  BY <1>1, BoundFacts DEF Value, Typed, TypeOK
<1> HIDE DEF v
<1>3. /\ bound \in Seq(Value) /\ params \in Seq(Pointer) /\ strings \in Seq(Value)
      /\ blobs \in Seq(Value) /\ n \in Nat /\ capacity \in Nat /\ room \in Nat
      /\ Len(strings) \in Nat /\ Len(blobs) \in Nat
  BY BoundFacts DEF Typed, TypeOK
<1>4. Len(params) = n /\ Steady /\ \A i \in 1..n : Kept(i)
  BY <1>1 DEF Holds
<1>5. Len(bound') = n + 1 /\ bound'[n + 1] = v /\ \A i \in 1..n : bound'[i] = bound[i]
  BY <1>1, <1>2, <1>3, AppendFacts
<1>6. PICK p \in Pointer : params' = Append(params, p)
  <2>1. Typed'
    BY BindTyped
  <2>2. CASE BindNull(v)
    BY <2>2, NullFacts DEF BindNull, Pointer
  <2>3. CASE BindBlob(v)
    BY <1>2, <2>3, NullFacts DEF BindBlob, Pointer
  <2>4. CASE BindString(v)
    <3> DEFINE q == IF v.kind = "short" THEN Inline(capacity', Len(strings')) ELSE Block(v)
    <3>1. params' = Append(params, q)
      BY <2>4 DEF BindString
    <3>2. Len(strings') = Len(strings) + 1 /\ capacity' \in 1..MaxCapacity
      BY <1>2, <1>3, <2>4, AppendFacts, GrownType DEF BindString
    <3>3. Len(strings') \in 1..MaxParams
      BY <1>1, <1>3, <2>1, <3>2, BoundFacts DEF Typed, Fits
    <3>4. q \in Pointer
      BY <1>2, <3>2, <3>3, NullFacts DEF Pointer
    <3> QED
      BY <3>1, <3>4
  <2> QED
    BY <1>1, <2>2, <2>3, <2>4
<1>7. Len(params') = n + 1 /\ params'[n + 1] = p /\ \A i \in 1..n : params'[i] = params[i]
  BY <1>3, <1>4, <1>6, AppendFacts
<1>8. /\ Len(strings) <= Len(strings') /\ Len(blobs) <= Len(blobs')
      /\ \A j \in 1..Len(strings) : strings'[j] = strings[j]
      /\ \A j \in 1..Len(blobs) : blobs'[j] = blobs[j]
      /\ Len(strings') \in Nat /\ Len(blobs') \in Nat
  <2>1. strings' = strings \/ strings' = Append(strings, v)
    BY <1>1 DEF BindNull, BindBlob, BindString
  <2>2. blobs' = blobs \/ blobs' = Append(blobs, v)
    BY <1>1 DEF BindNull, BindBlob, BindString
  <2>3. Len(strings) <= Len(strings') /\ Len(strings') \in Nat
        /\ \A j \in 1..Len(strings) : strings'[j] = strings[j]
    BY <1>2, <1>3, <2>1, AppendFacts
  <2>4. Len(blobs) <= Len(blobs') /\ Len(blobs') \in Nat
        /\ \A j \in 1..Len(blobs) : blobs'[j] = blobs[j]
    BY <1>2, <1>3, <2>2, AppendFacts
  <2> QED
    BY <2>3, <2>4
<1>9. /\ capacity <= capacity' /\ capacity' \in Nat
      /\ Len(strings') <= room => capacity' = capacity
  <2>1. CASE UNCHANGED capacity
    BY <1>3, <2>1
  <2>2. CASE BindString(v)
    <3>1. Len(strings') = Len(strings) + 1
      BY <1>2, <1>3, <2>2, AppendFacts DEF BindString
    <3> QED
      BY <1>3, <1>4, <2>2, <3>1, GrownType DEF BindString, Steady
  <2> QED
    BY <1>1, <2>1, <2>2 DEF BindNull, BindBlob
<1>10. Steady'
  BY <1>1, <1>3, <1>4, <1>8, <1>9 DEF Steady
<1>11. ASSUME NEW i \in 1..n PROVE Kept(i)'
  <2>1. /\ Kept(i) /\ bound'[i] = bound[i] /\ params'[i] = params[i] /\ room' = room
        /\ i # Len(bound')
    BY <1>1, <1>3, <1>4, <1>5, <1>7
  <2>2. CASE bound[i].kind = "short"
    <3>1. PICK a \in 1..MaxCapacity, j \in 1..Len(strings) :
             /\ params[i] = Inline(a, j)
             /\ strings[j] = bound[i]
             /\ Len(strings) <= room => a = capacity
      BY <2>1, <2>2 DEF Kept
    <3>2. j \in 1..Len(strings') /\ strings'[j] = bound[i]
      BY <1>3, <1>8, <3>1
    <3>3. Len(strings') <= room => a = capacity'
      BY <1>3, <1>8, <1>9, <3>1
    <3> QED
      BY <2>1, <2>2, <3>1, <3>2, <3>3 DEF Kept
  <2>3. CASE bound[i].kind # "short"
    <3>1. ASSUME NEW j \in 1..Len(strings) PROVE j \in 1..Len(strings') /\ strings'[j] = strings[j]
      BY <1>3, <1>8
    <3>2. ASSUME NEW j \in 1..Len(blobs) PROVE j \in 1..Len(blobs') /\ blobs'[j] = blobs[j]
      BY <1>3, <1>8
    <3> QED
      BY <2>1, <2>3, <3>1, <3>2 DEF Kept
  <2> QED
    BY <2>2, <2>3
<1>12. ASSUME NEW i, i = n + 1 PROVE Kept(i)'
  <2>1. bound'[i] = v /\ params' = Append(params, params'[i]) /\ params'[i] = p
        /\ i = Len(bound')
    BY <1>5, <1>6, <1>7, <1>12
  <2>2. CASE BindNull(v)
    <3>1. params'[i] = Null
      BY <1>3, <1>4, <1>12, <2>2, NullFacts, AppendFacts DEF BindNull, Pointer
    <3> QED
      BY <2>1, <2>2, <3>1 DEF Kept, BindNull
  <2>3. CASE BindBlob(v)
    <3>1. params'[i] = Block(v)
      BY <1>2, <1>3, <1>4, <1>12, <2>3, NullFacts, AppendFacts DEF BindBlob, Pointer
    <3>2. blobs'[Len(blobs) + 1] = v /\ Len(blobs') = Len(blobs) + 1
      BY <1>2, <1>3, <2>3, AppendFacts DEF BindBlob
    <3>3. \E j \in 1..Len(blobs') : blobs'[j] = v
      BY <1>3, <3>2
    <3> QED
      BY <2>1, <2>3, <3>1, <3>3 DEF Kept, BindBlob
  <2>4. CASE BindString(v)
    <3>1. strings'[Len(strings')] = v /\ Len(strings') = Len(strings) + 1
      BY <1>2, <1>3, <2>4, AppendFacts DEF BindString
    <3>2. Len(strings') \in 1..Len(strings')
      BY <1>3, <3>1
    <3>3. capacity' \in 1..MaxCapacity
      BY <2>4, GrownType DEF BindString
    <3>4. CASE v.kind = "short"
      <4>1. params'[i] = Inline(capacity', Len(strings'))
        BY <1>2, <1>3, <1>4, <1>6, <1>12, <2>1, <2>4, <3>4 DEF BindString
      <4> QED
        BY <2>1, <3>1, <3>2, <3>3, <3>4, <4>1 DEF Kept
    <3>5. CASE v.kind = "long"
      <4>1. params'[i] = Block(v)
        BY <1>2, <1>3, <1>4, <1>6, <1>12, <2>1, <2>4, <3>5 DEF BindString
      <4> QED
        BY <2>1, <3>1, <3>2, <3>5, <4>1 DEF Kept
    <3> QED
      BY <2>4, <3>4, <3>5 DEF BindString
  <2> QED
    BY <1>1, <2>2, <2>3, <2>4
<1>13. \A i \in 1..Len(bound') : Kept(i)'
  <2>1. \A i \in 1..Len(bound') : i \in 1..n \/ i = n + 1
    BY <1>3, <1>5
  <2> QED
    BY <1>11, <1>12, <2>1
<1> QED
  BY <1>5, <1>7, <1>10, <1>13 DEF Holds

LEMMA HoldsStep == Typed /\ Holds /\ [Next]_vars => Holds'
<1> SUFFICES ASSUME Typed, Holds, [Next]_vars PROVE Holds'
  OBVIOUS
<1>1. CASE BeginExecute
  <2>1. Len(params') = 0 /\ Len(bound') = 0 /\ Len(strings') = 0
        /\ room' = capacity /\ capacity' = capacity
    BY <1>1 DEF BeginExecute, Reset
  <2> QED
    BY <2>1 DEF Holds, Steady, Typed, TypeOK
<1>2. ASSUME NEW kind \in Kinds, Bind(kind) PROVE Holds'
  BY <1>2, BindHolds
<1>3. CASE Send
  BY <1>3 DEF Send, Holds, Steady, Kept
<1>4. CASE EndExecute
  BY <1>4 DEF EndExecute, Holds
<1>5. CASE UNCHANGED vars
  BY <1>5 DEF vars, Holds, Steady, Kept
<1> QED
  BY <1>1, <1>2, <1>3, <1>4, <1>5 DEF Next

LEMMA KeptLeads ==
  ASSUME Typed, NEW i \in 1..Len(bound), Kept(i),
         bound[i].kind # "short" \/ i = Len(bound) \/ Len(strings) <= room
  PROVE  LeadsTo(params[i], bound[i])
<1>1. bound[i] \in Value /\ bound[i].kind \in {"null", "short", "long", "blob"}
  <2>1. bound[i] \in Value
    BY DEF Typed, TypeOK
  <2> QED
    BY <2>1, KindsAssumption DEF Value
<1>2. CASE bound[i].kind = "null"
  BY <1>2 DEF Kept, LeadsTo
<1>3. CASE bound[i].kind \in {"long", "blob"}
  <2>1. params[i] = Block(bound[i]) /\ params[i] # Null
    BY <1>1, <1>3, NullFacts DEF Kept
  <2>2. \/ \E j \in DOMAIN strings : strings[j] = bound[i]
        \/ \E j \in DOMAIN blobs : blobs[j] = bound[i]
    BY <1>3 DEF Kept, Typed, TypeOK
  <2>3. params[i].to = "block" /\ params[i].of = bound[i]
    BY <2>1 DEF Block
  <2> QED
    BY <2>1, <2>2, <2>3 DEF LeadsTo
<1>4. CASE bound[i].kind = "short"
  <2>1. PICK j \in 1..Len(strings) : params[i] = Inline(capacity, j) /\ strings[j] = bound[i]
                                     /\ capacity \in 1..MaxCapacity
    BY <1>4 DEF Kept
  <2>2. j \in 1..MaxParams
    BY <2>1, BoundFacts DEF Typed, TypeOK, Fits
  <2>3. params[i] # Null
    BY <2>1, <2>2, NullFacts
  <2>4. params[i].to = "element" /\ params[i].address = capacity /\ params[i].slot = j
    BY <2>1 DEF Inline
  <2>5. j \in DOMAIN strings
    BY <2>1 DEF Typed, TypeOK
  <2> QED
    BY <2>1, <2>3, <2>4, <2>5 DEF LeadsTo
<1> QED
  BY <1>1, <1>2, <1>3, <1>4

\* Each parameter is sent as it was bound, but for short strings before the last
\* parameter of an execution that binds more strings than any before it.
THEOREM OnlyShortStringsMove == Spec => []SentAsBoundUnlessMoved
<1>1. Init => Holds
  BY DEF Init, Holds
<1>2. Typed /\ Holds => SentAsBoundUnlessMoved
  <2> SUFFICES ASSUME Typed, Holds, pc = "sent"
               PROVE  /\ Len(params) = Len(bound)
                      /\ \A i \in DOMAIN bound :
                           bound[i].kind # "short" \/ i = Len(bound) \/ Len(strings) <= room
                             => LeadsTo(params[i], bound[i])
    BY DEF SentAsBoundUnlessMoved
  <2>1. DOMAIN bound = 1..Len(bound)
    BY DEF Typed, TypeOK
  <2>2. Len(params) = Len(bound) /\ \A i \in 1..Len(bound) : Kept(i)
    BY DEF Holds
  <2> QED
    BY <2>1, <2>2, KeptLeads
<1> QED
  BY <1>1, <1>2, TypedInit, TypedStep, HoldsStep, PTL DEF Spec

=============================================================================
