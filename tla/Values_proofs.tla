------------------------------ MODULE Values_proofs ------------------------------
(***************************************************************************)
(* Theorems about the values: ValueGet, for types of any width, and        *)
(* RoundTrip, for any width of int, long int and long long.  They are in   *)
(* one module because both need the arithmetic of powers of two, of which  *)
(* the provers know nothing: the law PowersDouble, true of the natural     *)
(* numbers, is a hypothesis of every theorem that uses it.                 *)
(***************************************************************************)
EXTENDS ValueGet, RoundTrip, WellFoundedInduction, TLAPS

-----------------------------------------------------------------------------
(* Value::Get where its tests guard it.  Nothing is assumed of how a       *)
(* number is rounded to a double: only that a conversion which does round  *)
(* is noticed.                                                             *)

\* As long as every conversion was guarded: the number is the one the chain
\* began with, it is whole unless it is a double's, and the last type that
\* refused it cannot hold it.
Guarded ==
  ~inexact =>
    /\ value.type \in Types
    /\ value.number = origin
    /\ value.number \in Int \cup {Infinite}
    /\ value.type # "Double" => \E n \in Int : value.number = Whole(n)
    /\ thrown => value.number \notin Stored(asked)

LEMMA NullFacts == Infinite \notin Int /\ Thrown \notin Int /\ Infinite # Thrown
BY WidthsAssumption

LEMMA WholeFacts ==
  ASSUME NEW n \in Int
  PROVE  Whole(n) \in Int /\ Whole(n) \div 2 = n
BY DEF Whole

\* A whole number is stored exactly where it is representable.
LEMMA StoredWhole ==
  ASSUME NEW t \in Types, t # "Double", NEW n \in Int
  PROVE  Whole(n) \in Stored(t) <=> Representable(n, t)
BY DEF Stored, Whole, Representable

LEMMA GuardedInit == Init => Guarded
<1> SUFFICES ASSUME Init PROVE Guarded
  OBVIOUS
<1>1. PICK t \in Types : value \in [type: {t}, number: Stored(t)]
  BY DEF Init
<1>2. value.type = t /\ value.number \in Stored(t)
    BY <1>1
<1>3. CASE t = "Double"
  BY <1>2, <1>3 DEF Init, Guarded, Stored, Doubles
<1>4. CASE t # "Double"
  <2>1. PICK n \in Int : value.number = Whole(n)
    BY <1>2, <1>4 DEF Stored
  <2> QED
    BY <1>2, <2>1, WholeFacts DEF Init, Guarded
<1> QED
  BY <1>3, <1>4

\* A whole number is kept by every type that can hold it and refused by the others.
LEMMA IntegralKept ==
  ASSUME NEW n \in Int, NEW to \in Types, to # "Double",
         NEW r, r = IntegralToIntegral(n, to)
  PROVE  /\ r # Thrown => r = Whole(n)
         /\ r = Thrown => Whole(n) \notin Stored(to)
<1>1. Whole(n) # Thrown
  BY WholeFacts, NullFacts
<1> QED
  BY <1>1, StoredWhole DEF IntegralToIntegral

\* A guarded conversion keeps the number or refuses it, and refuses it only when
\* the type asked for cannot hold it.
LEMMA ConvertedKept ==
  ASSUME Guarded, ~inexact, NEW to \in Types, ~Unguarded(value, to),
         NEW r \in Converted(value, to)
  PROVE  /\ r # Thrown => /\ r = value.number
                          /\ to # "Double" => \E n \in Int : r = Whole(n)
         /\ r = Thrown => value.number \notin Stored(to)
<1> DEFINE v == value
<1>1. /\ v.type \in Types /\ v.number \in Int \cup {Infinite}
      /\ v.type # "Double" => \E n \in Int : v.number = Whole(n)
      /\ v.number # Thrown
  BY NullFacts DEF Guarded
<1>2. CASE v.type = to
  BY <1>1, <1>2 DEF Converted
<1>3. CASE v.type # to /\ to = "Double"
  <2>1. r = Rounded(v.number) /\ Rounded(v.number) = v.number
    BY <1>3 DEF Converted, Unguarded
  <2> QED
    BY <1>1, <1>3, <2>1
<1>4. CASE v.type = "Double" /\ to # "Double"
  <2>1. r \in DoubleToIntegral(v.number, to)
    BY <1>4 DEF Converted
  <2>2. CASE v.number = Infinite
    <3>1. r = Thrown
      BY <2>1, <2>2 DEF DoubleToIntegral
    <3>2. \A n \in Int : Whole(n) # Infinite
      BY WholeFacts, NullFacts
    <3>3. Infinite \notin Stored(to)
      BY <1>4, <3>2 DEF Stored
    <3> QED
      BY <2>2, <3>1, <3>3
  <2>3. CASE v.number # Infinite /\ v.number % 2 # 0
    <3>1. r = Thrown
      BY <2>1, <2>3 DEF DoubleToIntegral
    <3>2. v.number \in Int
      BY <1>1, <2>3
    <3>3. \A n \in Int : Whole(n) # v.number
      BY <2>3, <3>2 DEF Whole
    <3>4. v.number \notin Stored(to)
      BY <1>4, <3>3 DEF Stored
    <3> QED
      BY <3>1, <3>4
  <2>4. CASE v.number # Infinite /\ v.number % 2 = 0
    <3> DEFINE m == v.number \div 2
    <3>1. v.number \in Int /\ m \in Int /\ v.number = Whole(m)
      BY <1>1, <2>4 DEF Whole
    <3>2. m \in IntMax
      BY <1>4, <2>4 DEF Unguarded
    <3>3. CastToIntMax(m) = {m}
      BY <3>2 DEF CastToIntMax
    <3>4. r = IntegralToIntegral(m, to)
      BY <2>1, <2>4, <3>3 DEF DoubleToIntegral
    <3> QED
      BY <1>4, <3>1, <3>4, IntegralKept
  <2> QED
    BY <2>2, <2>3, <2>4
<1>5. CASE v.type # to /\ v.type # "Double" /\ to # "Double"
  <2>1. r = IntegralToIntegral(v.number \div 2, to)
    BY <1>5 DEF Converted
  <2>2. PICK n \in Int : v.number = Whole(n)
    BY <1>1, <1>5
  <2>3. r = IntegralToIntegral(n, to)
    BY <2>1, <2>2, WholeFacts
  <2> QED
    BY <1>5, <2>2, <2>3, IntegralKept
<1> QED
  BY <1>2, <1>3, <1>4, <1>5

LEMMA GuardedStep == Guarded /\ [Next]_vars => Guarded'
<1> SUFFICES ASSUME Guarded, [Next]_vars, ~inexact' PROVE Guarded'
  BY DEF Guarded
<1>1. CASE UNCHANGED vars
  BY <1>1 DEF vars, Guarded
<1>2. ASSUME NEW to \in Types, Get(to) PROVE Guarded'
  <2>1. ~inexact /\ ~Unguarded(value, to)
    BY <1>2 DEF Get
  <2>2. PICK r \in Converted(value, to) :
          /\ thrown' = (r = Thrown)
          /\ value' = IF r = Thrown THEN value ELSE [type |-> to, number |-> r]
    BY <1>2 DEF Get
  <2>3. asked' = to /\ origin' = origin
    BY <1>2 DEF Get
  <2>4. /\ r # Thrown => /\ r = value.number
                         /\ to # "Double" => \E n \in Int : r = Whole(n)
        /\ r = Thrown => value.number \notin Stored(to)
    BY <2>1, <2>2, ConvertedKept
  <2>5. CASE r = Thrown
    BY <2>1, <2>2, <2>3, <2>4, <2>5 DEF Guarded, Stored
  <2>6. CASE r # Thrown
    <3>1. value' = [type |-> to, number |-> r] /\ ~thrown'
      BY <2>2, <2>6
    <3> QED
      BY <2>1, <2>3, <2>4, <2>6, <3>1 DEF Guarded
  <2> QED
    BY <2>5, <2>6
<1> QED
  BY <1>1, <1>2 DEF Next

LEMMA AlwaysGuarded == Spec => []Guarded
BY GuardedInit, GuardedStep, PTL DEF Spec

\* The second half of NumberKeptWhereGuarded: however often a Value is read as
\* other types and stored again, the number stays, as long as every conversion
\* stays where Get tests it.
THEOREM GuardedChainKeepsNumber == Spec => [](~inexact => value.number = origin)
<1>1. Guarded => (~inexact => value.number = origin)
  BY DEF Guarded
<1> QED
  BY <1>1, AlwaysGuarded, PTL

\* Get refuses a number only when the type asked for cannot hold it, under the
\* same condition: no range test is too strict at either end.
THEOREM RefusesOnlyWhenItMust == Spec => []ThrowsOnlyWhenItMust
<1>1. Guarded => ThrowsOnlyWhenItMust
  BY DEF Guarded, ThrowsOnlyWhenItMust
<1> QED
  BY <1>1, AlwaysGuarded, PTL

-----------------------------------------------------------------------------
(* Powers of two, division and the spacing of doubles.                     *)

\* A set of natural numbers has a least one: the induction of what follows.
LEMMA Least ==
  ASSUME NEW P \in SUBSET Nat, P # {}
  PROVE  \E i \in P : \A j \in P : i <= j
<1> DEFINE less == {pair \in Nat \X Nat : pair[1] < pair[2]}
<1>1. IsWellFoundedOn(less, Nat)
  BY NatLessThanWellFounded DEF OpToRel
<1>2. \E i \in P : \A j \in P : <<j, i>> \notin less
  <2> HIDE DEF less
  <2> QED
    BY <1>1, WFMin
<1>3. \A i, j \in Nat : <<j, i>> \notin less => i <= j
  OBVIOUS
<1> HIDE DEF less
<1> QED
  BY <1>2, <1>3

\* The law of 2 ^ n, a fact of arithmetic.
PowersDouble == \A n \in Nat : 2 ^ n \in Nat \ {0} /\ 2 ^ (n + 1) = 2 * 2 ^ n

LEMMA PowersMonotone ==
  ASSUME PowersDouble, NEW a \in Nat, NEW b \in Nat, a <= b
  PROVE  2 ^ a <= 2 ^ b
<1> SUFFICES ASSUME 2 ^ b < 2 ^ a
             PROVE  FALSE
  BY DEF PowersDouble
<1> DEFINE P == {n \in Nat : a <= n /\ 2 ^ n < 2 ^ a}
<1>1. PICK m \in P : \A n \in P : m <= n
  <2>1. P \in SUBSET Nat /\ b \in P
    OBVIOUS
  <2> HIDE DEF P
  <2> QED
    BY <2>1, Least
<1>2. m # a
  BY <1>1 DEF PowersDouble
<1>3. m - 1 \in Nat /\ a <= m - 1 /\ m - 1 \notin P
  BY <1>1, <1>2
<1>4. 2 ^ m = 2 * 2 ^ (m - 1)
  <2>1. \A k \in Nat : 2 ^ (k + 1) = 2 * 2 ^ k
    BY DEF PowersDouble
  <2>2. (m - 1) + 1 = m
    BY <1>3
  <2> QED
    BY <1>3, <2>1, <2>2
<1>5. 2 ^ (m - 1) \in Nat /\ 2 ^ a \in Nat
  BY <1>3 DEF PowersDouble
<1> QED
  BY <1>1, <1>3, <1>4, <1>5

LEMMA PowersAdd ==
  ASSUME PowersDouble, NEW a \in Nat, NEW b \in Nat
  PROVE  2 ^ (a + b) = 2 ^ a * 2 ^ b
<1> SUFFICES ASSUME 2 ^ (a + b) # 2 ^ a * 2 ^ b
             PROVE  FALSE
  OBVIOUS
<1> DEFINE P == {n \in Nat : 2 ^ (a + n) # 2 ^ a * 2 ^ n}
<1>1. PICK m \in P : \A n \in P : m <= n
  <2>1. P \in SUBSET Nat /\ b \in P
    OBVIOUS
  <2> HIDE DEF P
  <2> QED
    BY <2>1, Least
<1>2. 2 ^ 0 = 1 /\ 2 ^ (a + 0) = 2 ^ a
  <2>1. a + 0 = a
    OBVIOUS
  <2> QED
    BY <2>1
<1>3. m # 0
  <2> SUFFICES ASSUME m = 0
               PROVE  FALSE
    OBVIOUS
  <2>1. 2 ^ (a + 0) # 2 ^ a * 2 ^ 0
    BY <1>1
  <2>2. 2 ^ a \in Nat
    BY DEF PowersDouble
  <2>3. \A x \in Nat : x * 1 = x
    OBVIOUS
  <2> QED
    BY <1>2, <2>1, <2>2, <2>3
<1>4. m - 1 \in Nat /\ 2 ^ (a + (m - 1)) = 2 ^ a * 2 ^ (m - 1)
  BY <1>1, <1>3
<1>5. 2 ^ m = 2 * 2 ^ (m - 1) /\ 2 ^ (a + m) = 2 * 2 ^ (a + (m - 1))
  <2>1. \A k \in Nat : 2 ^ (k + 1) = 2 * 2 ^ k
    BY DEF PowersDouble
  <2>2. (m - 1) + 1 = m /\ (a + (m - 1)) + 1 = a + m /\ a + (m - 1) \in Nat
    BY <1>4
  <2> QED
    BY <1>4, <2>1, <2>2
<1>6. \A x, y \in Nat : 2 * (x * y) = x * (2 * y)
  OBVIOUS
<1>7. 2 ^ (m - 1) \in Nat /\ 2 ^ a \in Nat
  BY <1>4 DEF PowersDouble
<1> QED
  BY <1>1, <1>4, <1>5, <1>6, <1>7

LEMMA TimesMonotone ==
  ASSUME NEW a \in Nat, NEW b \in Nat, NEW u \in Nat, a <= b
  PROVE  a * u <= b * u
<1>1. PICK d \in Nat : b = a + d
  BY b - a \in Nat
<1>2. b * u = a * u + d * u /\ a * u \in Nat /\ d * u \in Nat
  BY <1>1
<1> QED
  BY <1>2

LEMMA Division ==
  ASSUME NEW m \in Nat, NEW u \in Nat \ {0}
  PROVE  /\ m \div u \in Nat /\ m % u \in 0..(u - 1)
         /\ m = (m \div u) * u + (m % u)
  OBVIOUS

LEMMA Multiples ==
  ASSUME NEW s \in Nat, NEW u \in Nat \ {0}
  PROVE  (s * u) \div u = s /\ (s * u) % u = 0
<1> DEFINE m == s * u
           q == m \div u
           r == m % u
<1>1. m \in Nat
  OBVIOUS
<1> HIDE DEF m
<1>2. q \in Nat /\ r \in 0..(u - 1) /\ m = q * u + r
  BY <1>1, Division
<1> HIDE DEF q, r
<1>3. q * u \in Nat
  BY <1>2
<1>4. ~(q < s)
  <2> SUFFICES ASSUME q < s PROVE FALSE
    OBVIOUS
  <2>1. (q + 1) * u <= s * u
    BY <1>2, TimesMonotone
  <2>2. (q + 1) * u = q * u + u
    BY <1>2
  <2> QED
    BY <1>2, <1>3, <2>1, <2>2 DEF m
<1>5. ~(s < q)
  <2> SUFFICES ASSUME s < q PROVE FALSE
    OBVIOUS
  <2>1. (s + 1) * u <= q * u
    BY <1>2, TimesMonotone
  <2>2. (s + 1) * u = s * u + u
    OBVIOUS
  <2>3. s * u \in Nat
    OBVIOUS
  <2> QED
    BY <1>2, <1>3, <2>1, <2>2, <2>3 DEF m
<1>6. q = s
  BY <1>2, <1>4, <1>5
<1>7. r = 0
  BY <1>1, <1>2, <1>3, <1>6 DEF m
<1> QED
  BY <1>6, <1>7 DEF m, q, r

\* Doubles of magnitude m are 2 ^ e apart.
Apart(m, e) ==
  /\ m < 2 ^ (DoubleBits + e)
  /\ e = 0 \/ m >= 2 ^ (DoubleBits + e - 1)

LEMMA ApartOnce ==
  ASSUME PowersDouble, NEW m \in Nat, NEW e \in Nat, NEW f \in Nat, Apart(m, e), Apart(m, f)
  PROVE  e = f
<1>1. ASSUME NEW a \in Nat, NEW b \in Nat, Apart(m, a), Apart(m, b)
      PROVE  ~(a < b)
  <2> SUFFICES ASSUME a < b
               PROVE  FALSE
    OBVIOUS
  <2>1. DoubleBits + a \in Nat /\ DoubleBits + b - 1 \in Nat /\ DoubleBits + a <= DoubleBits + b - 1
    BY WidthsAssumption
  <2>2. 2 ^ (DoubleBits + a) <= 2 ^ (DoubleBits + b - 1)
    BY <2>1, PowersMonotone
  <2>3. 2 ^ (DoubleBits + a) \in Nat /\ 2 ^ (DoubleBits + b - 1) \in Nat
    BY <2>1 DEF PowersDouble
  <2>4. m < 2 ^ (DoubleBits + a) /\ m >= 2 ^ (DoubleBits + b - 1)
    BY <1>1 DEF Apart
  <2> QED
    BY <2>2, <2>3, <2>4
<1> QED
  BY <1>1

LEMMA ApartSome ==
  ASSUME PowersDouble, NEW m \in Nat, NEW k \in Nat, m < 2 ^ (DoubleBits + k)
  PROVE  \E e \in 0..k : Apart(m, e)
<1> DEFINE P == {e \in Nat : m < 2 ^ (DoubleBits + e)}
<1>1. PICK e \in P : \A f \in P : e <= f
  <2>1. P \in SUBSET Nat /\ k \in P
    OBVIOUS
  <2> HIDE DEF P
  <2> QED
    BY <2>1, Least
<1>2. e \in 0..k
  BY <1>1
<1>3. e = 0 \/ m >= 2 ^ (DoubleBits + e - 1)
  <2> SUFFICES ASSUME e # 0
               PROVE  m >= 2 ^ (DoubleBits + e - 1)
    OBVIOUS
  <2>1. e - 1 \in Nat /\ ~(m < 2 ^ (DoubleBits + (e - 1)))
    BY <1>1
  <2>2. DoubleBits + (e - 1) = DoubleBits + e - 1 /\ DoubleBits + e - 1 \in Nat
    BY <2>1, WidthsAssumption
  <2>3. 2 ^ (DoubleBits + e - 1) \in Nat
    BY <2>2 DEF PowersDouble
  <2> QED
    BY <2>1, <2>2, <2>3
<1> QED
  BY <1>2, <1>3 DEF Apart

LEMMA SpacingIs ==
  ASSUME PowersDouble, NEW n \in Int, NEW e \in 0..(MaxBits + 2), Apart(Magnitude(n), e)
  PROVE  Spacing(n) = 2 ^ e
<1> DEFINE Choice == CHOOSE f \in 0..(MaxBits + 2) : Apart(Magnitude(n), f)
<1>1. Magnitude(n) \in Nat
  BY DEF Magnitude
<1>2. Choice \in 0..(MaxBits + 2) /\ Apart(Magnitude(n), Choice)
  OBVIOUS
<1>3. Choice = e
  <2> HIDE DEF Choice
  <2>1. 0..(MaxBits + 2) \subseteq Nat
    BY WidthsAssumption
  <2> QED
    BY <1>1, <1>2, <2>1, ApartOnce
<1>4. Spacing(n) = 2 ^ Choice
  BY DEF Spacing, Apart
<1> QED
  BY <1>3, <1>4

\* n, or minus it, as another number is negative or not.
Like(n, r) == IF n < 0 THEN -r ELSE r

\* Rounding goes to one of the two multiples of the spacing next to a number,
\* and nowhere from a multiple.
LEMMA RoundedIs ==
  ASSUME PowersDouble, NEW n \in Int, NEW e \in 0..(MaxBits + 2), Apart(Magnitude(n), e)
  PROVE  \E steps \in Nat :
            /\ Rounded(n) = Like(n, steps * 2 ^ e)
            /\ steps \in {Magnitude(n) \div 2 ^ e, (Magnitude(n) \div 2 ^ e) + 1}
            /\ Magnitude(n) % 2 ^ e = 0 => steps = Magnitude(n) \div 2 ^ e
<1> DEFINE unit == 2 ^ e
           m == Magnitude(n)
           below == m \div unit
           rest == 2 * (m % unit)
           steps == IF rest > unit \/ (rest = unit /\ below % 2 = 1) THEN below + 1 ELSE below
<1>1. m \in Nat /\ unit \in Nat \ {0}
  <2>1. e \in Nat
    BY WidthsAssumption
  <2> QED
    BY <2>1 DEF Magnitude, PowersDouble
<1>2. Rounded(n) = Like(n, steps * unit)
  BY SpacingIs DEF Rounded, Like
<1> HIDE DEF unit, m
<1>3. below \in Nat /\ m % unit \in 0..(unit - 1)
  BY <1>1, Division
<1>4. m % unit = 0 => steps = below
  BY <1>1, <1>3
<1>5. steps \in Nat /\ steps \in {below, below + 1}
  BY <1>3
<1> HIDE DEF steps
<1> QED
  BY <1>2, <1>4, <1>5 DEF unit, m

\* A multiple of the spacing is a double.
LEMMA RoundedFixed ==
  ASSUME PowersDouble, NEW h \in Int, NEW e \in 0..(MaxBits + 2), Apart(Magnitude(h), e),
         NEW s \in Nat, Magnitude(h) = s * 2 ^ e
  PROVE  Rounded(h) = h
<1>1. 2 ^ e \in Nat \ {0}
  BY WidthsAssumption DEF PowersDouble
<1>2. Magnitude(h) \div 2 ^ e = s /\ Magnitude(h) % 2 ^ e = 0
  BY <1>1, Multiples
<1>3. Rounded(h) = Like(h, s * 2 ^ e)
  BY <1>2, RoundedIs
<1> QED
  BY <1>3 DEF Like, Magnitude

LEMMA Quotient ==
  ASSUME NEW m \in Nat, NEW u \in Nat \ {0}, NEW a \in Nat
  PROVE  /\ m < a * u => m \div u < a
         /\ m >= a * u => m \div u >= a
<1> DEFINE q == m \div u
           r == m % u
<1>0. q \in Nat /\ r \in 0..(u - 1) /\ m = q * u + r
  BY Division
<1> HIDE DEF q, r
<1>1. q \in Nat /\ r \in 0..(u - 1) /\ m = q * u + r /\ q * u \in Nat /\ a * u \in Nat
  BY <1>0
<1>2. a <= q => a * u <= q * u
  BY <1>1, TimesMonotone
<1>3. q < a => q * u + u <= a * u
  <2> SUFFICES ASSUME q < a PROVE q * u + u <= a * u
    OBVIOUS
  <2>1. (q + 1) * u <= a * u
    BY <1>1, TimesMonotone
  <2>2. (q + 1) * u = q * u + u
    BY <1>1
  <2> QED
    BY <2>1, <2>2
<1>4. m < a * u => q < a
  BY <1>1, <1>2
<1>5. m >= a * u => q >= a
  BY <1>1, <1>3
<1> QED
  BY <1>4, <1>5 DEF q

\* How far rounding goes: never past the next power of two, nor back past the last.
LEMMA RoundedNear ==
  ASSUME PowersDouble, NEW m \in Nat, NEW e \in Nat, Apart(m, e),
         NEW steps \in Nat, steps \in {m \div 2 ^ e, (m \div 2 ^ e) + 1}
  PROVE  /\ steps * 2 ^ e \in Nat
         /\ steps * 2 ^ e <= 2 ^ (DoubleBits + e)
         /\ e = 0 \/ steps * 2 ^ e >= 2 ^ (DoubleBits + e - 1)
<1> DEFINE unit == 2 ^ e
           top == 2 ^ DoubleBits
           half == 2 ^ (DoubleBits - 1)
<1>1. DoubleBits \in Nat /\ DoubleBits - 1 \in Nat /\ DoubleBits + e - 1 = (DoubleBits - 1) + e
  BY WidthsAssumption
<1>2. unit \in Nat \ {0} /\ top \in Nat /\ half \in Nat
  BY <1>1 DEF PowersDouble
<1>3. 2 ^ (DoubleBits + e) = top * unit /\ 2 ^ (DoubleBits + e - 1) = half * unit
  BY <1>1, PowersAdd
<1>4. m < top * unit /\ (e = 0 \/ m >= half * unit)
  BY <1>3 DEF Apart
<1> HIDE DEF unit, top, half
<1>5. m \div unit \in Nat /\ m \div unit < top /\ (e = 0 \/ m \div unit >= half)
  BY <1>2, <1>4, Quotient, Division
<1>6. steps <= top /\ (e = 0 \/ steps >= half)
  BY <1>2, <1>5 DEF unit
<1>7. steps * unit <= top * unit /\ (e = 0 \/ half * unit <= steps * unit)
  BY <1>2, <1>6, TimesMonotone
<1>8. steps * unit \in Nat /\ top * unit \in Nat /\ half * unit \in Nat
  BY <1>2
<1>9. /\ steps * unit <= 2 ^ (DoubleBits + e)
      /\ e = 0 \/ steps * unit >= 2 ^ (DoubleBits + e - 1)
  BY <1>3, <1>7, <1>8
<1> QED
  BY <1>8, <1>9 DEF unit

\* Rounding twice is rounding once, and no number that an integral type holds is
\* rounded to one beyond 2 ^ (MaxBits + 1).
LEMMA RoundedRounded ==
  ASSUME PowersDouble, NEW n \in Int, Magnitude(n) < 2 ^ (MaxBits + 1)
  PROVE  /\ Rounded(n) \in Int
         /\ Magnitude(Rounded(n)) <= 2 ^ (MaxBits + 1)
         /\ Rounded(Rounded(n)) = Rounded(n)
<1> DEFINE m == Magnitude(n)
<1>1. m \in Nat
  BY DEF Magnitude
<1>2. MaxBits \in Nat /\ DoubleBits \in Nat \ {0} /\ MaxBits + 1 <= DoubleBits + MaxBits
  BY WidthsAssumption
<1>3. m < 2 ^ (DoubleBits + MaxBits)
  <2>1. 2 ^ (MaxBits + 1) <= 2 ^ (DoubleBits + MaxBits)
    BY <1>2, PowersMonotone
  <2>2. 2 ^ (MaxBits + 1) \in Nat /\ 2 ^ (DoubleBits + MaxBits) \in Nat
    BY <1>2 DEF PowersDouble
  <2> QED
    BY <1>1, <2>1, <2>2
<1>4. PICK e \in 0..MaxBits : Apart(m, e)
  BY <1>1, <1>2, <1>3, ApartSome
<1>5. e \in 0..(MaxBits + 2) /\ e \in Nat /\ e + 1 \in 0..(MaxBits + 2)
  BY <1>2
<1>6. PICK s \in Nat : /\ Rounded(n) = Like(n, s * 2 ^ e)
                       /\ s \in {m \div 2 ^ e, (m \div 2 ^ e) + 1}
                       /\ m % 2 ^ e = 0 => s = m \div 2 ^ e
  BY <1>4, <1>5, RoundedIs
<1> DEFINE r == s * 2 ^ e
<1>7. /\ r \in Nat /\ r <= 2 ^ (DoubleBits + e)
      /\ e = 0 \/ r >= 2 ^ (DoubleBits + e - 1)
  BY <1>1, <1>4, <1>5, <1>6, RoundedNear
<1>8. Rounded(n) = Like(n, r)
  BY <1>6
<1>9. Rounded(n) \in Int /\ Magnitude(Rounded(n)) = r
  <2> HIDE DEF r
  <2> QED
    BY <1>7, <1>8 DEF Like, Magnitude
<1>10. r <= 2 ^ (MaxBits + 1)
  <2>1. CASE e = 0
    <3>1. 2 ^ e = 1
      BY <2>1
    <3>2. m \div 2 ^ e = m /\ m % 2 ^ e = 0
      BY <1>1, <3>1
    <3>3. r = m
      BY <1>1, <1>6, <3>1, <3>2
    <3> QED
      BY <1>1, <1>2, <3>3 DEF PowersDouble
  <2>2. CASE e # 0
    <3>1. m >= 2 ^ (DoubleBits + e - 1)
      BY <1>4, <2>2 DEF Apart
    <3>2. DoubleBits + e - 1 \in Nat /\ DoubleBits + e \in Nat
      BY <1>2, <1>5
    <3>3. 2 ^ (DoubleBits + e - 1) \in Nat /\ 2 ^ (MaxBits + 1) \in Nat /\ 2 ^ (DoubleBits + e) \in Nat
      BY <1>2, <3>2 DEF PowersDouble
    <3>4. DoubleBits + e <= MaxBits + 1
      <4> SUFFICES ASSUME MaxBits + 1 <= DoubleBits + e - 1
                   PROVE  FALSE
        BY <1>2, <1>5
      <4>1. 2 ^ (MaxBits + 1) <= 2 ^ (DoubleBits + e - 1)
        BY <1>2, <3>2, PowersMonotone
      <4> QED
        BY <1>1, <3>1, <3>3, <4>1
    <3>5. 2 ^ (DoubleBits + e) <= 2 ^ (MaxBits + 1)
      BY <1>2, <3>2, <3>4, PowersMonotone
    <3> HIDE DEF r
    <3> QED
      BY <1>7, <3>3, <3>5
  <2> QED
    BY <2>1, <2>2
<1>11. Rounded(Rounded(n)) = Rounded(n)
  <2>1. CASE r < 2 ^ (DoubleBits + e)
    <3>1. Apart(r, e)
      BY <1>7, <2>1 DEF Apart
    <3> QED
      BY <1>5, <1>9, <3>1, RoundedFixed
  <2>2. CASE r = 2 ^ (DoubleBits + e)
    <3>1. DoubleBits + e \in Nat /\ DoubleBits + (e + 1) = (DoubleBits + e) + 1
          /\ DoubleBits + (e + 1) - 1 = DoubleBits + e /\ e + 1 \in Nat
      BY <1>2, <1>5
    <3>2. 2 ^ (DoubleBits + (e + 1)) = 2 * 2 ^ (DoubleBits + e) /\ 2 ^ (DoubleBits + e) \in Nat \ {0}
      BY <3>1 DEF PowersDouble
    <3>3. Apart(r, e + 1)
      <4> HIDE DEF r
      <4>1. r < 2 ^ (DoubleBits + (e + 1))
        BY <2>2, <3>2
      <4>2. r >= 2 ^ (DoubleBits + (e + 1) - 1)
        BY <1>7, <2>2, <3>1
      <4> QED
        BY <4>1, <4>2 DEF Apart
    <3>4. DoubleBits - 1 \in Nat /\ DoubleBits + e = (DoubleBits - 1) + (e + 1)
      BY <1>2, <1>5
    <3>5. r = 2 ^ (DoubleBits - 1) * 2 ^ (e + 1)
      BY <2>2, <3>1, <3>4, PowersAdd
    <3>6. 2 ^ (DoubleBits - 1) \in Nat
      BY <3>4 DEF PowersDouble
    <3> HIDE DEF r
    <3> QED
      BY <1>5, <1>9, <3>3, <3>5, <3>6, RoundedFixed
  <2>3. 2 ^ (DoubleBits + e) \in Nat
    BY <1>2, <1>5 DEF PowersDouble
  <2> HIDE DEF r
  <2> QED
    BY <1>7, <2>1, <2>2, <2>3
<1> HIDE DEF r
<1> QED
  BY <1>9, <1>10, <1>11

-----------------------------------------------------------------------------
(* Value::Get, guarded or not.                                             *)

\* Every type holds numbers of the range it has, whatever was converted into it.
Fits == value.type \in Types /\ value.number \in Stored(value.type)

\* The numbers of the integral types are short of the next power of two.
LEMMA IntegralShort ==
  ASSUME PowersDouble, NEW t \in Integral, NEW h \in Stored(t)
  PROVE  h \in Int /\ Magnitude(h) < 2 ^ (MaxBits + 1)
<1>1. PICK n \in Lowest(t)..Highest(t) : h = Whole(n)
  BY DEF Stored, Integral, Signed, Unsigned
<1> DEFINE top == 2 ^ MaxBits
<1>2. top \in Nat /\ top >= 2 /\ 2 ^ (MaxBits + 1) = 2 * top
  <2>1. MaxBits \in Nat /\ 1 \in Nat /\ 1 <= MaxBits /\ 2 ^ 1 = 2
    BY WidthsAssumption
  <2>2. 2 ^ 1 <= 2 ^ MaxBits
    BY <2>1, PowersMonotone
  <2> QED
    BY <2>1, <2>2 DEF PowersDouble
<1>3. Lowest(t) \in Int /\ Highest(t) \in Int /\ Lowest(t) > -top /\ Highest(t) < top
  <2>1. ASSUME NEW w \in {IntBits, LongBits}
        PROVE  /\ w - 1 \in Nat /\ 2 ^ (w - 1) \in Nat \ {0} /\ 2 ^ w \in Nat /\ 2 ^ w = 2 * 2 ^ (w - 1)
               /\ 2 ^ w <= top
    <3>1. w \in Nat \ {0} /\ w <= MaxBits /\ MaxBits \in Nat
      BY <2>1, WidthsAssumption
    <3>2. w - 1 \in Nat /\ (w - 1) + 1 = w
      BY <3>1
    <3>3. 2 ^ ((w - 1) + 1) = 2 * 2 ^ (w - 1) /\ 2 ^ (w - 1) \in Nat \ {0} /\ 2 ^ w \in Nat
      BY <3>1, <3>2 DEF PowersDouble
    <3> QED
      BY <3>1, <3>2, <3>3, PowersMonotone
  <2>2. CASE t = "Boolean"
    <3>1. Lowest(t) = 0 /\ Highest(t) = 1
      BY <2>2 DEF Lowest, Highest, Signed
    <3> QED
      BY <1>2, <3>1
  <2>3. CASE t # "Boolean"
    <3>1. Bits[t] \in {IntBits, LongBits}
      BY <2>3 DEF Bits, Integral, Signed, Unsigned
    <3> DEFINE half == 2 ^ (Bits[t] - 1)
               full == 2 ^ Bits[t]
    <3>2. half \in Nat \ {0} /\ full \in Nat /\ full = 2 * half /\ full <= top
      BY <2>1, <3>1
    <3>3. /\ Lowest(t) = IF t \in Signed THEN -half ELSE 0
          /\ Highest(t) = IF t \in Signed THEN half - 1 ELSE full - 1
      BY <2>3 DEF Lowest, Highest
    <3> HIDE DEF half, full, top
    <3> QED
      BY <1>2, <3>2, <3>3
  <2> QED
    BY <2>2, <2>3
<1> HIDE DEF top
<1>4. n \in Int /\ n > -top /\ n < top
  BY <1>1, <1>2, <1>3
<1> QED
  BY <1>1, <1>2, <1>4 DEF Whole, Magnitude

\* What a number is rounded to is one of the doubles.
LEMMA RoundedStored ==
  ASSUME PowersDouble, NEW t \in Integral, NEW h \in Stored(t)
  PROVE  Rounded(h) \in Doubles
<1>1. h \in Int /\ Magnitude(h) < 2 ^ (MaxBits + 1)
  BY IntegralShort
<1> DEFINE r == Rounded(h)
<1>2. r \in Int /\ Magnitude(r) <= 2 ^ (MaxBits + 1) /\ Rounded(r) = r
  BY <1>1, RoundedRounded
<1> DEFINE half == 2 ^ (MaxBits - 1)
<1>3. half \in Nat /\ 2 ^ (MaxBits + 1) = 2 * (2 * half) /\ Beyond \in Nat /\ Beyond >= half
  <2>1. MaxBits \in Nat /\ MaxBits - 1 \in Nat /\ (MaxBits - 1) + 1 = MaxBits
    BY WidthsAssumption
  <2>2. 2 ^ ((MaxBits - 1) + 1) = 2 * 2 ^ (MaxBits - 1) /\ 2 ^ (MaxBits + 1) = 2 * 2 ^ MaxBits
        /\ 2 ^ (MaxBits - 1) \in Nat
    BY <2>1 DEF PowersDouble
  <2> QED
    BY <2>1, <2>2, WidthsAssumption
<1>4. r \in Whole(-half - Beyond) .. Whole(half + Beyond)
  <2> HIDE DEF r, half
  <2> QED
    BY <1>2, <1>3 DEF Whole, Magnitude
<1>5. r \in Doubles
  BY <1>2, <1>4 DEF Doubles
<1> QED
  BY <1>5

\* A conversion to an integral type yields a number of that type.
LEMMA IntegralStored ==
  ASSUME NEW n \in Int, NEW to \in Integral, IntegralToIntegral(n, to) # Thrown
  PROVE  IntegralToIntegral(n, to) \in Stored(to)
<1>1. Representable(n, to) /\ IntegralToIntegral(n, to) = Whole(n)
  BY DEF IntegralToIntegral
<1>2. to \in Types /\ to # "Double"
  BY DEF Types, Integral, Signed, Unsigned
<1> QED
  BY <1>1, <1>2, StoredWhole

\* A conversion yields a number of the type asked for, or throws.
LEMMA ConvertedFits ==
  ASSUME PowersDouble, Fits, NEW to \in Types, NEW r \in Converted(value, to), r # Thrown
  PROVE  r \in Stored(to)
<1> DEFINE v == value
<1>1. v.type \in Types /\ v.number \in Stored(v.type)
  BY DEF Fits
<1>2. \A t \in Types : t # "Double" => t \in Integral
  BY DEF Types
<1>3. CASE v.type = to
  BY <1>1, <1>3 DEF Converted
<1>4. CASE v.type # to /\ to = "Double"
  <2>1. r = Rounded(v.number) /\ v.type \in Integral
    BY <1>1, <1>2, <1>4 DEF Converted
  <2>2. r \in Doubles
    BY <1>1, <2>1, RoundedStored
  <2> QED
    BY <1>4, <2>2 DEF Stored
<1>5. CASE v.type = "Double" /\ to # "Double"
  <2>1. r \in DoubleToIntegral(v.number, to)
    BY <1>5 DEF Converted
  <2>2. v.number # Infinite
    BY <2>1 DEF DoubleToIntegral
  <2>3. v.number \in Int
    BY <1>1, <1>5, <2>2 DEF Stored, Doubles
  <2>4. PICK m \in CastToIntMax(v.number \div 2) : r = IntegralToIntegral(m, to)
    BY <2>1 DEF DoubleToIntegral
  <2>5. m \in Int
    BY <2>3, <2>4 DEF CastToIntMax, IntMax
  <2> QED
    BY <1>2, <1>5, <2>4, <2>5, IntegralStored
<1>6. CASE v.type # to /\ v.type # "Double" /\ to # "Double"
  <2>1. r = IntegralToIntegral(v.number \div 2, to)
    BY <1>6 DEF Converted
  <2>2. PICK n \in Int : v.number = Whole(n)
    BY <1>1, <1>6 DEF Stored
  <2>3. r = IntegralToIntegral(n, to)
    BY <2>1, <2>2, WholeFacts
  <2> QED
    BY <1>2, <1>6, <2>3, IntegralStored
<1> QED
  BY <1>3, <1>4, <1>5, <1>6

LEMMA FitsStep ==
  ASSUME PowersDouble, Fits, [Next]_vars
  PROVE  Fits'
<1>1. CASE UNCHANGED vars
  BY <1>1 DEF vars, Fits, Stored
<1>2. ASSUME NEW to \in Types, Get(to) PROVE Fits'
  <2>1. PICK r \in Converted(value, to) :
           value' = IF r = Thrown THEN value ELSE [type |-> to, number |-> r]
    BY <1>2 DEF Get
  <2>2. CASE r = Thrown
    <3>1. value' = value
      BY <2>1, <2>2
    <3> QED
      BY <3>1 DEF Fits, Stored
  <2>3. CASE r # Thrown
    <3>1. value' = [type |-> to, number |-> r]
      BY <2>1, <2>3
    <3>2. r \in Stored(to)
      BY <2>1, <2>3, ConvertedFits
    <3> QED
      BY <3>1, <3>2 DEF Fits, Stored
  <2> QED
    BY <2>2, <2>3
<1> QED
  BY <1>1, <1>2 DEF Next

LEMMA FitsInit == Init => Fits
<1> SUFFICES ASSUME Init PROVE Fits
  OBVIOUS
<1>1. PICK t \in Types : value \in [type: {t}, number: Stored(t)]
  BY DEF Init
<1> QED
  BY <1>1 DEF Fits

\* However often a Value is read as other types and stored again, it holds a
\* number its type can hold, be it rounded, cut or refused on the way; and the
\* number it began with as long as every conversion stays where Get tests it.
THEOREM NumberKept ==
  ASSUME PowersDouble
  PROVE  Spec => []NumberKeptWhereGuarded
<1>1. Fits /\ [Next]_vars => Fits'
  BY FitsStep
<1>2. Guarded /\ Fits => NumberKeptWhereGuarded
  BY DEF Guarded, Fits, NumberKeptWhereGuarded
<1>3. Spec => []Fits
  BY <1>1, FitsInit, PTL DEF Spec
<1> QED
  BY <1>2, <1>3, AlwaysGuarded, PTL

-----------------------------------------------------------------------------
(* Values bound and fetched.                                               *)

LEMMA WidthDoubles ==
  ASSUME PowersDouble, NEW bits \in Nat \ {0}
  PROVE  2 ^ (bits - 1) \in Nat \ {0} /\ 2 ^ bits = 2 * 2 ^ (bits - 1)
<1>1. bits - 1 \in Nat /\ (bits - 1) + 1 = bits
  OBVIOUS
<1>2. 2 ^ (bits - 1) \in Nat \ {0} /\ 2 ^ ((bits - 1) + 1) = 2 * 2 ^ (bits - 1)
  BY <1>1 DEF PowersDouble
<1> QED
  BY <1>1, <1>2

LEMMA UnitsFacts ==
  ASSUME NEW n \in Int
  PROVE  Units(n) \in Int /\ Units(n) \div 6 = n
BY DEF Units

\* A number cut to so many bits and read as signed is a signed number of that
\* width, and the same number if it was one.
LEMMA AsSignedKeeps ==
  ASSUME PowersDouble, NEW bits \in Nat \ {0}, NEW u \in Int
  PROVE  /\ AsSigned(u, bits) \in SignedNumbers(bits)
         /\ u \in SignedNumbers(bits) => AsSigned(u, bits) = u
<1> DEFINE half == 2 ^ (bits - 1)
           full == 2 ^ bits
           n == (u \div 6) % full
           signed == IF n < half THEN n ELSE n - full
<1>1. half \in Nat \ {0} /\ full = 2 * half
  BY WidthDoubles
<1>2. /\ AsSigned(u, bits) = Units(signed)
      /\ SignedNumbers(bits) = {Units(k) : k \in -half..half - 1}
  BY DEF AsSigned, SignedNumbers, Numbers
<1> HIDE DEF half, full
<1>3. full \in Nat \ {0} /\ u \div 6 \in Int
  BY <1>1
<1>4. n \in 0..full - 1
  BY <1>3
<1>5. signed \in -half..half - 1
  <2> HIDE DEF n
  <2> QED
    BY <1>1, <1>4
<1>6. ASSUME NEW k \in -half..half - 1, u = Units(k)
      PROVE  signed = k
  <2>1. u \div 6 = k
    BY <1>1, <1>6, UnitsFacts
  <2>2. k >= 0 => k % full = k
    BY <1>1
  <2>3. k < 0 => k % full = k + full
    BY <1>1
  <2> QED
    BY <1>1, <2>1, <2>2, <2>3
<1> HIDE DEF signed
<1> QED
  BY <1>2, <1>5, <1>6

\* The same of a number read as unsigned.
LEMMA AsUnsignedKeeps ==
  ASSUME PowersDouble, NEW bits \in Nat \ {0}, NEW u \in Int
  PROVE  /\ Units((u \div 6) % 2 ^ bits) \in UnsignedNumbers(bits)
         /\ u \in UnsignedNumbers(bits) => Units((u \div 6) % 2 ^ bits) = u
<1> DEFINE full == 2 ^ bits
           n == (u \div 6) % full
<1>1. full \in Nat \ {0}
  BY DEF PowersDouble
<1>2. UnsignedNumbers(bits) = {Units(k) : k \in 0..full - 1}
  BY DEF UnsignedNumbers, Numbers
<1> HIDE DEF full
<1>3. n \in 0..full - 1
  BY <1>1
<1>4. ASSUME NEW k \in 0..full - 1, u = Units(k)
      PROVE  n = k
  <2>1. u \div 6 = k
    BY <1>1, <1>4, UnitsFacts
  <2> QED
    BY <1>1, <2>1
<1> HIDE DEF n
<1>5. Units(n) \in UnsignedNumbers(bits) /\ (u \in UnsignedNumbers(bits) => Units(n) = u)
  BY <1>2, <1>3, <1>4
<1> QED
  BY <1>5 DEF n, full

LEMMA SignedWider ==
  ASSUME PowersDouble, NEW a \in Nat \ {0}, NEW b \in Nat, a <= b
  PROVE  SignedNumbers(a) \subseteq SignedNumbers(b)
<1> DEFINE low == 2 ^ (a - 1)
           high == 2 ^ (b - 1)
<1>1. low \in Nat /\ high \in Nat /\ low <= high
  <2>1. a - 1 \in Nat /\ b - 1 \in Nat /\ a - 1 <= b - 1
    OBVIOUS
  <2> QED
    BY <2>1, PowersMonotone DEF PowersDouble
<1>2. /\ SignedNumbers(a) = {Units(k) : k \in -low..low - 1}
      /\ SignedNumbers(b) = {Units(k) : k \in -high..high - 1}
  BY DEF SignedNumbers, Numbers
<1> HIDE DEF low, high
<1>3. -low..low - 1 \subseteq -high..high - 1
  BY <1>1
<1> QED
  BY <1>2, <1>3

LEMMA NumbersAreIntegers ==
  ASSUME PowersDouble, NEW bits \in Nat \ {0}
  PROVE  SignedNumbers(bits) \subseteq Int /\ UnsignedNumbers(bits) \subseteq Int
<1>1. 2 ^ (bits - 1) \in Nat /\ 2 ^ bits \in Nat
  BY WidthDoubles DEF PowersDouble
<1> QED
  BY <1>1, UnitsFacts DEF SignedNumbers, UnsignedNumbers, Numbers

LEMMA WidthsOrdered ==
  ASSUME longBits \in LongWidths
  PROVE  /\ NarrowBits \in Nat \ {0} /\ NarrowBits - 1 \in Nat \ {0}
         /\ longBits \in Nat \ {0} /\ WideBits \in Nat \ {0}
         /\ NarrowBits - 1 <= NarrowBits /\ NarrowBits <= longBits /\ longBits <= WideBits
BY RoundTripAssumption

\* The sets the contents are taken from do not meet.
LEMMA ContentsApart ==
  /\ Texts \cap Int = {} /\ Blobs \cap Int = {} /\ Texts \cap Blobs = {}
  /\ None \notin Texts \cup Blobs \cup Int
  /\ WithNul \in Texts /\ Cut \in Texts /\ NoBytes \in Blobs
BY RoundTripAssumption DEF Texts, Blobs

\* A Value of its type, or a number as text.
Good(v) ==
  \/ v.type \in ValueTypes /\ v.content \in Contents(v.type)
  \/ v.type = "Text" /\ v.content \notin Blobs \cup {None}

TextColumns == {"TEXT", "text"}

\* What a column holds that is not NULL: no blob is kept as text.
Holds(column, c) ==
  \/ c \in Accepted(column)
  \/ column \in TextColumns /\ c \notin Blobs \cup {None}

LEMMA ValueFields ==
  ASSUME NEW t, NEW c
  PROVE  Value(t, c).type = t /\ Value(t, c).content = c
BY DEF Value

LEMMA GoodText ==
  ASSUME NEW c, c \notin Blobs \cup {None}
  PROVE  Good(Value("Text", c))
BY ValueFields DEF Good

LEMMA GoodIntegers ==
  /\ \A c \in SignedNumbers(NarrowBits) : Good(Value("Integer", c))
  /\ \A c \in UnsignedNumbers(NarrowBits) : Good(Value("UnsignedInteger", c))
  /\ \A c \in SignedNumbers(longBits) : Good(Value("LongInteger", c))
  /\ \A c \in UnsignedNumbers(longBits) : Good(Value("UnsignedLongInteger", c))
<1>1. ASSUME NEW t \in IntegralTypes, NEW c \in Contents(t)
      PROVE  Good(Value(t, c))
  BY ValueFields DEF Good, ValueTypes, NumericTypes, IntegralTypes
<1>2. /\ Contents("Integer") = SignedNumbers(NarrowBits)
      /\ Contents("UnsignedInteger") = UnsignedNumbers(NarrowBits)
      /\ Contents("LongInteger") = SignedNumbers(longBits)
      /\ Contents("UnsignedLongInteger") = UnsignedNumbers(longBits)
  BY DEF Contents
<1>3. {"Integer", "UnsignedInteger", "LongInteger", "UnsignedLongInteger"} \subseteq IntegralTypes
  BY DEF IntegralTypes
<1> QED
  BY <1>1, <1>2, <1>3

LEMMA GoodOthers ==
  /\ \A c \in Numbers(0, 1) : Good(Value("Boolean", c))
  /\ \A c \in Fractions : Good(Value("Double", c))
  /\ \A c \in Blobs : Good(Value("Blob", c))
  /\ Good(Value("Null", None))
<1>1. ASSUME NEW t \in ValueTypes, NEW c \in Contents(t)
      PROVE  Good(Value(t, c))
  BY ValueFields DEF Good
<1>2. /\ Contents("Boolean") = Numbers(0, 1)
      /\ Contents("Double") = Fractions
      /\ Contents("Blob") = Blobs
      /\ Contents("Null") = {None}
  BY DEF Contents
<1>3. {"Boolean", "Double", "Blob", "Null"} \subseteq ValueTypes
  BY DEF ValueTypes, NumericTypes
<1> QED
  BY <1>1, <1>2, <1>3

\* What a row's integer is read as.
LEMMA LongGood ==
  ASSUME PowersDouble, longBits \in LongWidths, NEW u \in Int
  PROVE  /\ Good(Long(u)) /\ Long(u).type = "LongInteger"
         /\ u \in SignedNumbers(longBits) => Long(u).content = u
<1>1. longBits \in Nat \ {0}
  BY WidthsOrdered
<1> QED
  BY <1>1, AsSignedKeeps, GoodIntegers, ValueFields DEF Long

LEMMA IntOrLongGood ==
  ASSUME PowersDouble, longBits \in LongWidths, NEW u \in Int
  PROVE  /\ Good(IntOrLong(u)) /\ IntOrLong(u).type \in {"Integer", "LongInteger"}
         /\ u \in SignedNumbers(longBits) \cup SignedNumbers(NarrowBits) => IntOrLong(u).content = u
BY LongGood, GoodIntegers, ValueFields DEF IntOrLong

LEMMA UnsignedLongGood ==
  ASSUME PowersDouble, longBits \in LongWidths, NEW u \in Int
  PROVE  /\ Good(UnsignedLong(u)) /\ UnsignedLong(u).type = "UnsignedLongInteger"
         /\ u \in UnsignedNumbers(longBits) => UnsignedLong(u).content = u
<1>1. longBits \in Nat \ {0}
  BY WidthsOrdered
<1> QED
  BY <1>1, AsUnsignedKeeps, GoodIntegers, ValueFields DEF UnsignedLong

LEMMA StollIs ==
  ASSUME NEW u \in Int
  PROVE  Stoll(u) \in Int /\ (u \in SignedNumbers(WideBits) => Stoll(u) = u)
BY DEF Stoll

LEMMA UpToNulIs ==
  ASSUME NEW c, c \notin Blobs \cup {None}
  PROVE  UpToNul(c) \notin Blobs \cup {None} /\ (c # WithNul => UpToNul(c) = c)
BY ContentsApart DEF UpToNul

\* What the columns of the three engines hold.
LEMMA HoldsIntegers ==
  ASSUME PowersDouble, longBits \in LongWidths, NEW c
  PROVE  /\ Holds("INTEGER", c) => c \in SignedNumbers(WideBits) /\ c \in Int
         /\ Holds("bigint", c) => c \in SignedNumbers(WideBits) /\ c \in Int
         /\ Holds("BIGINT", c) => c \in SignedNumbers(WideBits) /\ c \in Int
         /\ Holds("integer", c) => c \in SignedNumbers(NarrowBits) /\ c \in Int
         /\ Holds("INT", c) => c \in SignedNumbers(NarrowBits) /\ c \in Int
         /\ Holds("MEDIUMINT", c) => c \in SignedNumbers(NarrowBits) /\ c \in Int
         /\ Holds("INT UNSIGNED", c) => c \in UnsignedNumbers(NarrowBits) /\ c \in Int
         /\ Holds("BIGINT UNSIGNED", c) => c \in UnsignedNumbers(WideBits) /\ c \in Int
<1>1. SignedNumbers(NarrowBits - 1) \subseteq SignedNumbers(NarrowBits)
  BY WidthsOrdered, SignedWider
<1>2. /\ SignedNumbers(WideBits) \subseteq Int /\ UnsignedNumbers(WideBits) \subseteq Int
      /\ SignedNumbers(NarrowBits) \subseteq Int /\ UnsignedNumbers(NarrowBits) \subseteq Int
  BY WidthsOrdered, NumbersAreIntegers
<1>3. /\ Accepted("INTEGER") = SignedNumbers(WideBits)
      /\ Accepted("bigint") = SignedNumbers(WideBits)
      /\ Accepted("BIGINT") = SignedNumbers(WideBits)
      /\ Accepted("integer") = SignedNumbers(NarrowBits)
      /\ Accepted("INT") = SignedNumbers(NarrowBits)
      /\ Accepted("MEDIUMINT") = SignedNumbers(NarrowBits - 1)
      /\ Accepted("INT UNSIGNED") = UnsignedNumbers(NarrowBits)
      /\ Accepted("BIGINT UNSIGNED") = UnsignedNumbers(WideBits)
  BY DEF Accepted
<1> QED
  BY <1>1, <1>2, <1>3 DEF Holds, TextColumns

LEMMA HoldsOthers ==
  ASSUME PowersDouble, longBits \in LongWidths, NEW c
  PROVE  /\ \A column \in {"boolean", "TINYINT(1)"} : Holds(column, c) => c \in Numbers(0, 1)
         /\ \A column \in {"REAL", "double precision", "DOUBLE", "DECIMAL"} :
               Holds(column, c) => c \in Fractions /\ c \notin Blobs \cup {None}
         /\ Holds("numeric", c) => c \notin Blobs \cup {None}
         /\ \A column \in TextColumns : Holds(column, c) => c \notin Blobs \cup {None}
         /\ \A column \in {"BLOB", "bytea"} : Holds(column, c) => c \in Blobs
<1>1. Fractions \subseteq Int
  BY RoundTripAssumption DEF Fractions
<1>2. SignedNumbers(WideBits) \cup UnsignedNumbers(WideBits) \subseteq Int
  BY WidthsOrdered, NumbersAreIntegers
<1>3. /\ Accepted("boolean") = Numbers(0, 1) /\ Accepted("TINYINT(1)") = Numbers(0, 1)
      /\ Accepted("REAL") = Fractions /\ Accepted("double precision") = Fractions
      /\ Accepted("DOUBLE") = Fractions /\ Accepted("DECIMAL") = Fractions
      /\ Accepted("numeric") = Fractions \cup SignedNumbers(WideBits) \cup UnsignedNumbers(WideBits)
      /\ Accepted("TEXT") = Texts /\ Accepted("text") = Texts
      /\ Accepted("BLOB") = Blobs /\ Accepted("bytea") = Blobs
  BY DEF Accepted
<1> QED
  BY <1>1, <1>2, <1>3, ContentsApart DEF Holds, TextColumns

\* A column read back: a Value of its type, with what the column held unless
\* the fetch is one FetchRisk names.
LEMMA SQLiteFetchGood ==
  ASSUME PowersDouble, longBits \in LongWidths,
         NEW column \in SQLiteColumns, NEW c, Holds(column, c)
  PROVE  /\ Good(SQLiteFetch(column, c))
         /\ (column = "INTEGER" => c \in SignedNumbers(longBits)) /\ c # WithNul
              => SQLiteFetch(column, c).content = c
<1>1. CASE column = "INTEGER"
  BY <1>1, HoldsIntegers, IntOrLongGood DEF SQLiteFetch
<1>2. CASE column = "REAL"
  <2>1. c \in Fractions /\ SQLiteFetch(column, c) = Value("Double", c)
    BY <1>2, HoldsOthers DEF SQLiteFetch
  <2> QED
    BY <1>2, <2>1, GoodOthers, ValueFields
<1>3. CASE column = "TEXT"
  <2>1. c \notin Blobs \cup {None} /\ SQLiteFetch(column, c) = Value("Text", UpToNul(c))
    BY <1>3, HoldsOthers DEF SQLiteFetch, TextColumns
  <2> QED
    BY <1>3, <2>1, UpToNulIs, GoodText, ValueFields
<1>4. CASE column = "BLOB"
  <2>1. c \in Blobs /\ SQLiteFetch(column, c) = Value("Blob", c)
    BY <1>4, HoldsOthers DEF SQLiteFetch
  <2> QED
    BY <1>4, <2>1, GoodOthers, ValueFields
<1> QED
  BY <1>1, <1>2, <1>3, <1>4 DEF SQLiteColumns

LEMMA PostgresFetchGood ==
  ASSUME PowersDouble, longBits \in LongWidths,
         NEW column \in PostgresColumns, NEW c, Holds(column, c)
  PROVE  /\ Good(PostgresFetch(column, c))
         /\ (column = "bigint" => c \in SignedNumbers(longBits))
              => PostgresFetch(column, c).content = c
<1>1. CASE column \in {"integer", "bigint"}
  <2>1. PostgresFetch(column, c) = IntOrLong(c)
    BY <1>1 DEF PostgresFetch
  <2>2. c \in Int /\ (column = "integer" => c \in SignedNumbers(NarrowBits))
    BY <1>1, HoldsIntegers
  <2> QED
    BY <1>1, <2>1, <2>2, IntOrLongGood
<1>2. CASE column = "boolean"
  <2>1. c \in Numbers(0, 1) /\ PostgresFetch(column, c) = Value("Boolean", c)
    BY <1>2, HoldsOthers DEF PostgresFetch
  <2> QED
    BY <2>1, GoodOthers, ValueFields
<1>3. CASE column = "double precision"
  <2>1. c \in Fractions /\ PostgresFetch(column, c) = Value("Double", c)
    BY <1>3, HoldsOthers DEF PostgresFetch
  <2> QED
    BY <2>1, GoodOthers, ValueFields
<1>4. CASE column = "bytea"
  <2>1. c \in Blobs /\ PostgresFetch(column, c) = Value("Blob", c)
    BY <1>4, HoldsOthers DEF PostgresFetch
  <2> QED
    BY <2>1, GoodOthers, ValueFields
<1>5. CASE column \in {"numeric", "text"}
  <2>1. c \notin Blobs \cup {None} /\ PostgresFetch(column, c) = Value("Text", c)
    BY <1>5, HoldsOthers DEF PostgresFetch, TextColumns
  <2> QED
    BY <2>1, GoodText, ValueFields
<1> QED
  BY <1>1, <1>2, <1>3, <1>4, <1>5 DEF PostgresColumns

LEMMA MariaDBQueryGood ==
  ASSUME PowersDouble, longBits \in LongWidths,
         NEW column \in MariaDBColumns, NEW c, Holds(column, c)
  PROVE  /\ Good(MariaDBQuery(column, c))
         /\ (column \in {"BIGINT", "BIGINT UNSIGNED", "INT UNSIGNED"} => c \in SignedNumbers(longBits))
              => MariaDBQuery(column, c).content = c
<1>1. CASE column \in {"MEDIUMINT", "INT", "INT UNSIGNED"}
  <2>1. MariaDBQuery(column, c) = IntOrLong(c)
    BY <1>1 DEF MariaDBQuery
  <2>2. c \in Int /\ (column # "INT UNSIGNED" => c \in SignedNumbers(NarrowBits))
    BY <1>1, HoldsIntegers
  <2> QED
    BY <1>1, <2>1, <2>2, IntOrLongGood
<1>2. CASE column \in {"BIGINT", "BIGINT UNSIGNED"}
  <2>1. MariaDBQuery(column, c) = Long(Stoll(c))
    BY <1>2 DEF MariaDBQuery
  <2>2. c \in Int
    BY <1>2, HoldsIntegers
  <2>3. SignedNumbers(longBits) \subseteq SignedNumbers(WideBits)
    BY WidthsOrdered, SignedWider
  <2>4. Stoll(c) \in Int /\ (c \in SignedNumbers(longBits) => Stoll(c) = c)
    BY <2>2, <2>3, StollIs
  <2> QED
    BY <1>2, <2>1, <2>4, LongGood
<1>3. CASE column = "TINYINT(1)"
  <2>1. c \in Numbers(0, 1) /\ MariaDBQuery(column, c) = Value("Boolean", c)
    BY <1>3, HoldsOthers DEF MariaDBQuery
  <2> QED
    BY <2>1, GoodOthers, ValueFields
<1>4. CASE column \in {"DECIMAL", "DOUBLE"}
  <2>1. c \in Fractions /\ MariaDBQuery(column, c) = Value("Double", c)
    BY <1>4, HoldsOthers DEF MariaDBQuery
  <2> QED
    BY <2>1, GoodOthers, ValueFields
<1>5. CASE column = "BLOB"
  <2>1. c \in Blobs /\ MariaDBQuery(column, c) = Value("Blob", c)
    BY <1>5, HoldsOthers DEF MariaDBQuery
  <2> QED
    BY <2>1, GoodOthers, ValueFields
<1>6. CASE column = "TEXT"
  <2>1. c \notin Blobs \cup {None} /\ MariaDBQuery(column, c) = Value("Text", c)
    BY <1>6, HoldsOthers DEF MariaDBQuery, TextColumns
  <2> QED
    BY <2>1, GoodText, ValueFields
<1> QED
  BY <1>1, <1>2, <1>3, <1>4, <1>5, <1>6 DEF MariaDBColumns

LEMMA MariaDBExecuteGood ==
  ASSUME PowersDouble, longBits \in LongWidths,
         NEW column \in MariaDBColumns, NEW c, Holds(column, c)
  PROVE  /\ Good(MariaDBExecute(column, c))
         /\ /\ column = "BIGINT" => c \in SignedNumbers(longBits)
            /\ column = "BIGINT UNSIGNED" => c \in UnsignedNumbers(longBits)
            => MariaDBExecute(column, c).content = c
<1>1. CASE column = "INT"
  <2>1. c \in SignedNumbers(NarrowBits) /\ MariaDBExecute(column, c) = Value("Integer", c)
    BY <1>1, HoldsIntegers DEF MariaDBExecute
  <2> QED
    BY <2>1, GoodIntegers, ValueFields
<1>2. CASE column = "INT UNSIGNED"
  <2>1. c \in UnsignedNumbers(NarrowBits) /\ MariaDBExecute(column, c) = Value("UnsignedInteger", c)
    BY <1>2, HoldsIntegers DEF MariaDBExecute
  <2> QED
    BY <2>1, GoodIntegers, ValueFields
<1>3. CASE column = "BIGINT"
  <2>1. c \in Int /\ MariaDBExecute(column, c) = Long(c)
    BY <1>3, HoldsIntegers DEF MariaDBExecute
  <2> QED
    BY <1>3, <2>1, LongGood
<1>4. CASE column = "BIGINT UNSIGNED"
  <2>1. c \in Int /\ MariaDBExecute(column, c) = UnsignedLong(c)
    BY <1>4, HoldsIntegers DEF MariaDBExecute
  <2> QED
    BY <1>4, <2>1, UnsignedLongGood
<1>5. CASE column = "TINYINT(1)"
  <2>1. c \in Numbers(0, 1) /\ MariaDBExecute(column, c) = Value("Boolean", c)
    BY <1>5, HoldsOthers DEF MariaDBExecute
  <2> QED
    BY <2>1, GoodOthers, ValueFields
<1>6. CASE column = "DOUBLE"
  <2>1. c \in Fractions /\ MariaDBExecute(column, c) = Value("Double", c)
    BY <1>6, HoldsOthers DEF MariaDBExecute
  <2> QED
    BY <2>1, GoodOthers, ValueFields
<1>7. CASE column = "BLOB"
  <2>1. c \in Blobs /\ MariaDBExecute(column, c) = Value("Blob", c)
    BY <1>7, HoldsOthers DEF MariaDBExecute
  <2> QED
    BY <2>1, GoodOthers, ValueFields
<1>8. CASE column \in {"MEDIUMINT", "DECIMAL", "TEXT"}
  <2>1. MariaDBExecute(column, c) = Value("Text", c)
    BY <1>8 DEF MariaDBExecute
  <2>2. c \notin Blobs \cup {None}
    BY <1>8, HoldsOthers, HoldsIntegers, ContentsApart DEF TextColumns
  <2> QED
    BY <2>1, <2>2, GoodText, ValueFields
<1> QED
  BY <1>1, <1>2, <1>3, <1>4, <1>5, <1>6, <1>7, <1>8 DEF MariaDBColumns

\* A cell of a table: a column of its engine, with what that column holds.
Sane(k) ==
  /\ k.backend \in Backends /\ k.column \in ColumnsOf(k.backend)
  /\ k.content = None \/ Holds(k.column, k.content)

LEMMA FetchedGood ==
  ASSUME PowersDouble, longBits \in LongWidths, NEW k, Sane(k), NEW path \in Paths
  PROVE  /\ Good(Fetched(k, path))
         /\ ~FetchRisk(k, path) => Fetched(k, path).content = k.content
<1>1. CASE k.content = None
  <2>1. Fetched(k, path) = Value("Null", None)
    BY <1>1 DEF Fetched
  <2> QED
    BY <1>1, <2>1, GoodOthers, ValueFields
<1>2. CASE k.content # None /\ k.backend = "SQLite"
  <2>1. k.column \in SQLiteColumns /\ Holds(k.column, k.content)
    BY <1>2 DEF Sane, ColumnsOf
  <2>2. Fetched(k, path) = SQLiteFetch(k.column, k.content)
    BY <1>2 DEF Fetched
  <2>3. ~FetchRisk(k, path) => /\ k.column = "INTEGER" => k.content \in SignedNumbers(longBits)
                               /\ k.content # WithNul
    BY <1>2 DEF FetchRisk
  <2> QED
    BY <2>1, <2>2, <2>3, SQLiteFetchGood
<1>3. CASE k.content # None /\ k.backend = "Postgres"
  <2>1. k.column \in PostgresColumns /\ Holds(k.column, k.content)
    BY <1>3 DEF Sane, ColumnsOf
  <2>2. Fetched(k, path) = PostgresFetch(k.column, k.content)
    BY <1>3 DEF Fetched
  <2>3. ~FetchRisk(k, path) => (k.column = "bigint" => k.content \in SignedNumbers(longBits))
    BY <1>3 DEF FetchRisk
  <2> QED
    BY <2>1, <2>2, <2>3, PostgresFetchGood
<1>4. CASE k.content # None /\ k.backend = "MariaDB" /\ path = "Query"
  <2>1. k.column \in MariaDBColumns /\ Holds(k.column, k.content)
    BY <1>4 DEF Sane, ColumnsOf
  <2>2. Fetched(k, path) = MariaDBQuery(k.column, k.content)
    BY <1>4 DEF Fetched
  <2>3. ~FetchRisk(k, path) =>
          (k.column \in {"BIGINT", "BIGINT UNSIGNED", "INT UNSIGNED"} => k.content \in SignedNumbers(longBits))
    BY <1>4 DEF FetchRisk
  <2> QED
    BY <2>1, <2>2, <2>3, MariaDBQueryGood
<1>5. CASE k.content # None /\ k.backend = "MariaDB" /\ path = "ExecuteSTMT"
  <2>1. k.column \in MariaDBColumns /\ Holds(k.column, k.content)
    BY <1>5 DEF Sane, ColumnsOf
  <2>2. Fetched(k, path) = MariaDBExecute(k.column, k.content)
    BY <1>5 DEF Fetched
  <2>3. ~FetchRisk(k, path) => /\ k.column = "BIGINT" => k.content \in SignedNumbers(longBits)
                               /\ k.column = "BIGINT UNSIGNED" => k.content \in UnsignedNumbers(longBits)
    BY <1>5 DEF FetchRisk
  <2> QED
    BY <2>1, <2>2, <2>3, MariaDBExecuteGood
<1> QED
  BY <1>1, <1>2, <1>3, <1>4, <1>5 DEF Sane, Backends, Paths

-----------------------------------------------------------------------------

\* The Value in the program's hands and the cell of the table: each is of its
\* type and, where no step was one of the losing ones, what the copying began with.
HandFine ==
  hand # NoValue => Good(hand) /\ (~risky => hand.content = source)

CellFine ==
  cell # NoCell => Sane(cell) /\ (~risky => cell.content = source)

Faithful ==
  /\ longBits \in LongWidths
  /\ HandFine
  /\ CellFine
  /\ risky \in BOOLEAN

\* What each Binder sends: a content the Value's type allows, and the Value's
\* own unless the binding is one BindRisk names.
LEMMA GoodContents ==
  ASSUME NEW v, Good(v)
  PROVE  /\ v.type = "Text" => v.content \notin Blobs \cup {None}
         /\ v.type \in IntegralTypes => v.content \in Contents(v.type)
         /\ v.type = "Double" => v.content \in Int
<1>1. Contents("Text") = Texts /\ Contents("Double") = Fractions
  BY DEF Contents
<1>2. Fractions \subseteq Int
  BY RoundTripAssumption DEF Fractions
<1> QED
  BY <1>1, <1>2, ContentsApart DEF Good, IntegralTypes

LEMMA MadeSignedIs ==
  ASSUME PowersDouble, longBits \in LongWidths, NEW v, Good(v)
  PROVE  /\ /\ v.type = "UnsignedInteger" => v.content \in SignedNumbers(NarrowBits)
            /\ v.type = "UnsignedLongInteger" => v.content \in SignedNumbers(WideBits)
            => MadeSigned(v) = v.content
         /\ v.type \notin {"UnsignedInteger", "UnsignedLongInteger"} => MadeSigned(v) = v.content
<1>1. ASSUME NEW bits \in Nat \ {0}, v.content \in SignedNumbers(bits)
      PROVE  AsSigned(v.content, bits) = v.content
  BY <1>1, NumbersAreIntegers, AsSignedKeeps
<1>2. NarrowBits \in Nat \ {0} /\ WideBits \in Nat \ {0}
  BY WidthsOrdered
<1> QED
  BY <1>1, <1>2 DEF MadeSigned

LEMMA SixDecimalsIs ==
  ASSUME NEW u \in Int, u % 3 = 0
  PROVE  SixDecimals(u) = u
BY DEF SixDecimals

LEMMA BinderKeeps ==
  ASSUME PowersDouble, longBits \in LongWidths, NEW v, Good(v),
         NEW b \in Backends, ~BindRisk(b, v), NEW c \in Binder(b, v)
  PROVE  c = v.content
<1>1. v.content # NoBytes
  BY DEF BindRisk
<1>2. CASE b = "SQLite"
  <2>1. c \in SQLiteBinder(v)
    BY <1>2 DEF Binder
  <2>2. CASE v.type = "Text"
    <3>1. c = UpToNul(v.content)
      BY <1>1, <2>1, <2>2 DEF SQLiteBinder
    <3>2. v.content # WithNul
      BY <1>2 DEF BindRisk
    <3> QED
      BY <3>1, <3>2 DEF UpToNul
  <2>3. CASE v.type # "Text"
    <3>1. c = MadeSigned(v)
      BY <1>1, <2>1, <2>3 DEF SQLiteBinder
    <3>2. /\ v.type = "UnsignedInteger" => v.content \in SignedNumbers(NarrowBits)
          /\ v.type = "UnsignedLongInteger" => v.content \in SignedNumbers(WideBits)
      BY <1>2 DEF BindRisk
    <3> QED
      BY <3>1, <3>2, MadeSignedIs
  <2> QED
    BY <2>2, <2>3
<1>3. CASE b = "Postgres"
  <2>1. c \in PostgresBinder(v)
    BY <1>3 DEF Binder
  <2>2. CASE v.type = "Text"
    <3>1. c = UpToNul(v.content)
      BY <1>1, <2>1, <2>2 DEF PostgresBinder
    <3>2. v.content # WithNul
      BY <1>3 DEF BindRisk
    <3> QED
      BY <3>1, <3>2 DEF UpToNul
  <2>3. CASE v.type = "Double"
    <3>1. c = SixDecimals(v.content)
      BY <1>1, <2>1, <2>3 DEF PostgresBinder
    <3>2. v.content \in Int /\ v.content % 3 = 0
      BY <1>3, <2>3, GoodContents DEF BindRisk
    <3> QED
      BY <3>1, <3>2, SixDecimalsIs
  <2>4. CASE v.type \notin {"Text", "Double"}
    BY <1>1, <2>1, <2>4 DEF PostgresBinder
  <2> QED
    BY <2>2, <2>3, <2>4
<1>4. CASE b = "MariaDB"
  <2>1. c = MadeSigned(v)
    BY <1>1, <1>4 DEF Binder, MariaDBBinder
  <2>2. /\ v.type = "UnsignedInteger" => v.content \in SignedNumbers(NarrowBits)
        /\ v.type = "UnsignedLongInteger" => v.content \in SignedNumbers(WideBits)
    BY <1>4 DEF BindRisk
  <2> QED
    BY <2>1, <2>2, MadeSignedIs
<1> QED
  BY <1>2, <1>3, <1>4 DEF Backends

\* A column that takes text takes no other Value but NULL.
LEMMA BoundHolds ==
  ASSUME NEW v, Good(v), NEW b \in Backends, NEW column,
         Suits(v.type, column), NEW c \in Binder(b, v), Accepts(column, c)
  PROVE  c = None \/ Holds(column, c)
<1> SUFFICES ASSUME c # None, column \in TextColumns
             PROVE  c \notin Blobs \cup {None}
  BY DEF Accepts, Holds, TextColumns
<1>1. v.type \in ValueTypes
  BY DEF Good, ValueTypes
<1>2. v.type \in {"Text", "Null"}
  BY <1>1 DEF Suits, ValueTypes, NumericTypes, IntegralTypes, TextColumns
<1>3. CASE v.type = "Text"
  <2>1. v.content \notin Blobs \cup {None} /\ v.content # NoBytes
    BY <1>3, GoodContents, ContentsApart
  <2>2. MadeSigned(v) = v.content
    BY <1>3 DEF MadeSigned
  <2>3. c \in {UpToNul(v.content), v.content}
    BY <1>3, <2>1, <2>2 DEF Binder, SQLiteBinder, PostgresBinder, MariaDBBinder, Backends
  <2> QED
    BY <2>1, <2>3, UpToNulIs
<1>4. CASE v.type = "Null"
  <2>1. v.content = None /\ v.content # NoBytes
    BY <1>4, ContentsApart DEF Good, Contents
  <2>2. MadeSigned(v) = v.content
    BY <1>4 DEF MadeSigned
  <2> QED
    BY <1>4, <2>1, <2>2 DEF Binder, SQLiteBinder, PostgresBinder, MariaDBBinder, Backends
<1> QED
  BY <1>2, <1>3, <1>4

LEMMA CellFields ==
  ASSUME NEW b \in Backends, NEW column, NEW c
  PROVE  LET k == [backend |-> b, column |-> column, content |-> c]
         IN k # NoCell /\ k.backend = b /\ k.column = column /\ k.content = c
<1>1. NoCell.backend = "none" /\ "none" \notin Backends
  BY DEF NoCell, Backends
<1> QED
  BY <1>1

LEMMA ValueIsSomething ==
  ASSUME NEW v, Good(v)
  PROVE  v # NoValue
<1>1. NoValue.type = "nothing"
  BY DEF NoValue
<1> QED
  BY <1>1 DEF Good, ValueTypes, NumericTypes, IntegralTypes

LEMMA FaithfulInit == TripInit => Faithful
<1> SUFFICES ASSUME TripInit PROVE Faithful
  OBVIOUS
<1>1. longBits \in LongWidths /\ risky \in BOOLEAN
  BY DEF TripInit
<1>2. CASE cell = NoCell /\ \E t \in ValueTypes : hand \in {Value(t, c) : c \in Contents(t)}
  <2>1. PICK t \in ValueTypes : \E c \in Contents(t) : hand = Value(t, c)
    BY <1>2
  <2>2. Good(hand)
    BY <2>1, ValueFields DEF Good
  <2>3. source = hand.content
    BY <1>2 DEF TripInit
  <2> QED
    BY <1>1, <1>2, <2>2, <2>3 DEF Faithful, HandFine, CellFine
<1>3. CASE /\ hand = NoValue
           /\ \E b \in Backends : \E column \in ColumnsOf(b) : \E c \in Accepted(column) :
                 cell = [backend |-> b, column |-> column, content |-> c]
  <2>1. PICK b \in Backends : \E column \in ColumnsOf(b) : \E c \in Accepted(column) :
           cell = [backend |-> b, column |-> column, content |-> c]
    BY <1>3
  <2>2. PICK column \in ColumnsOf(b) : \E c \in Accepted(column) :
           cell = [backend |-> b, column |-> column, content |-> c]
    BY <2>1
  <2>3. PICK c \in Accepted(column) : cell = [backend |-> b, column |-> column, content |-> c]
    BY <2>2
  <2>4. cell # NoCell /\ cell.backend = b /\ cell.column = column /\ cell.content = c
    BY <2>3, CellFields
  <2>5. Sane(cell)
    BY <2>4, <2>3 DEF Sane, Holds
  <2>6. source = cell.content
    BY <2>4 DEF TripInit
  <2> QED
    BY <1>1, <1>3, <2>5, <2>6 DEF Faithful, HandFine, CellFine
<1> QED
  BY <1>2, <1>3 DEF TripInit

LEMMA BindFaithful ==
  ASSUME PowersDouble, Faithful, NEW b \in Backends, NEW column \in ColumnsOf(b), Bind(b, column)
  PROVE  Faithful'
<1>1. PICK c \in Binder(b, hand) :
         /\ Accepts(column, c)
         /\ cell' = [backend |-> b, column |-> column, content |-> c]
  BY DEF Bind
<1>2. /\ Suits(hand.type, column) /\ risky' = (risky \/ BindRisk(b, hand))
      /\ UNCHANGED <<longBits, hand, source>>
  BY DEF Bind
<1>3. hand # NoValue
  <2>1. NoValue.type = "nothing" /\ ~Suits("nothing", column)
    BY DEF NoValue, Suits, IntegralTypes
  <2> QED
    BY <1>2, <2>1
<1>4. /\ longBits \in LongWidths /\ risky \in BOOLEAN
      /\ Good(hand) /\ (~risky => hand.content = source)
  BY <1>3 DEF Faithful, HandFine
<1>5. /\ cell' # NoCell /\ cell'.backend = b /\ cell'.column = column /\ cell'.content = c
  BY <1>1, CellFields
<1>6. c = None \/ Holds(column, c)
  BY <1>1, <1>2, <1>4, BoundHolds
<1>7. longBits' = longBits /\ hand' = hand /\ source' = source
  BY <1>2
<1>8. Sane(cell)'
  BY <1>5, <1>6, <1>7 DEF Sane, Holds, Accepted
<1>9. ~risky' => c = source
  <2> SUFFICES ASSUME ~risky' PROVE c = source
    OBVIOUS
  <2>1. ~risky /\ ~BindRisk(b, hand)
    BY <1>2
  <2>2. c = hand.content
    BY <1>1, <1>4, <2>1, BinderKeeps
  <2> QED
    BY <1>4, <2>1, <2>2
<1>10. CellFine'
  BY <1>5, <1>7, <1>8, <1>9 DEF CellFine
<1>11. HandFine'
  <2>1. Good(hand)'
    BY <1>4, <1>7 DEF Good, Contents
  <2>2. ~risky' => hand.content = source
    BY <1>2, <1>4
  <2> QED
    BY <1>7, <2>1, <2>2 DEF HandFine
<1>12. risky' \in BOOLEAN
  BY <1>2, <1>4 DEF BindRisk
<1> QED
  BY <1>4, <1>7, <1>10, <1>11, <1>12 DEF Faithful

LEMMA FetchFaithful ==
  ASSUME PowersDouble, Faithful, NEW path \in Paths, Fetch(path)
  PROVE  Faithful'
<1>1. /\ cell # NoCell /\ hand' = Fetched(cell, path)
      /\ risky' = (risky \/ FetchRisk(cell, path))
      /\ longBits' = longBits /\ cell' = cell /\ source' = source
  BY DEF Fetch
<1>2. /\ longBits \in LongWidths /\ risky \in BOOLEAN
      /\ Sane(cell) /\ (~risky => cell.content = source)
  BY <1>1 DEF Faithful, CellFine
<1>3. /\ Good(Fetched(cell, path))
      /\ ~FetchRisk(cell, path) => Fetched(cell, path).content = cell.content
  BY <1>2, FetchedGood
<1>4. HandFine'
  <2>1. Good(hand)'
    BY <1>1, <1>3 DEF Good, Contents
  <2>2. ~risky' => hand'.content = source'
    BY <1>1, <1>2, <1>3
  <2> QED
    BY <2>1, <2>2 DEF HandFine
<1>5. CellFine'
  <2>1. Sane(cell)'
    BY <1>1, <1>2 DEF Sane, Holds, Accepted
  <2> QED
    BY <1>1, <1>2, <2>1 DEF CellFine
<1>6. risky' \in BOOLEAN
  BY <1>1, <1>2
<1> QED
  BY <1>1, <1>2, <1>4, <1>5, <1>6 DEF Faithful

LEMMA FaithfulStep ==
  ASSUME PowersDouble, Faithful, [TripNext]_tripVars
  PROVE  Faithful'
<1>1. CASE UNCHANGED tripVars
  <2>1. longBits' = longBits /\ hand' = hand /\ cell' = cell /\ source' = source /\ risky' = risky
    BY <1>1 DEF tripVars
  <2> QED
    BY <2>1 DEF Faithful, HandFine, CellFine, Sane, Holds, Accepted, Good, Contents
<1>2. CASE TripNext
  BY <1>2, BindFaithful, FetchFaithful DEF TripNext
<1> QED
  BY <1>1, <1>2

LEMMA AlwaysFaithful ==
  ASSUME PowersDouble
  PROVE  TripSpec => []Faithful
<1>1. Faithful /\ [TripNext]_tripVars => Faithful'
  BY FaithfulStep
<1> QED
  BY <1>1, FaithfulInit, PTL DEF TripSpec

\* A Value holds what its type can hold, or a number as text, and a cell what
\* its column accepts, however often values are bound and fetched.
THEOREM TripTypeCorrect ==
  ASSUME PowersDouble
  PROVE  TripSpec => []TypeOK
<1>1. Faithful => TypeOK
  <2> SUFFICES ASSUME Faithful PROVE TypeOK
    OBVIOUS
  <2>1. cell # NoCell => cell.column \in ColumnsOf(cell.backend) /\ Accepts(cell.column, cell.content)
    BY DEF Faithful, CellFine, Sane, Holds, Accepts, TextColumns
  <2> QED
    BY <2>1 DEF Faithful, HandFine, Good, TypeOK
<1> QED
  BY <1>1, AlwaysFaithful, PTL

\* However often a value is bound and fetched, through whichever backends,
\* columns and calls, and whatever the widths of the integers: it is what it
\* was, but for the losses BindRisk and FetchRisk name.
THEOREM CopiedUnchanged ==
  ASSUME PowersDouble
  PROVE  TripSpec => []KeptWhereSafe
<1>1. Faithful => KeptWhereSafe
  BY DEF Faithful, HandFine, KeptWhereSafe
<1> QED
  BY <1>1, AlwaysFaithful, PTL

\* What both calls make of one cell, where neither loses anything else.
LEMMA BothReadTheSame ==
  ASSUME PowersDouble, longBits \in LongWidths, NEW k, Sane(k), k.content # None,
         k.backend = "MariaDB", k.column \notin {"MEDIUMINT", "DECIMAL"}, ~ReadApart(k)
  PROVE  /\ MariaDBQuery(k.column, k.content).content = MariaDBExecute(k.column, k.content).content
         /\ MariaDBQuery(k.column, k.content).type \in NumericTypes
              <=> MariaDBExecute(k.column, k.content).type \in NumericTypes
<1> DEFINE column == k.column
           c == k.content
<1>1. column \in MariaDBColumns /\ Holds(column, c)
  BY DEF Sane, ColumnsOf
<1>2. {"Integer", "UnsignedInteger", "LongInteger", "UnsignedLongInteger"} \subseteq NumericTypes
  BY DEF NumericTypes, IntegralTypes
<1>3. CASE column \in {"TINYINT(1)", "DOUBLE", "BLOB", "TEXT"}
  <2>1. MariaDBQuery(column, c) = MariaDBExecute(column, c)
    BY <1>3 DEF MariaDBQuery, MariaDBExecute
  <2> QED
    BY <2>1
<1>4. CASE column = "INT"
  <2>1. c \in SignedNumbers(NarrowBits) /\ c \in Int
    BY <1>1, <1>4, HoldsIntegers
  <2>2. MariaDBQuery(column, c) = IntOrLong(c) /\ MariaDBExecute(column, c) = Value("Integer", c)
    BY <1>4 DEF MariaDBQuery, MariaDBExecute
  <2> QED
    BY <2>1, <2>2 DEF IntOrLong
<1>5. CASE column = "INT UNSIGNED"
  <2>1. c \in Int
    BY <1>1, <1>5, HoldsIntegers
  <2>2. c \in SignedNumbers(longBits)
    BY <1>5 DEF ReadApart, FetchRisk, Paths
  <2>3. MariaDBQuery(column, c) = IntOrLong(c) /\ MariaDBExecute(column, c) = Value("UnsignedInteger", c)
    BY <1>5 DEF MariaDBQuery, MariaDBExecute
  <2> QED
    BY <1>2, <2>1, <2>2, <2>3, IntOrLongGood, ValueFields
<1>6. CASE column = "BIGINT"
  <2>1. c \in SignedNumbers(WideBits) /\ c \in Int
    BY <1>1, <1>6, HoldsIntegers
  <2>2. MariaDBQuery(column, c) = Long(Stoll(c)) /\ MariaDBExecute(column, c) = Long(c)
    BY <1>6 DEF MariaDBQuery, MariaDBExecute
  <2> QED
    BY <2>1, <2>2, StollIs
<1>7. CASE column = "BIGINT UNSIGNED"
  <2>1. c \in Int
    BY <1>1, <1>7, HoldsIntegers
  <2>2. c \in SignedNumbers(longBits) /\ c \in UnsignedNumbers(longBits)
    <3>1. "Query" \in Paths /\ "ExecuteSTMT" \in Paths
      BY DEF Paths
    <3>2. ~FetchRisk(k, "Query") /\ ~FetchRisk(k, "ExecuteSTMT")
      BY <1>7, <3>1 DEF ReadApart
    <3> QED
      BY <1>7, <3>2 DEF FetchRisk
  <2>3. Stoll(c) = c
    BY <2>1, <2>2, WidthsOrdered, SignedWider, StollIs
  <2>4. MariaDBQuery(column, c) = Long(c) /\ MariaDBExecute(column, c) = UnsignedLong(c)
    BY <1>7, <2>3 DEF MariaDBQuery, MariaDBExecute
  <2> QED
    BY <1>2, <2>1, <2>2, <2>4, LongGood, UnsignedLongGood
<1> QED
  BY <1>1, <1>3, <1>4, <1>5, <1>6, <1>7 DEF MariaDBColumns

\* Query and ExecuteSTMT return the same of the same cell, the same content and
\* numbers for numbers, of every column type that both know.
THEOREM BothPathsAgree ==
  ASSUME PowersDouble
  PROVE  TripSpec => []PathsAgree
<1>1. Faithful => PathsAgree
  <2> SUFFICES ASSUME Faithful, cell # NoCell, cell.column \notin {"MEDIUMINT", "DECIMAL"},
                      ~ReadApart(cell)
               PROVE  /\ Fetched(cell, "Query").content = Fetched(cell, "ExecuteSTMT").content
                      /\ Fetched(cell, "Query").type \in NumericTypes
                           <=> Fetched(cell, "ExecuteSTMT").type \in NumericTypes
    BY DEF PathsAgree
  <2>1. longBits \in LongWidths /\ Sane(cell)
    BY DEF Faithful, CellFine
  <2>2. CASE cell.content = None \/ cell.backend # "MariaDB"
    <3>1. Fetched(cell, "Query") = Fetched(cell, "ExecuteSTMT")
      BY <2>1, <2>2 DEF Fetched, Sane, Backends
    <3> QED
      BY <3>1
  <2>3. CASE cell.content # None /\ cell.backend = "MariaDB"
    <3>1. /\ Fetched(cell, "Query") = MariaDBQuery(cell.column, cell.content)
          /\ Fetched(cell, "ExecuteSTMT") = MariaDBExecute(cell.column, cell.content)
      BY <2>3 DEF Fetched
    <3> QED
      BY <2>1, <2>3, <3>1, BothReadTheSame
  <2> QED
    BY <2>2, <2>3
<1> QED
  BY <1>1, AlwaysFaithful, PTL

==============================================================================
