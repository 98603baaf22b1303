-------------------------------- MODULE ValueGet --------------------------------
(***************************************************************************)
(* Value::Get<T> and convert_numeric (value.hxx:141-238): the numeric      *)
(* conversions a Value goes through as it is read as one type, stored      *)
(* again and read as another.  The widths of the types are parameters;     *)
(* 32-bit int, 64-bit long and the 53-bit significand of double are a      *)
(* typical choice, and only their order matters.                           *)
(***************************************************************************)
EXTENDS Integers

CONSTANTS
    IntBits,        \* int, unsigned int
    LongBits,       \* long int, unsigned long int
    MaxBits,        \* std::intmax_t, std::uintmax_t
    DoubleBits,     \* significand of double
    Beyond,         \* the whole doubles tried reach this far past intmax_t: as
                    \* far at least as the integers, rounded, go
    Infinite,       \* any double that is not finite
    Thrown          \* WrongValueType instead of a number

ASSUME WidthsAssumption ==
    /\ IntBits \in Nat \ {0}
    /\ LongBits \in Nat \ {0}
    /\ MaxBits \in Nat \ {0}
    /\ DoubleBits \in Nat \ {0}
    /\ Beyond \in Nat /\ Beyond >= 2 ^ (MaxBits - 1)
    /\ IntBits <= LongBits /\ LongBits <= MaxBits
    /\ Infinite \notin Int /\ Thrown \notin Int /\ Infinite # Thrown

VARIABLES
    value,      \* the Value in hand
    asked,      \* the type the last Get asked for
    thrown,     \* it threw WrongValueType
    origin,     \* history: the number the chain of conversions began with
    inexact     \* history: a conversion went where no test guards it

vars == <<value, asked, thrown, origin, inexact>>

Signed == {"Integer", "LongInteger"}
Unsigned == {"UnsignedInteger", "UnsignedLongInteger", "Boolean"}
Integral == Signed \cup Unsigned
Types == Integral \cup {"Double"}

Bits == [Integer |-> IntBits, UnsignedInteger |-> IntBits,
         LongInteger |-> LongBits, UnsignedLongInteger |-> LongBits]

\* std::numeric_limits<T>::lowest() and max().
Lowest(t) == IF t \in Signed THEN -(2 ^ (Bits[t] - 1)) ELSE 0

Highest(t) ==
    CASE t = "Boolean" -> 1
      [] t \in Signed -> 2 ^ (Bits[t] - 1) - 1
      [] OTHER -> 2 ^ Bits[t] - 1

IntMax == -(2 ^ (MaxBits - 1)) .. 2 ^ (MaxBits - 1) - 1

\* A number is counted in halves, so that a double may have a fraction.
Whole(n) == 2 * n

Magnitude(n) == IF n < 0 THEN -n ELSE n

\* The distance between doubles of the magnitude of n.
Spacing(n) ==
    2 ^ (CHOOSE e \in 0..(MaxBits + 2) :
            /\ Magnitude(n) < 2 ^ (DoubleBits + e)
            /\ e = 0 \/ Magnitude(n) >= 2 ^ (DoubleBits + e - 1))

\* The double nearest to n, the even one of two.
Rounded(n) ==
    LET unit == Spacing(n)
        below == Magnitude(n) \div unit
        rest == 2 * (Magnitude(n) % unit)
        steps == IF rest > unit \/ (rest = unit /\ below % 2 = 1) THEN below + 1 ELSE below
    IN IF n < 0 THEN -(steps * unit) ELSE steps * unit

Doubles == {h \in Whole(-(2 ^ (MaxBits - 1)) - Beyond) .. Whole(2 ^ (MaxBits - 1) + Beyond) :
                Rounded(h) = h}

Representable(n, t) == Lowest(t) <= n /\ n <= Highest(t)

\* The numbers a Value of type t may hold.
Stored(t) == IF t = "Double" THEN Doubles \cup {Infinite}
             ELSE {Whole(n) : n \in Lowest(t)..Highest(t)}

Init ==
    /\ value \in UNION {[type: {t}, number: Stored(t)] : t \in Types}
    /\ asked = value.type
    /\ thrown = FALSE
    /\ origin = value.number
    /\ inexact = FALSE

-----------------------------------------------------------------------------
(* convert_numeric.                                                        *)

\* Slip: a signed destination tested against the range of its unsigned twin.
IntegralUnsignedTwin(n, to) ==
    CASE Representable(n, to) -> Whole(n)
      [] to \in Signed /\ n > Highest(to) /\ n < 2 ^ Bits[to] -> Whole(n - 2 ^ Bits[to])
      [] OTHER -> Thrown

\* Slip: the largest number is refused.
IntegralBelowHighest(n, to) ==
    IF Lowest(to) <= n /\ n < Highest(to) THEN Whole(n) ELSE Thrown

\* Integer to integer: the range tests of the four signedness cases.
IntegralToIntegral(n, to) == IF Representable(n, to) THEN Whole(n) ELSE Thrown

\* The cast of a double that intmax_t cannot hold is undefined.
CastToIntMax(n) == IF n \in IntMax THEN {n} ELSE IntMax

\* Double to integer: finite, whole, and only then in range.
DoubleToIntegral(h, to) ==
    IF h = Infinite \/ h % 2 # 0 THEN {Thrown}
    ELSE {IntegralToIntegral(m, to) : m \in CastToIntMax(h \div 2)}

\* Get<to>: the stored type itself, or a conversion.
Converted(v, to) ==
    CASE v.type = to -> {v.number}
      [] v.type # to /\ to = "Double" -> {Rounded(v.number)}
      [] v.type = "Double" /\ to # "Double" -> DoubleToIntegral(v.number, to)
      [] OTHER -> {IntegralToIntegral(v.number \div 2, to)}

\* Where no test stands between a number and its conversion.
Unguarded(v, to) ==
    IF to = "Double" THEN v.type # "Double" /\ Rounded(v.number) # v.number
    ELSE v.type = "Double" /\ v.number # Infinite /\ v.number \div 2 \notin IntMax

\* Get<to>() and the Value made of what it returns; after a throw the Value
\* still holds what it held.
Get(to) ==
    /\ asked' = to
    /\ \E n \in Converted(value, to) :
          /\ thrown' = (n = Thrown)
          /\ value' = IF n = Thrown THEN value ELSE [type |-> to, number |-> n]
    /\ inexact' = (inexact \/ Unguarded(value, to))
    /\ UNCHANGED origin

Next == \E to \in Types : Get(to)

Spec == Init /\ [][Next]_vars

-----------------------------------------------------------------------------
(* Properties.                                                             *)

\* However often a Value is read as other types and stored again, it holds a
\* number its type can hold; and it is the number it was, "throws WrongValueType
\* on overflow, sign loss or non-integral float" (value.hxx:186), as long as
\* every conversion stays where the code tests it.
NumberKeptWhereGuarded ==
    /\ value.number \in Stored(value.type)
    /\ ~inexact => value.number = origin

\* Get refuses a number only when the type asked for cannot hold it.
ThrowsOnlyWhenItMust == thrown /\ ~inexact => value.number \notin Stored(asked)

=============================================================================
