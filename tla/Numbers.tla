------------------------------ MODULE Numbers ------------------------------
(***************************************************************************)
(* Exact numbers of zisc: quantities of a unit (math/unit_multiple-inl.hpp)*)
(* whose values are fractions (math/fraction-inl.hpp), powers of integers  *)
(* (math/math-inl.hpp), the division of ranges (algorithm-inl.hpp) and the *)
(* permutation of the ring buffers (structure/ring_buffer-inl.hpp).        *)
(***************************************************************************)
EXTENDS Integers, FiniteSets

CONSTANTS
  FractionInts,  \* numerators and denominators that are written
  UnitBase,      \* kBase
  UnitExponents, \* kExponent
  PowerBases, PowerMax,  \* bases and the largest exponent of a power
  RangeMax       \* the largest range, and the largest size of a ring buffer
ASSUME NumbersAssumption ==
  /\ FractionInts \cup UnitExponents \cup PowerBases \subseteq Int
  /\ UnitBase \in Nat \ {0, 1} /\ PowerMax \in Nat /\ RangeMax \in Nat

VARIABLES
  number,  \* a call and its result
  power    \* Math::pow at work: its arguments, and x, base and exponent

numberVars == <<number, power>>

-----------------------------------------------------------------------------
(* algorithm-inl.hpp                                                       *)

signbit(x) == x < 0
abs(x) == IF signbit(x) THEN -x ELSE x
larger(a, b) == IF b < a THEN a ELSE b
smaller(a, b) == IF b < a THEN b ELSE a
isOdd(x) == x % 2 = 1
isInBounds(leftClosed, rightClosed, value, lower, upper) ==
  /\ IF leftClosed THEN ~(value < lower) ELSE lower < value
  /\ IF rightClosed THEN ~(upper < value) ELSE value < upper
\* clamp(): the smaller of upper and the larger of value and lower.
clamp(value, lower, upper) == smaller(larger(value, lower), upper)
\* MUTANT: the last range gets the quotient like the others.
divideRangeEven(range, num, index) ==
  LET n == range \div num IN <<n * index, (n * index) + n>>
\* divideRange(): the last range takes what the division leaves.
divideRange(range, num, index) ==
  LET n == range \div num
  IN IF isInBounds(TRUE, FALSE, index, 0, num)
       THEN <<n * index, larger((n * index) + n, IF index + 1 = num THEN range ELSE 0)>>
       ELSE <<0, 0>>

-----------------------------------------------------------------------------
(* ring_buffer-inl.hpp                                                     *)

bit_width(n) == CHOOSE w \in 0..30 : n < 2 ^ w /\ (w = 0 \/ 2 ^ (w - 1) <= n)
calcOrder(n) == IF bit_width(n) > 0 THEN bit_width(n) - 1 ELSE 0
\* permuteIndex(): the bits of the index rotate by shift, so that neighbours
\* lie in different cache lines.
permuteIndex(index, n, shift) ==
  LET o == calcOrder(n)
  IN IF shift < o THEN ((index * 2 ^ shift) + (index % n) \div 2 ^ (o - shift)) % n ELSE index % n

-----------------------------------------------------------------------------
(* fraction-inl.hpp                                                        *)

euclid[a \in Nat, b \in Nat] == IF b = 0 THEN a ELSE euclid[b, a % b]
gcd(a, b) == euclid[abs(a), abs(b)]
lcm(a, b) == IF a = 0 \/ b = 0 THEN 0 ELSE abs(a * b) \div gcd(a, b)
\* The quotient of a division that leaves nothing.
Exactly(a, b) == IF signbit(a) THEN -((-a) \div b) ELSE a \div b

\* MUTANT: the sign stays with the denominator.
FractionSigned(n, d) == [n |-> Exactly(n, gcd(n, d)), d |-> Exactly(d, gcd(n, d))]
Fraction(n, d) == [n |-> Exactly(IF signbit(d) THEN -n ELSE n, gcd(n, d)),
                   d |-> abs(d) \div gcd(n, d)]
FractionPlus(a, b) ==
  LET denom == lcm(a.d, b.d)
  IN Fraction(a.n * (denom \div gcd(denom, a.d)) + b.n * (denom \div gcd(denom, b.d)), denom)
FractionNegate(a) == [n |-> -a.n, d |-> a.d]
FractionInvert(a) == Fraction(a.d, a.n)
\* The factors of the two products of operator*.
FractionFactors(a, b) ==
  LET s == gcd(a.n, b.d)
      t == gcd(a.d, b.n)
  IN <<Exactly(a.n, s), Exactly(b.n, t), a.d \div t, b.d \div s>>
FractionTimes(a, b) ==
  LET f == FractionFactors(a, b) IN Fraction(f[1] * f[2], f[3] * f[4])
FractionEqual(a, b) == a.n = b.n /\ a.d = b.d
FractionLess(a, b) == a.n * b.d < a.d * b.n
FractionLessEqual(a, b) == FractionEqual(a, b) \/ FractionLess(a, b)

-----------------------------------------------------------------------------
(* unit_multiple-inl.hpp                                                   *)

castUnit(q, to) ==
  LET diff == to - q.exp
      k == IF diff > 0 THEN Fraction(1, UnitBase ^ diff) ELSE Fraction(UnitBase ^ (-diff), 1)
  IN [value |-> IF diff = 0 THEN q.value ELSE FractionTimes(k, q.value), exp |-> to]
UnitPlus(a, b) ==
  LET e == smaller(a.exp, b.exp)
  IN [value |-> FractionPlus(castUnit(a, e).value, castUnit(b, e).value), exp |-> e]
UnitMinus(a, b) ==
  LET e == smaller(a.exp, b.exp)
  IN [value |-> FractionPlus(castUnit(a, e).value, FractionNegate(castUnit(b, e).value)), exp |-> e]
UnitTimes(a, n) == [value |-> FractionTimes(a.value, Fraction(n, 1)), exp |-> a.exp]
UnitOver(a, n) ==
  [value |-> FractionTimes(a.value, FractionInvert(Fraction(n, 1))), exp |-> a.exp]
UnitEqual(a, b) == LET e == smaller(a.exp, b.exp)
                   IN FractionEqual(castUnit(a, e).value, castUnit(b, e).value)
UnitLess(a, b) == LET e == smaller(a.exp, b.exp)
                  IN FractionLess(castUnit(a, e).value, castUnit(b, e).value)
UnitLessEqual(a, b) == LET e == smaller(a.exp, b.exp)
                       IN FractionLessEqual(castUnit(a, e).value, castUnit(b, e).value)

-----------------------------------------------------------------------------
NoNumber == <<"none">>
NoPower == [arg |-> 0, exp |-> 0, floating |-> FALSE, x |-> 0, base |-> 0, left |-> -1,
            inverse |-> FALSE]

numberInit == number = NoNumber /\ power = NoPower

Fractions == {Fraction(n, d) : n \in FractionInts, d \in FractionInts \ {0}}
Quantities == [value : Fractions, exp : UnitExponents]
Compute(op, a, b, result) ==
  /\ number = NoNumber /\ power = NoPower
  /\ number' = <<op, a, b, result>>
  /\ UNCHANGED power

Convert == \E a \in Quantities, to \in UnitExponents : Compute("cast", a, to, castUnit(a, to))
AddUnits == \E a, b \in Quantities : Compute("+", a, b, UnitPlus(a, b))
SubtractUnits == \E a, b \in Quantities : Compute("-", a, b, UnitMinus(a, b))
Multiply == \E a \in Quantities, n \in FractionInts : Compute("*", a, n, UnitTimes(a, n))
Divide == \E a \in Quantities, n \in FractionInts \ {0} : Compute("/", a, n, UnitOver(a, n))
MultiplyValues == \E a, b \in Fractions : Compute("product", a, b, FractionTimes(a, b))
Order == \E a, b \in Quantities :
  Compute("order", a, b, [eq |-> UnitEqual(a, b), lt |-> UnitLess(a, b), le |-> UnitLessEqual(a, b)])
DivideRange == \E range \in 0..RangeMax, num \in 1..RangeMax :
  Compute("ranges", range, num, [i \in -1..num |-> divideRange(range, num, i)])
Permute == \E order \in 0..calcOrder(RangeMax), shift \in 0..3 :
  Compute("permute", order, shift,
         [i \in 0..((2 ^ (order + 1)) - 1) |-> permuteIndex(i, 2 ^ order, shift)])
Clamp == \E value, lower, upper \in FractionInts :
  lower <= upper /\ Compute("clamp", <<lower, upper>>, value, clamp(value, lower, upper))

\* MUTANT: a negative exponent is taken for a positive one.
PowerCallPositive ==
  /\ number = NoNumber /\ power = NoPower
  /\ \E base \in PowerBases, e \in (-PowerMax)..PowerMax, floating \in BOOLEAN :
       power' = [arg |-> base, exp |-> e, floating |-> floating,
                 x |-> IF base = 0 /\ e # 0 THEN 0 ELSE 1, base |-> base,
                 left |-> IF base = 0 THEN 0 ELSE abs(e), inverse |-> FALSE]
  /\ UNCHANGED number
\* pow(base, exponent): a zero base returns at once, with 0, 1 or infinity.  Of
\* floating numbers a negative exponent inverts the base (rounding left out):
\* then x and base stand for 1/x and 1/base, and 1/0 for infinity.  The base of
\* an integer type is not inverted, and its infinity() is 0.
PowerCall ==
  /\ number = NoNumber /\ power = NoPower
  /\ \E base \in PowerBases, e \in (-PowerMax)..PowerMax, floating \in BOOLEAN :
       power' = [arg |-> base, exp |-> e, floating |-> floating,
                 x |-> IF base = 0 /\ e # 0 THEN 0 ELSE 1, base |-> base,
                 left |-> IF base = 0 THEN 0 ELSE abs(e),
                 inverse |-> floating /\ signbit(e)]
  /\ UNCHANGED number
\* MUTANT: the base is squared in the last turn, too.
PowerTurnMore ==
  /\ power.left > 0
  /\ power' = [power EXCEPT !.x = IF isOdd(power.left) THEN @ * power.base ELSE @,
                            !.base = @ * @, !.left = @ \div 2]
  /\ UNCHANGED number
\* One turn of the loop.
PowerTurn ==
  /\ power.left > 0
  /\ power' = [power EXCEPT !.x = IF isOdd(power.left) THEN @ * power.base ELSE @,
                            !.base = IF 1 < power.left THEN @ * @ ELSE @,
                            !.left = @ \div 2]
  /\ UNCHANGED number

numberNext == \/ Convert \/ AddUnits \/ SubtractUnits \/ Multiply \/ Divide \/ MultiplyValues \/ Order
              \/ DivideRange \/ Permute \/ Clamp \/ PowerCall \/ PowerTurn
numberSpec == numberInit /\ [][numberNext]_numberVars

-----------------------------------------------------------------------------
(* Properties                                                              *)

\* A quantity as a pair of integers, in the smallest unit of all.
Low == CHOOSE e \in UnitExponents : \A f \in UnitExponents : e <= f
Numer(q) == q.value.n * UnitBase ^ (q.exp - Low)
Denom(q) == q.value.d
Canonical(f) == f.d > 0 /\ gcd(f.n, f.d) = 1
SameValue(q, n, d) == Numer(q) * d = n * Denom(q)

\* Every result is the exact value, in its canonical form: == of Fraction
\* compares numerators and denominators and relies on it.  Conversions keep
\* the value, the comparisons order the values of different units, and no
\* factor of a product is larger than the product it makes.
NumbersAreExact ==
  LET op == number[1]
      a == number[2]
      b == number[3]
      q == number[4]
  IN CASE op = "cast" -> Canonical(q.value) /\ SameValue(q, Numer(a), Denom(a))
       [] op = "+" -> /\ Canonical(q.value)
                             /\ SameValue(q, Numer(a) * Denom(b) + Numer(b) * Denom(a), Denom(a) * Denom(b))
       [] op = "-" -> /\ Canonical(q.value)
                             /\ SameValue(q, Numer(a) * Denom(b) - Numer(b) * Denom(a), Denom(a) * Denom(b))
       [] op = "*" -> Canonical(q.value) /\ SameValue(q, Numer(a) * b, Denom(a))
       [] op = "/" -> Canonical(q.value) /\ SameValue(q, Numer(a), Denom(a) * b)
       [] op = "product" ->
            /\ Canonical(q) /\ q.n * a.d * b.d = q.d * a.n * b.n
            /\ LET f == FractionFactors(a, b) IN f[1] * f[2] = q.n /\ f[3] * f[4] = q.d
       [] op = "order" -> LET left == Numer(a) * Denom(b)
                                     right == Numer(b) * Denom(a)
                                 IN q = [eq |-> left = right, lt |-> left < right, le |-> left <= right]
       [] OTHER -> TRUE

\* The ranges of divideRange() tile the whole range in order, an index outside
\* gets the empty one, and clamp() gives the nearest value of the interval;
\* permuteIndex() is a permutation of the slots and depends on the index modulo
\* the size only.
RangesAreExact ==
  LET op == number[1]
      a == number[2]
      b == number[3]
      r == number[4]
  IN CASE op = "ranges" ->
            /\ r[0][1] = 0 /\ r[b - 1][2] = a
            /\ \A i \in 0..(b - 1) : r[i][1] <= r[i][2]
            /\ \A i \in 1..(b - 1) : r[i][1] = r[i - 1][2]
            /\ r[-1] = <<0, 0>> /\ r[b] = <<0, 0>>
       [] op = "permute" ->
            LET n == 2 ^ a
            IN /\ {r[i] : i \in 0..(n - 1)} = 0..(n - 1)
               /\ \A i \in 0..(n - 1) : r[i + n] = r[i]
       [] op = "clamp" ->
            /\ a[1] <= r /\ r <= a[2]
            /\ \A m \in FractionInts : a[1] <= m /\ m <= a[2] => abs(b - r) <= abs(b - m)
       [] OTHER -> TRUE

\* base^|exponent|, of which the result of a negative exponent is the inverse.
WholePower == IF power.exp = 0 THEN 1 ELSE power.arg ^ abs(power.exp)

\* In every turn of the loop of pow() x times what is left is the power, the
\* inverse of it for a floating number and a negative exponent, and nothing that
\* is computed on the way is larger than the result: there is no overflow (of
\* the inverse: no underflow) unless the result itself does not fit.
PowerIsExact == power.left >= 0 =>
  /\ power.x * (IF power.left = 0 THEN 1 ELSE power.base ^ power.left) = WholePower
  /\ power.floating => power.inverse = (power.exp < 0)
  /\ abs(power.x) <= abs(WholePower) \/ power.arg = 0
  /\ power.left > 0 \/ power.exp # 0 => abs(power.base) <= abs(WholePower)

\* pow() returns the number raised to the given power (math.hpp 60), to an
\* integer type the whole part of it.  NOT true of the code when the base is an
\* integer and the exponent negative: nothing inverts the base.
IntegerPowerIsPower == power.left = 0 /\ ~power.floating /\ power.arg # 0 =>
  power.x = IF 0 <= power.exp \/ abs(power.arg) = 1 THEN WholePower ELSE 0
=============================================================================
